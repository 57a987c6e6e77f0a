----------------------------- MODULE BrotliProofs -----------------------------
(***************************************************************************)
(* Proofs about Brotli: for any window, any dictionary, any formats of     *)
(* distances, any sizes of blocks and any output.  After them, proofs      *)
(* about PrefixCode: for any alphabet, any longest code and any bits.      *)
(***************************************************************************)
EXTENDS Brotli, PrefixCode, DataLemmas, SequenceTheorems, FiniteSetTheorems, TLAPS

(* A sequence of whatever it holds: for the counts it only matters how many *)
(* letters an insertion, a copy or a word appends.                          *)
IsSeq(s) == s \in Seq(Range(s))

DecoderInv == BlockInv /\ IsSeq(output)

-----------------------------------------------------------------------------
(* Sequences *)

LEMMA SeqIsSeq ==
  ASSUME NEW S, NEW s \in Seq(S)
  PROVE  IsSeq(s)
<1>1. s \in [1 .. Len(s) -> Range(s)]
  BY DEF Range
<1> QED
  BY <1>1 DEF IsSeq

LEMMA FunctionSeq ==
  ASSUME NEW n \in Nat, NEW s, s = [k \in 1 .. n |-> s[k]]
  PROVE  IsSeq(s) /\ Len(s) = n
<1> DEFINE S == Range(s)
<1>1. s \in [1 .. n -> S]
  BY DEF Range
<1>2. s \in Seq(S)
  BY <1>1
<1>3. Len(s) = n
  BY <1>1, <1>2
<1> QED
  BY <1>2, <1>3, SeqIsSeq

LEMMA ConcatSeq ==
  ASSUME NEW s, NEW t, IsSeq(s), IsSeq(t)
  PROVE  /\ IsSeq(s \o t)
         /\ Len(s \o t) = Len(s) + Len(t)
         /\ Len(s) \in Nat /\ Len(t) \in Nat
<1> DEFINE S == Range(s) \cup Range(t)
<1>1. s \in Seq(S) /\ t \in Seq(S)
  BY DEF IsSeq
<1>2. s \o t \in Seq(S) /\ Len(s \o t) = Len(s) + Len(t)
  BY <1>1
<1>3. Len(s) \in Nat /\ Len(t) \in Nat
  BY <1>1
<1> HIDE DEF S
<1>4. IsSeq(s \o t)
  BY <1>2, SeqIsSeq, Zenon
<1> QED
  BY <1>2, <1>3, <1>4

LEMMA AppendSeq ==
  ASSUME NEW s, NEW x, IsSeq(s)
  PROVE  /\ IsSeq(Append(s, x))
         /\ Len(Append(s, x)) = Len(s) + 1
         /\ Len(s) \in Nat
<1> DEFINE S == Range(s) \cup {x}
<1>1. s \in Seq(S) /\ x \in S
  BY DEF IsSeq
<1>2. Append(s, x) \in Seq(S) /\ Len(Append(s, x)) = Len(s) + 1
  BY <1>1
<1>3. Len(s) \in Nat
  BY <1>1
<1> HIDE DEF S
<1>4. IsSeq(Append(s, x))
  BY <1>2, SeqIsSeq, Zenon
<1> QED
  BY <1>2, <1>3, <1>4
-----------------------------------------------------------------------------
(* What is chosen *)

LEMMA CommandType ==
  ASSUME NEW c \in Commands
  PROVE  c.insert \in Nat /\ c.copy \in Nat
<1>0. PICK iacc \in 0 .. 703 : c \in CommandsOf(iacc)
  BY DEF Commands
<1>1. /\ c.insert \in LengthsOf(INSERT_LENGTH, INSERT_EXTRA, InsertCode(iacc), MaxOutput)
      /\ c.copy \in LengthsOf(COPY_LENGTH, COPY_EXTRA, CopyCode(iacc), MaxOutput)
  BY <1>0 DEF CommandsOf
<1>2. iacc \div 64 \in 0 .. 10 /\ (iacc \div 8) % 8 \in 0 .. 7 /\ iacc % 8 \in 0 .. 7
  BY <1>0
<1>3. Cell(iacc)[1] \in {0, 8, 16} /\ Cell(iacc)[2] \in {0, 8, 16}
  BY <1>2 DEF Cell, INSERT_AND_COPY_CODE
<1>4. InsertCode(iacc) \in 0 .. 23 /\ CopyCode(iacc) \in 0 .. 23
  BY <1>2, <1>3 DEF InsertCode, CopyCode
<1>5. INSERT_LENGTH[InsertCode(iacc) + 1] \in Nat /\ COPY_LENGTH[CopyCode(iacc) + 1] \in Nat
  BY <1>4 DEF INSERT_LENGTH, COPY_LENGTH
<1> QED
  BY <1>1, <1>5 DEF LengthsOf

(* What resize() leaves: as many bytes, the same if they were all in the buffer. *)
LEMMA ResizedSeq ==
  ASSUME IsSeq(output), size \in Nat, NEW s \in Resized
  PROVE  /\ IsSeq(s) /\ Len(s) = Len(output)
         /\ Len(output) <= size => s = output
<1> DEFINE L == Len(output)
<1>1. PICK rest : s = [k \in 1 .. L |-> IF k <= size THEN output[k] ELSE rest[k]]
  BY DEF Resized
<1>2. L \in Nat /\ output = [k \in 1 .. L |-> output[k]]
  <2>1. output \in Seq(Range(output))
    BY DEF IsSeq
  <2> QED
    BY <2>1
<1>3. s = [k \in 1 .. L |-> s[k]]
  BY <1>1
<1> HIDE DEF L
<1>4. IsSeq(s) /\ Len(s) = L
  BY <1>2, <1>3, FunctionSeq
<1>5. ASSUME L <= size PROVE s = output
  <2>1. \A k \in 1 .. L : k <= size
    BY <1>2, <1>5
  <2>2. \A k \in 1 .. L : s[k] = output[k]
    BY <1>1, <2>1
  <2> QED
    BY <1>2, <1>3, <2>2
<1> QED
  BY <1>4, <1>5 DEF L

(* A copy adds as many bytes as it was asked for. *)
LEMMA CopiedSeq ==
  ASSUME IsSeq(output), NEW d, NEW n \in Nat
  PROVE  IsSeq(Copied(d, n)) /\ Len(Copied(d, n)) = Len(output) + n
<1> DEFINE byte[k \in 1 .. Len(output) + n] ==
             IF k <= Len(output) THEN output[k] ELSE byte[k - d]
<1>1. Len(output) + n \in Nat
  BY DEF IsSeq
<1>2. Copied(d, n) = [k \in 1 .. Len(output) + n |-> byte[k]]
  BY DEF Copied
<1> HIDE DEF byte
<1> DEFINE s == Copied(d, n)
<1>3. s = [k \in 1 .. Len(output) + n |-> s[k]]
  BY <1>2
<1> HIDE DEF s
<1>4. IsSeq(s) /\ Len(s) = Len(output) + n
  BY <1>1, <1>3, FunctionSeq
<1> QED
  BY <1>4 DEF s

(* The word a dictionary reference appends is a sequence, whichever transform. *)
LEMMA AppendedSeq ==
  ASSUME NEW id, NEW n, Exists(id, n)
  PROVE  IsSeq(Appended(id, n))
<1> DEFINE t == transformation[TransformID(id, n) + 1]
           word == Word(n, id % NWORDS(n))
           changed == Transformed(word, t.kind)
<1>1. n \in Nat
  BY DEF Exists, Lengths
<1>2. IsSeq(word) /\ Len(word) = n
  <2>1. word = [k \in 1 .. n |-> word[k]]
    BY DEF Word
  <2> HIDE DEF word
  <2> QED
    BY <1>1, <2>1, FunctionSeq
<1>3. t \in [prefix : Seq(0 .. 255), kind : 0 .. 20, suffix : Seq(0 .. 255)]
  <2> DEFINE k == TransformID(id, n)
             R == [prefix : Seq(0 .. 255), kind : 0 .. 20, suffix : Seq(0 .. 255)]
  <2>1. k \in 0 .. Len(transformation) - 1
    BY DEF Exists
  <2>2. transformation \in Seq(R)
    BY DictionaryAssumption
  <2> HIDE DEF k, R
  <2>3. transformation[k + 1] \in R
    BY <2>1, <2>2
  <2> QED
    BY <2>3 DEF R, k
<1> HIDE DEF word, t
<1>4. IsSeq(changed)
  <2>1. CASE t.kind = 0
    BY <1>2, <2>1 DEF Transformed
  <2>2. CASE t.kind = 1
    <3>1. changed = FermentFirst(word)
      BY <2>2 DEF Transformed
    <3>2. changed = [k \in 1 .. n |-> changed[k]]
      BY <1>2, <3>1 DEF FermentFirst
    <3> HIDE DEF changed
    <3> QED
      BY <1>1, <3>2, FunctionSeq
  <2>3. CASE t.kind = 2
    <3>1. changed = FermentAll(word)
      BY <2>3 DEF Transformed
    <3>2. changed = [k \in 1 .. n |-> changed[k]]
      BY <1>2, <3>1 DEF FermentAll
    <3> HIDE DEF changed
    <3> QED
      BY <1>1, <3>2, FunctionSeq
  <2>4. CASE t.kind \in 3 .. 11
    <3>0. changed = OmitFirst(word, t.kind - 2)
      BY <2>4 DEF Transformed
    <3>1. changed = SubSeq(word, (t.kind - 2) + 1, Len(word))
      BY <3>0 DEF OmitFirst
    <3>2. word \in Seq(Range(word))
      BY <1>2 DEF IsSeq
    <3>3. changed \in Seq(Range(word))
      <4>1. t.kind - 2 \in 1 .. 9
        BY <2>4
      <4>2. (t.kind - 2) + 1 \in 1 .. Len(word) + 10
        BY <4>1, <3>2, SMTT(30)
      <4> QED
        BY <3>1, <3>2, <4>2, SMTT(30)
    <3> HIDE DEF changed
    <3> QED
      BY <3>3, SeqIsSeq
  <2>5. CASE t.kind \in 12 .. 20
    <3>1. changed = <<>> \/ changed = word
      BY <2>5 DEF Transformed, OmitLast
    <3>2. IsSeq(<<>>)
      BY DEF IsSeq
    <3> QED
      BY <1>2, <3>1, <3>2
  <2> QED
    BY <1>3, <2>1, <2>2, <2>3, <2>4, <2>5
<1>5. IsSeq(t.prefix) /\ IsSeq(t.suffix)
  BY <1>3, SeqIsSeq
<1>6. Appended(id, n) = (t.prefix \o changed) \o t.suffix
  BY DEF Appended, t, word
<1> HIDE DEF changed
<1>7. IsSeq(t.prefix \o changed)
  BY <1>4, <1>5, ConcatSeq
<1> QED
  BY <1>5, <1>6, <1>7, ConcatSeq

-----------------------------------------------------------------------------
(* The invariant *)

LEMMA DecoderInit == Init => DecoderInv
<1> SUFFICES ASSUME Init PROVE DecoderInv
  OBVIOUS
<1>1. IsSeq(output)
  BY DEF Init, IsSeq
<1>2. Room = 0 /\ Room <= 0
  <2>1. output = <<>>
    BY DEF Init
  <2>2. Len(output) = 0
    BY <2>1
  <2>3. size = 0
    BY DEF Init
  <2> QED
    BY <2>2, <2>3 DEF Room
<1>3. TypeOK
  <2>1. blen \in [l : 0 .. BlockCount, i : 0 .. BlockCount, d : 0 .. BlockCount]
    BY BrotliAssumption DEF Init
  <2> QED
    BY <2>1 DEF Init, TypeOK, Phases
<1>4. Counted
  <2>1. phase = "head"
    BY DEF Init
  <2> QED
    BY <1>2, <2>1 DEF Counted
<1> QED
  BY <1>1, <1>3, <1>4 DEF DecoderInv, BlockInv

(* What the numbers of a state are, for the steps below. *)
LEMMA Numbers ==
  ASSUME DecoderInv
  PROVE  /\ Len(output) \in Nat /\ Room \in Int /\ Room = size - Len(output)
         /\ size \in Nat /\ left \in Nat /\ clength \in Nat
         /\ blen.l \in 0 .. BlockCount /\ BlockCount \in Nat /\ BlockCount >= MaxBlock
<1>1. output \in Seq(Range(output))
  BY DEF DecoderInv, IsSeq
<1>2. Len(output) \in Nat
  BY <1>1
<1>3. TypeOK
  BY DEF DecoderInv, BlockInv
<1> QED
  BY <1>2, <1>3, BrotliAssumption DEF TypeOK, Room

(* A step that leaves output, size and block counts alone, into a phase that asks nothing new. *)
LEMMA Quiet ==
  ASSUME DecoderInv, UNCHANGED <<output, size, blen>>,
         phase' \in Phases, last' \in BOOLEAN, valid' \in BOOLEAN, valid' => valid,
         left' \in Nat, clength' \in Nat,
         phase' \in {"head", "done"} => Room <= 0,
         phase' # "raw",
         phase' \in {"insert", "copy"} => Room >= 0,
         phase' = "types" => Room <= MaxBlock,
         phase' \in {"trees", "map", "mapped", "command", "insert", "copy"} => blen.l >= Room
  PROVE  DecoderInv'
<1>1. IsSeq(output)'
  BY DEF DecoderInv, IsSeq
<1>2. TypeOK'
  BY DEF DecoderInv, BlockInv, TypeOK, Phases
<1>3. Room' = Room
  BY DEF Room
<1>4. Counted'
  BY <1>3 DEF DecoderInv, BlockInv, Counted
<1> QED
  BY <1>1, <1>2, <1>4 DEF DecoderInv, BlockInv

LEMMA MinBelow ==
  ASSUME NEW a \in Int, NEW b \in Int
  PROVE  Min({a, b}) <= a
<1>1. \E x \in {a, b} : \A y \in {a, b} : x <= y
  OBVIOUS
<1> QED
  BY <1>1 DEF Min

-----------------------------------------------------------------------------
(* The steps *)

LEMMA HeadInv ==
  ASSUME DecoderInv, LastEmpty \/ Metadata
  PROVE  DecoderInv'
<1>1. /\ UNCHANGED <<output, size, blen, left, clength, valid>>
      /\ last' \in BOOLEAN
      /\ phase' \in {"done", "head", "violation"}
      /\ phase = "head"
  BY Zenon DEF LastEmpty, Metadata, Violate, Ended, command
<1>2. Room <= 0 /\ TypeOK
  BY <1>1 DEF DecoderInv, BlockInv, Counted
<1> QED
  BY <1>1, <1>2, Quiet DEF TypeOK, Phases

LEMMA MapInv ==
  ASSUME DecoderInv, Trees \/ MapCode \/ MapRead \/ Mapped
  PROVE  DecoderInv'
<1>0. TypeOK /\ valid \in BOOLEAN
  BY DEF DecoderInv, BlockInv, TypeOK
<1>1. /\ UNCHANGED <<output, size, blen, last, left, clength>>
      /\ phase' \in {"trees", "map", "mapped", "command", "violation"}
      /\ phase \in {"trees", "map", "mapped"}
  BY Zenon DEF Trees, MapCode, MapRead, Mapped, Violate, command
<1>2. valid' \in BOOLEAN /\ (valid' => valid)
  <2>1. CASE MapCode
    BY <1>0, <2>1 DEF MapCode
  <2>2. CASE Trees \/ MapRead \/ Mapped
    <3>1. valid' = valid
      BY <2>2, Zenon DEF Trees, MapRead, Mapped
    <3> QED
      BY <1>0, <3>1, Zenon
  <2> QED
    BY <2>1, <2>2
<1>3. blen.l >= Room
  BY <1>1 DEF DecoderInv, BlockInv, Counted
<1> QED
  BY <1>0, <1>1, <1>2, <1>3, Quiet DEF TypeOK, Phases

LEMMA CommandEndInv ==
  ASSUME DecoderInv, Inserted \/ BadDistance \/ EndBlock \/ StreamEnds
  PROVE  DecoderInv'
<1>0. TypeOK /\ Counted
  BY DEF DecoderInv, BlockInv
<1>1. CASE Inserted
  <2>1. /\ UNCHANGED <<output, size, blen, last, left, valid>>
        /\ phase' \in {"copy", "command"}
        /\ phase = "insert"
        /\ clength' \in {0, clength}
    BY <1>1, Zenon DEF Inserted
  <2>2. blen.l >= Room /\ Room >= 0
    BY <1>0, <2>1 DEF Counted
  <2>3. last' \in BOOLEAN /\ valid' \in BOOLEAN /\ (valid' => valid)
    BY <1>0, <2>1, Zenon DEF TypeOK
  <2>4. left' \in Nat /\ clength' \in Nat /\ phase' \in Phases
    BY <1>0, <2>1 DEF TypeOK, Phases
  <2> QED
    BY <2>1, <2>2, <2>3, <2>4, Quiet
<1>2. CASE BadDistance \/ StreamEnds
  <2>1. UNCHANGED <<output, size, blen, last, left, clength, valid>> /\ phase' = "violation"
    BY <1>2, Zenon DEF BadDistance, StreamEnds, Violate, command
  <2> QED
    BY <1>0, <2>1, Quiet DEF TypeOK, Phases
<1>3. CASE EndBlock
  <2>1. /\ UNCHANGED <<output, size, blen, last, left, clength, valid>>
        /\ phase' \in {"done", "head"}
    BY <1>3, Zenon DEF EndBlock, Ended, command
  <2>2. Room <= 0
    BY <1>3 DEF EndBlock
  <2> QED
    BY <1>0, <2>1, <2>2, Quiet DEF TypeOK, Phases
<1> QED
  BY <1>1, <1>2, <1>3

LEMMA BeginInv ==
  ASSUME DecoderInv, Begin
  PROVE  DecoderInv'
<1>0. TypeOK /\ Counted /\ Room <= 0 /\ IsSeq(output)
  BY DEF DecoderInv, BlockInv, Counted, Begin
<1>1. PICK MLEN \in 1 .. Min({MaxBlock, MaxOutput - size}) :
        /\ last' \in BOOLEAN
        /\ size' = size + MLEN
        /\ output' \in Resized
        /\ \/ phase' = "raw" /\ left' = MLEN
           \/ phase' \in {"types", "violation"} /\ left' = left
        /\ UNCHANGED <<blen, clength, valid>>
  BY DEF Begin, Violate
<1>2. MLEN \in Nat /\ MLEN <= MaxBlock
  <2>1. MaxBlock \in Int /\ MaxOutput - size \in Int
    BY <1>0, BrotliAssumption DEF TypeOK
  <2>2. Min({MaxBlock, MaxOutput - size}) <= MaxBlock
    BY <2>1, MinBelow
  <2>3. Min({MaxBlock, MaxOutput - size}) \in Int
    <3>1. \E x \in {MaxBlock, MaxOutput - size} :
            \A y \in {MaxBlock, MaxOutput - size} : x <= y
      BY <2>1
    <3> QED
      BY <2>1, <3>1 DEF Min
  <2> QED
    BY <2>1, <2>2, <2>3
<1>3. IsSeq(output)' /\ Len(output') = Len(output)
  BY <1>0, <1>1, ResizedSeq DEF IsSeq, TypeOK
<1>4. Room' = Room + MLEN /\ (valid => Room = 0)
  BY <1>0, <1>1, <1>2, <1>3, Numbers DEF Room, Counted
<1>5. TypeOK'
  BY <1>0, <1>1, <1>2 DEF TypeOK, Phases
<1>6. Counted'
  <2>1. Room \in Int /\ Room <= 0 /\ Room' = Room + MLEN
    BY <1>0, <1>4, Numbers
  <2>2. Room' <= MLEN /\ (valid' => Room' = MLEN /\ Room' >= 0)
    <3>1. valid' = valid
      BY <1>1
    <3>2. CASE valid
      BY <1>2, <1>4, <2>1, <3>2
    <3>3. CASE ~valid
      <4>1. ~valid'
        BY <3>1, <3>3, Zenon
      <4> QED
        BY <1>2, <2>1, <4>1
    <3> QED
      BY <3>2, <3>3
  <2>3. Room' \in Int
    BY <1>2, <2>1
  <2>4. phase' \in {"raw", "types", "violation"} /\ (phase' = "raw" => left' = MLEN)
    BY <1>1
  <2> QED
    BY <1>2, <2>2, <2>3, <2>4, BrotliAssumption DEF Counted
<1> QED
  BY <1>3, <1>5, <1>6 DEF DecoderInv, BlockInv

LEMMA RawInv ==
  ASSUME DecoderInv, Raw
  PROVE  DecoderInv'
<1>0. TypeOK /\ Counted /\ left >= Room /\ (valid => left = Room) /\ IsSeq(output)
  BY DEF DecoderInv, BlockInv, Counted, Raw
<1>1. CASE left = 0
  <2>1. /\ UNCHANGED <<output, size, blen, last, left, clength, valid>>
        /\ phase' \in {"done", "head"}
    BY <1>1, Zenon DEF Raw, Ended
  <2> QED
    BY <1>0, <1>1, <2>1, Quiet DEF TypeOK, Phases
<1>2. CASE left # 0
  <2>1. PICK byte : output' = Append(output, byte)
    BY <1>2 DEF Raw
  <2>2. /\ left' = left - 1 /\ phase = "raw"
        /\ UNCHANGED <<phase, size, blen, last, clength, valid>>
    BY <1>2 DEF Raw
  <2>3. IsSeq(output)' /\ Len(output') = Len(output) + 1
    BY <1>0, <2>1, AppendSeq DEF IsSeq
  <2>4. Room' = Room - 1
    BY <2>2, <2>3, Numbers DEF Room
  <2>5. TypeOK'
    BY <1>0, <1>2, <2>2, Numbers DEF TypeOK
  <2>6. Counted'
    BY <1>0, <1>2, <2>2, <2>4, Numbers DEF Counted
  <2> QED
    BY <2>3, <2>5, <2>6 DEF DecoderInv, BlockInv
<1> QED
  BY <1>1, <1>2

LEMMA TypesInv ==
  ASSUME DecoderInv, Types
  PROVE  DecoderInv'
<1>0. TypeOK /\ Counted /\ Room <= MaxBlock /\ IsSeq(output)
  BY Numbers DEF DecoderInv, BlockInv, Counted, Types
<1>1. /\ blen' = [l |-> BlockCount, i |-> BlockCount, d |-> BlockCount]
      /\ phase' \in {"violation", "trees"}
      /\ UNCHANGED <<output, size, last, left, clength, valid>>
  BY DEF Types, Violate, command
<1>2. blen' \in [l : 0 .. BlockCount, i : 0 .. BlockCount, d : 0 .. BlockCount]
  BY <1>1, BrotliAssumption
<1>3. TypeOK'
  BY <1>0, <1>1, <1>2 DEF TypeOK, Phases
<1>4. Room' = Room
  BY <1>1 DEF Room
<1>5. blen'.l = BlockCount
  BY <1>1
<1>6. Counted'
  BY <1>0, <1>1, <1>4, <1>5, Numbers, BrotliAssumption DEF Counted
<1> QED
  BY <1>0, <1>1, <1>3, <1>6 DEF DecoderInv, BlockInv, IsSeq

LEMMA CommandInv ==
  ASSUME DecoderInv, Command
  PROVE  DecoderInv'
<1>0. TypeOK /\ Counted /\ IsSeq(output) /\ blen.l >= Room /\ Room > 0
  BY DEF DecoderInv, BlockInv, Counted, Command
<1>1. CASE blen.i = 0
  <2>1. UNCHANGED <<output, size, blen, last, left, clength, valid>> /\ phase' = "violation"
    BY <1>1, Zenon DEF Command, Violate, command
  <2> QED
    BY <1>0, <2>1, Quiet DEF TypeOK, Phases
<1>2. CASE blen.i # 0
  <2>1. PICK c \in Commands \cup StrayCommands :
          left' = c.insert /\ clength' = c.copy /\ (valid' = valid \/ valid' = FALSE)
    BY <1>2 DEF Command, Take
  <2>2. /\ blen' = [blen EXCEPT !.i = @ - 1]
        /\ phase' = "insert"
        /\ UNCHANGED <<output, size, last>>
    BY <1>2 DEF Command
  <2>3. left' \in Nat /\ clength' \in Nat
    <3>1. CASE c \in Commands
      BY <2>1, <3>1, CommandType
    <3>2. CASE c \in StrayCommands
      BY <2>1, <3>2, BrotliAssumption DEF StrayCommands
    <3> QED
      BY <3>1, <3>2
  <2>4. valid' \in BOOLEAN /\ (valid' => valid)
    <3>1. CASE valid' = valid
      BY <1>0, <3>1, Zenon DEF TypeOK
    <3>2. CASE valid' = FALSE
      BY <3>2
    <3> QED
      BY <2>1, <3>1, <3>2
  <2>5. blen' \in [l : 0 .. BlockCount, i : 0 .. BlockCount, d : 0 .. BlockCount]
    BY <1>0, <1>2, <2>2, BrotliAssumption DEF TypeOK
  <2>6. TypeOK'
    BY <1>0, <2>2, <2>3, <2>4, <2>5 DEF TypeOK, Phases
  <2>7. Room' = Room /\ blen'.l = blen.l
    BY <1>0, <2>2 DEF Room, TypeOK
  <2>8. Counted'
    BY <1>0, <2>2, <2>4, <2>7, Numbers DEF Counted
  <2> QED
    BY <1>0, <2>2, <2>6, <2>8 DEF DecoderInv, BlockInv, IsSeq
<1> QED
  BY <1>1, <1>2

LEMMA InsertInv ==
  ASSUME DecoderInv, Insert
  PROVE  DecoderInv'
<1>0. TypeOK /\ Counted /\ IsSeq(output) /\ blen.l >= Room
  BY DEF DecoderInv, BlockInv, Counted, Insert
<1>1. CASE blen.l = 0 \/ Room <= 0
  <2>1. UNCHANGED <<output, size, blen, last, left, clength, valid>> /\ phase' = "violation"
    BY <1>1, Zenon DEF Insert, Violate
  <2> QED
    BY <1>0, <2>1, Quiet DEF TypeOK, Phases
<1>2. CASE ~(blen.l = 0 \/ Room <= 0)
  <2>1. PICK byte : output' = Append(output, byte)
    BY <1>2 DEF Insert
  <2>2. /\ blen' = [blen EXCEPT !.l = @ - 1] /\ left' = left - 1 /\ left > 0
        /\ phase = "insert"
        /\ UNCHANGED <<phase, size, last, clength, valid>>
    BY <1>2 DEF Insert
  <2>3. IsSeq(output)' /\ Len(output') = Len(output) + 1
    BY <1>0, <2>1, AppendSeq DEF IsSeq
  <2>4. Room' = Room - 1 /\ Room > 0
    BY <1>2, <2>2, <2>3, Numbers DEF Room
  <2>5. blen' \in [l : 0 .. BlockCount, i : 0 .. BlockCount, d : 0 .. BlockCount]
    BY <1>0, <1>2, <2>2, BrotliAssumption DEF TypeOK
  <2>6. TypeOK'
    BY <1>0, <2>2, <2>5, Numbers DEF TypeOK
  <2>7. blen'.l = blen.l - 1
    BY <1>0, <2>2 DEF TypeOK
  <2>8. Counted'
    BY <1>0, <2>2, <2>4, <2>7, Numbers, SMTT(30) DEF Counted
  <2> QED
    BY <2>3, <2>6, <2>8 DEF DecoderInv, BlockInv
<1> QED
  BY <1>1, <1>2

LEMMA CopyInv ==
  ASSUME DecoderInv, Copy
  PROVE  DecoderInv'
<1>0. TypeOK /\ Counted /\ IsSeq(output) /\ blen.l >= Room
  BY DEF DecoderInv, BlockInv, Counted, Copy
<1>1. /\ UNCHANGED <<size, last, left>>
      /\ clength' = 0
  BY DEF Copy
<1>2. /\ blen'.l = blen.l
      /\ blen' \in [l : 0 .. BlockCount, i : 0 .. BlockCount, d : 0 .. BlockCount]
  <2>1. blen' = blen \/ (blen.d > 0 /\ blen' = [blen EXCEPT !.d = @ - 1])
    BY DEF Copy
  <2> QED
    BY <1>0, <2>1, BrotliAssumption DEF TypeOK
<1>3. PICK x : /\ CopyFrom(x[1], x[2]) \/ FromDictionary(x[2])
               /\ valid' = (valid /\ x \notin Stray /\ Len(output') <= size)
  BY DEF Copy
<1>4. /\ phase' \in {"command", "violation"}
      /\ IsSeq(output')
      /\ Len(output') - Len(output) \in Nat /\ Len(output') \in Nat
  <2>1. CASE CopyFrom(x[1], x[2])
    <3>1. phase' = "command" /\ clength \in Nat
      BY <1>0, <2>1 DEF CopyFrom, TypeOK
    <3>2. IsSeq(output') /\ Len(output') = Len(output) + clength
      <4>1. CASE x[2] = 0
        <5>1. PICK rest \in [1 .. clength -> Byte] : output' = output \o rest
          BY <2>1, <4>1 DEF CopyFrom
        <5>2. rest \in Seq(Byte) /\ Len(rest) = clength
          BY <3>1
        <5>3. IsSeq(rest)
          BY <5>2, SeqIsSeq
        <5> QED
          BY <1>0, <5>1, <5>2, <5>3, ConcatSeq
      <4>2. CASE x[2] # 0
        <5>1. output' = Copied(x[2], clength)
          BY <2>1, <4>2 DEF CopyFrom
        <5> QED
          BY <1>0, <3>1, <5>1, CopiedSeq
      <4> QED
        BY <4>1, <4>2
    <3> QED
      BY <3>1, <3>2, Numbers
  <2>2. CASE FromDictionary(x[2])
    <3> DEFINE id == WordID(x[2], Reach)
    <3>1. CASE Exists(id, clength)
      <4>1. output' = output \o Appended(id, clength) /\ phase' = "command"
        BY <2>2, <3>1 DEF FromDictionary
      <4>2. IsSeq(Appended(id, clength))
        BY <3>1, AppendedSeq
      <4> HIDE DEF id
      <4>3. /\ IsSeq(output')
            /\ Len(output') = Len(output) + Len(Appended(id, clength))
            /\ Len(Appended(id, clength)) \in Nat
        BY <1>0, <4>1, <4>2, ConcatSeq
      <4> QED
        BY <4>1, <4>3, Numbers
    <3>2. CASE ~Exists(id, clength)
      <4>1. output' = output /\ phase' = "violation"
        BY <2>2, <3>2 DEF FromDictionary, Violate
      <4> QED
        BY <1>0, <4>1, Numbers
    <3> QED
      BY <3>1, <3>2
  <2> QED
    BY <1>3, <2>1, <2>2
<1>5. Room' \in Int /\ Room' <= Room /\ (valid' => Room' >= 0) /\ valid' \in BOOLEAN
  <2>1. Room' = size - Len(output')
    BY <1>1 DEF Room
  <2>2. valid' => Len(output') <= size
    BY <1>3
  <2> QED
    BY <1>3, <1>4, <2>1, <2>2, Numbers
<1>6. TypeOK'
  BY <1>0, <1>1, <1>2, <1>4, <1>5 DEF TypeOK, Phases
<1>7. Counted'
  BY <1>0, <1>2, <1>4, <1>5, Numbers DEF Counted
<1>8. IsSeq(output)'
  BY <1>4 DEF IsSeq
<1> QED
  BY <1>6, <1>7, <1>8 DEF DecoderInv, BlockInv

-----------------------------------------------------------------------------
(* A meta-block is left only when its announced length is reached, a valid stream *)
(* never passes it, and the block count of literals is not spent before: for      *)
(* every window, dictionary and size, whatever is read.                           *)
THEOREM DecoderInvariance == Spec => []DecoderInv
<1>1. ASSUME DecoderInv, [Next]_vars PROVE DecoderInv'
  <2>1. CASE UNCHANGED vars
    <3>1. UNCHANGED <<output, size, blen, last, left, clength, phase, valid>>
      BY <2>1 DEF vars, command
    <3> QED
      BY <1>1, <3>1 DEF DecoderInv, BlockInv, TypeOK, Counted, Room, IsSeq
  <2> QED
    BY <1>1, <2>1, HeadInv, MapInv, CommandEndInv, BeginInv, RawInv, TypesInv, CommandInv,
       InsertInv, CopyInv DEF Next
<1> QED
  BY <1>1, DecoderInit, PTL DEF Spec

(* The conjunct that the runs check. *)
THEOREM BlockCorrect == Spec => []BlockInv
<1>1. DecoderInv => BlockInv
  BY DEF DecoderInv
<1> QED
  BY <1>1, DecoderInvariance, PTL

-----------------------------------------------------------------------------
(* The bytes of a copy *)

\* Byte k of a copy that repeats the last d of L bytes.
RepeatedByte(bytes, d, k) ==
  IF k <= Len(bytes) THEN bytes[k] ELSE bytes[Len(bytes) - d + 1 + ((k - 1 - Len(bytes)) % d)]

\* What a step back by d does to the place in the last d bytes.
LEMMA StepBack ==
  ASSUME NEW d \in Nat \ {0}, NEW j \in Nat
  PROVE  /\ j < d => j % d = j
         /\ j >= d => j - d \in Nat /\ (j - d) % d = j % d
         /\ j % d \in 0 .. d - 1
<1>1. j % d \in 0 .. d - 1 /\ j \div d \in Nat /\ j = d * (j \div d) + (j % d)
  BY DivMod
<1>2. ASSUME j < d PROVE j % d = j
  <2>1. j = d * 0 + j /\ j \in 0 .. d - 1
    BY <1>2
  <2> QED
    BY <2>1, Quotient
<1>3. ASSUME j >= d PROVE j - d \in Nat /\ (j - d) % d = j % d
  <2> DEFINE q == j \div d
             r == j % d
  <2>1. j - d \in Nat
    BY <1>3
  <2>2. q # 0
    <3> SUFFICES ASSUME q = 0 PROVE FALSE
      OBVIOUS
    <3>1. j = r /\ r < d
      BY <1>1
    <3> QED
      BY <3>1, <1>3
  <2>3. q \in Nat /\ q - 1 \in Nat /\ r \in 0 .. d - 1 /\ j = d * q + r
    BY <1>1, <2>2
  <2> HIDE DEF q, r
  <2>4. d * (q - 1) = d * q - d /\ d * q \in Nat /\ d * (q - 1) \in Int
    BY <2>3, SMTT(30)
  <2> DEFINE m == d * q
             l == d * (q - 1)
  <2>5. j - d = l + r
    <3>1. m \in Nat /\ l = m - d /\ j = m + r /\ r \in Nat
      BY <2>3, <2>4
    <3> HIDE DEF m, l
    <3> QED
      BY <3>1
  <2>6. (j - d) % d = r
    BY <2>1, <2>3, <2>5, Quotient
  <2> QED
    BY <2>1, <2>6 DEF r
<1> QED
  BY <1>1, <1>2, <1>3

\* The recursion of Copied has this solution.
LEMMA RepeatedStep ==
  ASSUME NEW bytes, IsSeq(bytes), NEW d \in Nat \ {0}, d <= Len(bytes), NEW n \in Nat,
         NEW k \in 1 .. Len(bytes) + n, k > Len(bytes)
  PROVE  k - d \in 1 .. Len(bytes) + n /\ RepeatedByte(bytes, d, k) = RepeatedByte(bytes, d, k - d)
<1> DEFINE L == Len(bytes)
           j == k - 1 - L
<1>1. L \in Nat
  BY DEF IsSeq
<1> HIDE DEF L
<1>2. j \in Nat /\ k - d \in 1 .. L + n
  BY <1>1 DEF L
<1>3. RepeatedByte(bytes, d, k) = bytes[L - d + 1 + (j % d)]
  BY <1>1 DEF RepeatedByte, L
<1>4. CASE j < d
  <2>1. k - d <= L /\ j % d = j
    <3>1. j % d = j
      BY <1>2, <1>4, StepBack
    <3> QED
      BY <1>1, <1>4, <3>1
  <2>2. RepeatedByte(bytes, d, k - d) = bytes[k - d]
    BY <2>1 DEF RepeatedByte, L
  <2>3. L - d + 1 + (j % d) = k - d
    BY <1>1, <2>1
  <2> QED
    BY <1>2, <1>3, <2>2, <2>3 DEF L
<1>5. CASE j >= d
  <2>1. j - d \in Nat /\ (j - d) % d = j % d
    BY <1>2, <1>5, StepBack
  <2>2. ~(k - d <= L) /\ (k - d) - 1 - L = j - d
    BY <1>1, <1>5
  <2>3. RepeatedByte(bytes, d, k - d) = bytes[L - d + 1 + ((j - d) % d)]
    BY <2>2 DEF RepeatedByte, L
  <2> QED
    BY <1>2, <1>3, <2>1, <2>3 DEF L
<1> QED
  BY <1>1, <1>2, <1>4, <1>5

\* memcpy of overlapping bytes repeats them (Brotli.cpp:727).
LEMMA CopiedBytes ==
  ASSUME IsSeq(output), NEW d \in Nat \ {0}, d <= Len(output), NEW n \in Nat
  PROVE  Copied(d, n) = [k \in 1 .. Len(output) + n |-> RepeatedByte(output, d, k)]
<1> DEFINE L == Len(output)
           D == 1 .. L + n
           byte[k \in D] == IF k <= L THEN output[k] ELSE byte[k - d]
           g == [k \in D |-> RepeatedByte(output, d, k)]
           Is(f) == f = [k \in D |-> IF k <= L THEN output[k] ELSE f[k - d]]
<1>1. L \in Nat /\ L + n \in Nat
  BY DEF IsSeq
<1>2. Copied(d, n) = [k \in D |-> byte[k]]
  BY DEF Copied
<1>3. Is(g)
  <2>1. ASSUME NEW k \in D
        PROVE  g[k] = IF k <= L THEN output[k] ELSE g[k - d]
    <3>1. CASE k <= L
      BY <3>1 DEF RepeatedByte
    <3>2. CASE ~(k <= L)
      <4>1. k > L
        BY <1>1, <3>2
      <4>2. k - d \in D /\ RepeatedByte(output, d, k) = RepeatedByte(output, d, k - d)
        BY <4>1, RepeatedStep
      <4> QED
        BY <3>2, <4>2
    <3> QED
      BY <3>1, <3>2
  <2> QED
    BY <2>1, Zenon
<1>4. byte = CHOOSE f : Is(f)
  OBVIOUS
<1> HIDE DEF byte
<1>5. Is(byte)
  BY <1>3, <1>4, Zenon
<1>6. \A k \in D : byte[k] = g[k]
  <2> DEFINE T == {m \in Nat : \A k \in D : k <= m => byte[k] = g[k]}
  <2>1. 0 \in T
    BY <1>1
  <2>2. ASSUME NEW m \in Nat, m \in T PROVE m + 1 \in T
    <3>1. ASSUME NEW k \in D, k <= m + 1 PROVE byte[k] = g[k]
      <4>1. byte[k] = (IF k <= L THEN output[k] ELSE byte[k - d])
        BY <1>5, Zenon
      <4>2. g[k] = (IF k <= L THEN output[k] ELSE g[k - d])
        BY <1>3, Zenon
      <4>3. CASE k <= L
        BY <4>1, <4>2, <4>3, Zenon
      <4>4. CASE ~(k <= L)
        <5>1. k - d \in D
          BY <1>1, <4>4, RepeatedStep
        <5>2. k - d <= m
          BY <1>1, <3>1
        <5>3. byte[k - d] = g[k - d]
          BY <2>2, <5>1, <5>2
        <5> QED
          BY <4>1, <4>2, <4>4, <5>3, Zenon
      <4> QED
        BY <4>3, <4>4
    <3> QED
      BY <3>1
  <2> HIDE DEF T
  <2>3. Nat \subseteq T
    BY <2>1, <2>2, NumberInduction
  <2>4. L + n \in T
    BY <1>1, <2>3
  <2>5. \A k \in D : k <= L + n => byte[k] = g[k]
    BY <2>4 DEF T
  <2> QED
    BY <1>1, <2>5
<1>7. \A k \in D : byte[k] = RepeatedByte(output, d, k)
  BY <1>6
<1> QED
  BY <1>2, <1>7, Zenon

-----------------------------------------------------------------------------
(* The refinement of SlidingWindow *)

LEMMA ConcatIs ==
  ASSUME NEW s, NEW t, IsSeq(s), IsSeq(t), NEW u,
         u = [k \in 1 .. Len(s) + Len(t) |-> u[k]],
         \A k \in 1 .. Len(s) + Len(t) : u[k] = IF k <= Len(s) THEN s[k] ELSE t[k - Len(s)]
  PROVE  u = s \o t
<1> DEFINE S == Range(s) \cup Range(t)
<1>1. s \in Seq(S) /\ t \in Seq(S)
  BY DEF IsSeq
<1> HIDE DEF S
<1>2. /\ s \o t \in Seq(S)
      /\ Len(s \o t) = Len(s) + Len(t)
      /\ \A i \in 1 .. Len(s) + Len(t) :
           (s \o t)[i] = IF i <= Len(s) THEN s[i] ELSE t[i - Len(s)]
  BY <1>1, ConcatProperties
<1> DEFINE v == s \o t
           n == Len(s) + Len(t)
<1>3. v \in Seq(S) /\ Len(v) = n
  BY <1>2
<1>4. \A k \in 1 .. n : u[k] = v[k]
  BY <1>2
<1>5. u = [k \in 1 .. n |-> u[k]]
  OBVIOUS
<1> HIDE DEF v, n
<1>6. v = [k \in 1 .. n |-> v[k]]
  BY <1>3
<1>7. u = v
  BY <1>4, <1>5, <1>6
<1> QED
  BY <1>7 DEF v

LEMMA CopiedIsRepeated ==
  ASSUME IsSeq(output), NEW d \in Nat \ {0}, d <= Len(output), NEW n \in Nat
  PROVE  /\ IsSeq(Stream!Repeated(d, n)) /\ Len(Stream!Repeated(d, n)) = n
         /\ Copied(d, n) = output \o Stream!Repeated(d, n)
<1> DEFINE t == Stream!Repeated(d, n)
           L == Len(output)
           u == Copied(d, n)
<1>1. t = [k \in 1 .. n |-> output[L - d + 1 + ((k - 1) % d)]]
  BY DEF Stream!Repeated
<1>2. t = [k \in 1 .. n |-> t[k]]
  BY <1>1
<1>3. L \in Nat
  BY DEF IsSeq
<1>4. u = [k \in 1 .. L + n |-> RepeatedByte(output, d, k)]
  BY CopiedBytes
<1> HIDE DEF t, u
<1>5. IsSeq(t) /\ Len(t) = n
  BY <1>2, FunctionSeq
<1>6. ASSUME NEW k \in 1 .. L + n
      PROVE  u[k] = IF k <= L THEN output[k] ELSE t[k - L]
  <2>1. u[k] = RepeatedByte(output, d, k)
    BY <1>4
  <2>2. CASE k <= L
    BY <2>1, <2>2 DEF RepeatedByte
  <2>3. CASE ~(k <= L)
    <3>1. k - L \in 1 .. n /\ (k - L) - 1 = k - 1 - L
      BY <1>3, <2>3
    <3>2. t[k - L] = output[L - d + 1 + (((k - L) - 1) % d)]
      BY <1>1, <3>1, Zenon
    <3> QED
      BY <2>1, <2>3, <3>1, <3>2 DEF RepeatedByte
  <2> QED
    BY <2>2, <2>3
<1>7. u = [k \in 1 .. L + n |-> u[k]]
  BY <1>4
<1>8. u = output \o t
  <2>1. IsSeq(output) /\ IsSeq(t) /\ L + n = Len(output) + Len(t)
    BY <1>5
  <2>2. u = [k \in 1 .. Len(output) + Len(t) |-> u[k]]
    BY <1>7, <2>1
  <2>3. \A k \in 1 .. Len(output) + Len(t) :
          u[k] = IF k <= Len(output) THEN output[k] ELSE t[k - Len(output)]
    BY <1>6, <2>1
  <2> HIDE DEF L
  <2> QED
    BY <2>1, <2>2, <2>3, ConcatIs, ZenonT(30)
<1> QED
  BY <1>5, <1>8, Zenon DEF t, u

\* The numbers of references to the dictionary.
LEMMA WordIs ==
  ASSUME NEW id \in Nat, NEW n, Exists(id, n)
  PROVE  Appended(id, n) \in DictionaryWords
<1> DEFINE m == 2 ^ NDBITS[n]
           L == Len(transformation)
           q == id \div m
<1>1. n \in Lengths /\ n \in 4 .. 24 /\ q \in 0 .. L - 1
  BY DEF Exists, Lengths, TransformID
<1>2. m \in Nat \ {0} /\ NWORDS(n) = m /\ L \in Nat
  <2>1. m \in Nat \ {0}
    BY <1>1, DictionaryAssumption
  <2>2. ~(n < 4)
    BY <1>1
  <2>3. L \in Nat
    BY DictionaryAssumption
  <2> QED
    BY <2>1, <2>2, <2>3 DEF NWORDS
<1> HIDE DEF m, L
<1>3. id = m * q + (id % m) /\ id % m \in 0 .. m - 1
  BY <1>2, DivMod
<1> HIDE DEF q
<1>4. id <= L * m - 1
  <2>1. m * (q + 1) = m * q + m /\ m * q \in Nat
    BY <1>1, <1>2, SMTT(30)
  <2>2. m * (q + 1) <= m * L
    <3>1. q \in Nat /\ q + 1 <= L
      BY <1>1, <1>2
    <3> QED
      BY <1>2, <3>1, SMTT(30)
  <2>3. m * L = L * m /\ m * L \in Nat
    BY <1>2, SMTT(30)
  <2> DEFINE a == m * q
             b == m * (q + 1)
             c == L * m
             r == id % m
  <2>4. id = a + r /\ r <= m - 1 /\ b = a + m /\ b <= c /\ a \in Nat /\ c \in Nat /\ r \in Nat
    BY <1>2, <1>3, <2>1, <2>2, <2>3
  <2> HIDE DEF a, b, c, r
  <2>5. id <= c - 1
    BY <1>2, <2>4
  <2> QED
    BY <2>5 DEF c
<1>5. id \in 0 .. L * NWORDS(n) - 1
  <2>1. L * m \in Nat
    BY <1>2, SMTT(30)
  <2> QED
    BY <1>2, <1>4, <2>1
<1> QED
  BY <1>1, <1>5 DEF DictionaryWords, L

-----------------------------------------------------------------------------
(* The last four distances *)

First == <<16, 15, 11, 4>>
LastFour(past) == [k \in 1 .. 4 |-> past[Len(past) + 1 - k]]
Distances == Nat \ {0}

\* Where copies may come from: distances are positive, in the ring as in the stream.
Distanced == /\ window \in Distances
             /\ used \in Seq(Distances)
             /\ RingIsHistory

LEMMA RingIs == RingIsHistory <=> distance = LastFour(First \o used)
  BY DEF RingIsHistory, LastFour, First

\* A distance enters a ring of four as it enters the history.
LEMMA RingAdds ==
  ASSUME NEW past \in Seq(Distances), Len(past) >= 4, NEW d \in Distances
  PROVE  LET ring == LastFour(past)
         IN  LastFour(Append(past, d)) = <<d, ring[1], ring[2], ring[3]>>
<1> DEFINE L == Len(past)
           next == Append(past, d)
           ring == LastFour(past)
           moved == <<d, ring[1], ring[2], ring[3]>>
<1>1. L \in Nat /\ L >= 4
  OBVIOUS
<1>2. Len(next) = L + 1 /\ next[L + 1] = d /\ \A i \in 1 .. L : next[i] = past[i]
  BY AppendProperties
<1>3. ring[1] = past[L] /\ ring[2] = past[L - 1] /\ ring[3] = past[L - 2]
  BY <1>1 DEF LastFour
<1> HIDE DEF L, next, ring
<1>4. LastFour(next) = [k \in 1 .. 4 |-> next[(L + 1) + 1 - k]]
  BY <1>2 DEF LastFour
<1>5. /\ next[(L + 1) + 1 - 1] = d /\ next[(L + 1) + 1 - 2] = past[L]
      /\ next[(L + 1) + 1 - 3] = past[L - 1] /\ next[(L + 1) + 1 - 4] = past[L - 2]
  <2>1. /\ L \in 1 .. L /\ L - 1 \in 1 .. L /\ L - 2 \in 1 .. L
        /\ (L + 1) + 1 - 1 = L + 1 /\ (L + 1) + 1 - 2 = L
        /\ (L + 1) + 1 - 3 = L - 1 /\ (L + 1) + 1 - 4 = L - 2
    BY <1>1
  <2> QED
    BY <1>2, <2>1
<1>6. \A k \in 1 .. 4 : next[(L + 1) + 1 - k] = moved[k]
  <2>1. \A k \in 1 .. 4 : k = 1 \/ k = 2 \/ k = 3 \/ k = 4
    OBVIOUS
  <2>2. moved[1] = d /\ moved[2] = ring[1] /\ moved[3] = ring[2] /\ moved[4] = ring[3]
    OBVIOUS
  <2> QED
    BY <1>3, <1>5, <2>1, <2>2
<1>7. moved = [k \in 1 .. 4 |-> moved[k]]
  OBVIOUS
<1>8. LastFour(next) = moved
  BY <1>4, <1>6, <1>7
<1> QED
  BY <1>8 DEF next, ring

LEMMA PastIs ==
  ASSUME used \in Seq(Distances)
  PROVE  /\ First \o used \in Seq(Distances) /\ Len(First \o used) >= 4
         /\ \A d \in Distances : First \o Append(used, d) = Append(First \o used, d)
<1>1. First \in Seq(Distances) /\ Len(First) = 4
  BY DEF First, Distances
<1>2. First \o used \in Seq(Distances) /\ Len(First \o used) = Len(First) + Len(used)
  BY <1>1, ConcatProperties
<1>3. Len(used) \in Nat
  OBVIOUS
<1>4. ASSUME NEW d \in Distances
      PROVE  First \o Append(used, d) = Append(First \o used, d)
  <2>1. Append(used, d) = used \o <<d>>
    BY AppendIsConcat
  <2>2. Append(First \o used, d) = (First \o used) \o <<d>>
    BY <1>2, AppendIsConcat
  <2>3. <<d>> \in Seq(Distances)
    OBVIOUS
  <2> QED
    BY <1>1, <2>1, <2>2, <2>3, ConcatAssociative
<1> QED
  BY <1>1, <1>2, <1>3, <1>4

\* The ring is four positive numbers.
LEMMA RingType ==
  ASSUME Distanced
  PROVE  \A k \in 1 .. 4 : distance[k] \in Distances
<1> DEFINE past == First \o used
<1>1. distance = LastFour(past) /\ past \in Seq(Distances) /\ Len(past) >= 4
  BY RingIs, PastIs DEF Distanced
<1> HIDE DEF past
<1>2. ASSUME NEW k \in 1 .. 4 PROVE past[Len(past) + 1 - k] \in Distances
  <2>1. Len(past) + 1 - k \in 1 .. Len(past)
    BY <1>1
  <2> QED
    BY <1>1, <2>1
<1> QED
  BY <1>1, <1>2 DEF LastFour

LEMMA DistancedInit == Init => Distanced
<1> SUFFICES ASSUME Init PROVE Distanced
  OBVIOUS
<1>1. window \in Distances
  BY BrotliAssumption DEF Init, Distances
<1>2. used = <<>> /\ distance = <<4, 11, 15, 16>>
  BY DEF Init
<1>3. First \o used = First
  BY <1>2 DEF First
<1>4. LastFour(First) = <<4, 11, 15, 16>>
  <2>1. Len(First) = 4 /\ First[1] = 16 /\ First[2] = 15 /\ First[3] = 11 /\ First[4] = 4
    BY DEF First
  <2>2. LastFour(First) = [k \in 1 .. 4 |-> First[4 + 1 - k]]
    BY <2>1 DEF LastFour
  <2> DEFINE ring == <<4, 11, 15, 16>>
  <2>3. \A k \in 1 .. 4 : k = 1 \/ k = 2 \/ k = 3 \/ k = 4
    OBVIOUS
  <2>4. 4 + 1 - 1 = 4 /\ 4 + 1 - 2 = 3 /\ 4 + 1 - 3 = 2 /\ 4 + 1 - 4 = 1
    OBVIOUS
  <2>5. \A k \in 1 .. 4 : First[4 + 1 - k] = ring[k]
    BY <2>1, <2>3, <2>4
  <2>6. ring = [k \in 1 .. 4 |-> ring[k]]
    OBVIOUS
  <2> QED
    BY <2>2, <2>5, <2>6
<1> QED
  BY <1>1, <1>2, <1>3, <1>4, RingIs DEF Distanced

LEMMA ReachingIs ==
  ASSUME NEW npostfix, NEW ndirect, NEW limit, NEW y \in Reaching(npostfix, ndirect, limit)
  PROVE  DistanceOf(npostfix, ndirect, y[1], y[2]) \in 1 .. limit
<1> DEFINE Extras(c) == {x \in 0 .. Min({2 ^ ExtraBits(npostfix, ndirect, c) - 1, limit}) :
                           DistanceOf(npostfix, ndirect, c, x) \in 1 .. limit}
<1>1. PICK c : y \in {<<c, dextra>> : dextra \in Extras(c)}
  BY Zenon DEF Reaching
<1>2. PICK e \in Extras(c) : y = <<c, e>>
  BY <1>1
<1>3. DistanceOf(npostfix, ndirect, c, e) \in 1 .. limit
  BY <1>2, Zenon
<1> QED
  BY <1>2, <1>3

\* What is copied lies at least one byte back.
LEMMA ReadDistance ==
  ASSUME Distanced,
         NEW x \in IF implicit THEN Implicit ELSE Explicit, ~OutOfRange(x[1], x[2])
  PROVE  x[2] \in Distances
<1>1. CASE implicit
  <2>1. x = <<0, distance[1]>>
    BY <1>1 DEF Implicit
  <2> QED
    BY <2>1, RingType
<1>2. CASE ~implicit
  <2>1. CASE \E dcode \in 0 .. 15 : x = <<dcode, Short(dcode)>>
    <3>1. PICK dcode \in 0 .. 15 : x = <<dcode, Short(dcode)>>
      BY <2>1
    <3>2. Short(dcode) \in Int
      <4>1. DISTANCE_INDEX[dcode + 1] + 1 \in 1 .. 4 /\ DISTANCE_OFFSET[dcode + 1] \in Int
        BY DEF DISTANCE_INDEX, DISTANCE_OFFSET
      <4>2. distance[DISTANCE_INDEX[dcode + 1] + 1] \in Distances
        BY <4>1, RingType
      <4> QED
        BY <4>1, <4>2 DEF Short, Distances
    <3>3. ~(Short(dcode) <= 0)
      BY <1>2, <3>1 DEF OutOfRange
    <3> QED
      BY <3>1, <3>2, <3>3 DEF Distances
  <2>2. CASE \E y \in Reaching(format[1], format[2], MaxDistance) :
               x = <<y[1], DistanceOf(format[1], format[2], y[1], y[2])>>
    <3>1. PICK y \in Reaching(format[1], format[2], MaxDistance) :
            x = <<y[1], DistanceOf(format[1], format[2], y[1], y[2])>>
      BY <2>2
    <3>2. DistanceOf(format[1], format[2], y[1], y[2]) \in 1 .. MaxDistance
      BY <3>1, ReachingIs
    <3> QED
      BY <3>1, <3>2, BrotliAssumption DEF Distances
  <2> QED
    BY <1>2, <2>1, <2>2 DEF Explicit
<1> QED
  BY <1>1, <1>2

\* Nor does a symbol beyond the alphabet make a negative distance.
LEMMA ReadNatural ==
  ASSUME Distanced,
         NEW x \in IF implicit THEN Implicit ELSE Explicit \cup Stray, ~OutOfRange(x[1], x[2])
  PROVE  x[2] \in Nat
<1>1. CASE x \in Stray
  BY <1>1, BrotliAssumption DEF Stray
<1>2. CASE x \in IF implicit THEN Implicit ELSE Explicit
  <2>1. x[2] \in Distances
    BY <1>2, ReadDistance
  <2> QED
    BY <2>1 DEF Distances
<1> QED
  BY <1>1, <1>2

\* How far back the window and the output reach.
LEMMA ReachIs ==
  ASSUME DecoderInv, Distanced
  PROVE  Reach \in Nat /\ Reach <= window /\ Reach <= Len(output)
<1>1. window \in Nat /\ Len(output) \in Nat
  BY Numbers DEF Distanced, Distances
<1>2. \E x \in {window, Len(output)} : \A y \in {window, Len(output)} : x <= y
  BY <1>1
<1> QED
  BY <1>1, <1>2 DEF Reach, Min

LEMMA CopyDistanced ==
  ASSUME DecoderInv, Distanced, Copy
  PROVE  Distanced'
<1>1. PICK x \in IF implicit THEN Implicit ELSE Explicit \cup Stray :
        /\ ~OutOfRange(x[1], x[2])
        /\ CopyFrom(x[1], x[2]) \/ FromDictionary(x[2])
        /\ used' = IF x[1] = 0 \/ x[2] \notin 1 .. Reach THEN used ELSE Append(used, x[2])
  BY DEF Copy
<1>2. window' = window
  BY DEF Copy
<1>3. x[2] \in Nat /\ Reach \in Nat
  BY <1>1, ReadNatural, ReachIs
<1>4. CASE UNCHANGED <<used, distance>>
  <2>1. window' \in Distances /\ used' \in Seq(Distances)
    BY <1>2, <1>4 DEF Distanced
  <2>2. RingIsHistory'
    BY <1>4 DEF Distanced, RingIsHistory
  <2> QED
    BY <2>1, <2>2 DEF Distanced
<1>5. CASE x[2] # 0 /\ used' = Append(used, x[2]) /\ distance' = Updated(x[2])
  <2> DEFINE past == First \o used
             d == x[2]
  <2>0. d \in Distances
    BY <1>3, <1>5 DEF Distances
  <2>1. used \in Seq(Distances) /\ distance = LastFour(past)
    BY RingIs DEF Distanced
  <2>2. /\ past \in Seq(Distances) /\ Len(past) >= 4
        /\ First \o Append(used, d) = Append(past, d)
    BY <2>0, <2>1, PastIs
  <2>3. used' \in Seq(Distances)
    BY <2>0, <1>5, <2>1, AppendProperties
  <2>4. distance' = <<d, distance[1], distance[2], distance[3]>>
    BY <1>3, <1>5 DEF Updated, Distances
  <2> HIDE DEF past, d
  <2>5. LastFour(Append(past, d)) = <<d, LastFour(past)[1], LastFour(past)[2], LastFour(past)[3]>>
    BY <2>0, <2>2, RingAdds DEF d
  <2>6. distance' = LastFour(Append(past, d))
    BY <2>1, <2>4, <2>5
  <2>7. distance' = LastFour(First \o used')
    BY <1>5, <2>2, <2>6 DEF d
  <2>8. RingIsHistory'
    BY <2>7 DEF RingIsHistory, LastFour, First
  <2> QED
    BY <1>2, <2>3, <2>8 DEF Distanced
<1>6. CASE CopyFrom(x[1], x[2])
  <2>1. /\ x[2] <= Reach
        /\ distance' = IF x[1] = 0 THEN distance ELSE Updated(x[2])
    BY <1>6 DEF CopyFrom
  <2>2. CASE x[2] = 0
    BY <1>1, <1>4, <2>1, <2>2 DEF Updated
  <2>3. CASE x[2] # 0
    <3>1. x[2] \in 1 .. Reach
      BY <1>3, <2>1, <2>3
    <3> QED
      BY <1>1, <1>4, <1>5, <2>1, <2>3, <3>1
  <2> QED
    BY <2>2, <2>3
<1>7. CASE FromDictionary(x[2])
  <2>1. x[2] > Reach /\ distance' = distance
    BY <1>7 DEF FromDictionary
  <2>2. x[2] \notin 1 .. Reach
    BY <1>3, <2>1
  <2> QED
    BY <1>1, <1>4, <2>1, <2>2
<1> QED
  BY <1>1, <1>6, <1>7

LEMMA CopyRefines ==
  ASSUME DecoderInv, Distanced, valid, valid', Copy
  PROVE  Stream!Next \/ UNCHANGED <<output, window, valid>>
<1>1. PICK x \in IF implicit THEN Implicit ELSE Explicit :
        /\ ~OutOfRange(x[1], x[2])
        /\ CopyFrom(x[1], x[2]) \/ FromDictionary(x[2])
  <2>1. PICK x \in IF implicit THEN Implicit ELSE Explicit \cup Stray :
          /\ ~OutOfRange(x[1], x[2])
          /\ CopyFrom(x[1], x[2]) \/ FromDictionary(x[2])
          /\ valid' = (valid /\ x \notin Stray /\ Len(output') <= size)
    BY DEF Copy
  <2>2. x \notin Stray
    BY <2>1
  <2> QED
    BY <2>1, <2>2
<1>2. /\ window' = window /\ IsSeq(output) /\ clength \in Nat
      /\ valid = TRUE /\ valid' = TRUE
  <2>1. valid \in BOOLEAN /\ valid' \in BOOLEAN
    BY CopyInv DEF DecoderInv, BlockInv, TypeOK
  <2> QED
    BY <2>1, Numbers DEF Copy, DecoderInv
<1> DEFINE d == x[2]
<1>3. d \in Nat \ {0}
  BY <1>1, ReadDistance DEF Distances
<1>4. /\ Reach \in Nat /\ Reach <= window /\ Reach <= Len(output)
      /\ window \in Nat /\ Len(output) \in Nat
  BY ReachIs, Numbers DEF Distanced, Distances
<1>5. CASE CopyFrom(x[1], d)
  <2>1. d <= Reach /\ output' = Copied(d, clength)
    BY <1>3, <1>5 DEF CopyFrom
  <2> HIDE DEF d
  <2>2. d <= Len(output) /\ d <= window /\ d \in 1 .. Len(output)
    BY <1>3, <1>4, <2>1
  <2> DEFINE t == Stream!Repeated(d, clength)
  <2>3. IsSeq(t) /\ Len(t) = clength /\ output' = output \o t
    BY <1>2, <1>3, <2>1, <2>2, CopiedIsRepeated
  <2> HIDE DEF t
  <2>4. Len(output') = Len(output) + clength
    BY <1>2, <2>3, ConcatSeq
  <2>5. Len(output') >= Len(output) /\ Len(output') - Len(output) = clength
    BY <1>2, <1>4, <2>4
  <2>6. Stream!Stored(Stream!Repeated(d, Len(output') - Len(output)))
    BY <1>2, <2>3, <2>5 DEF Stream!Stored, t
  <2>7. Stream!Copied
    BY <2>2, <2>5, <2>6 DEF Stream!Copied
  <2> QED
    BY <2>7 DEF Stream!Next
<1>6. CASE FromDictionary(d)
  <2> DEFINE id == WordID(d, Reach)
  <2>1. /\ d > Reach
        /\ \/ Exists(id, clength) /\ output' = output \o Appended(id, clength)
           \/ output' = output
    BY <1>6 DEF FromDictionary
  <2>2. id \in Nat
    BY <1>3, <1>4, <2>1 DEF WordID
  <2> HIDE DEF id, d
  <2>3. CASE Exists(id, clength) /\ output' = output \o Appended(id, clength)
    <3>1. Appended(id, clength) \in DictionaryWords
      BY <2>2, <2>3, WordIs
    <3>2. Stream!Stored(Appended(id, clength))
      BY <1>2, <2>3 DEF Stream!Stored
    <3> QED
      BY <3>1, <3>2 DEF Stream!Next
  <2> QED
    BY <1>2, <2>1, <2>3
<1> QED
  BY <1>1, <1>5, <1>6

LEMMA ByteRefines ==
  ASSUME DecoderInv, valid, valid', valid' = valid, Raw \/ Insert
  PROVE  Stream!Next \/ UNCHANGED <<output, window, valid>>
<1>1. window' = window /\ (output' = output \/ \E byte \in Byte : output' = Append(output, byte))
  BY Zenon DEF Raw, Insert
<1>2. CASE output' = output
  BY <1>1, <1>2
<1>3. CASE \E byte \in Byte : output' = Append(output, byte)
  <2>1. PICK byte \in Byte : output' = Append(output, byte)
    BY <1>3
  <2> DEFINE S == Range(output) \cup {byte}
  <2>2. output \in Seq(S) /\ byte \in S
    BY DEF DecoderInv, IsSeq
  <2> HIDE DEF S
  <2>3. output' = output \o <<byte>>
    BY <2>1, <2>2, AppendIsConcat
  <2>4. valid = TRUE
    BY DEF DecoderInv, BlockInv, TypeOK
  <2> QED
    BY <1>1, <2>1, <2>3, <2>4 DEF Stream!Next, Stream!Stored
<1> QED
  BY <1>1, <1>2, <1>3

\* A stream once invalid stays so.
LEMMA ValidShrinks ==
  ASSUME DecoderInv, Next
  PROVE  valid' => valid
<1>1. CASE Copy
  BY <1>1 DEF Copy
<1>2. CASE MapCode
  BY <1>2 DEF MapCode
<1>3. CASE Command
  BY <1>3, Zenon DEF Command
<1>4. CASE LastEmpty \/ Metadata \/ Begin \/ Raw \/ Types \/ Trees \/ MapRead \/ Mapped
  BY <1>4, Zenon DEF LastEmpty, Metadata, Begin, Raw, Types, Trees, MapRead, Mapped
<1>5. CASE Insert \/ Inserted \/ BadDistance \/ EndBlock \/ StreamEnds
  BY <1>5, Zenon DEF Insert, Inserted, BadDistance, EndBlock, StreamEnds
<1> QED
  BY <1>1, <1>2, <1>3, <1>4, <1>5 DEF Next

\* The steps that do not read a distance.
LEMMA OthersDistanced ==
  ASSUME Distanced, Next, ~Copy
  PROVE  /\ Distanced' /\ UNCHANGED window
         /\ Raw \/ Insert \/ Begin \/ UNCHANGED output
<1>1. UNCHANGED <<distance, used, window>>
  BY Zenon DEF Next, LastEmpty, Metadata, Begin, Raw, Types, Trees, MapCode, MapRead, Mapped,
     Command, Insert, Inserted, BadDistance, EndBlock, StreamEnds
<1>2. Raw \/ Insert \/ Begin \/ UNCHANGED output
  BY Zenon DEF Next, LastEmpty, Metadata, Types, Trees, MapCode, MapRead, Mapped,
     Command, Inserted, BadDistance, EndBlock, StreamEnds
<1>3. RingIsHistory'
  BY <1>1 DEF Distanced, RingIsHistory
<1> QED
  BY <1>1, <1>2, <1>3 DEF Distanced

\* What they write.
LEMMA OthersRefine ==
  ASSUME DecoderInv, Distanced, valid, valid', Next, ~Copy
  PROVE  Stream!Next \/ UNCHANGED <<output, window, valid>>
<1>1. valid' = valid
  <2>1. valid \in BOOLEAN
    BY DEF DecoderInv, BlockInv, TypeOK
  <2>2. CASE MapCode
    BY <2>1, <2>2 DEF MapCode
  <2>3. CASE Command
    BY <2>3, Zenon DEF Command
  <2>4. CASE LastEmpty \/ Metadata \/ Begin \/ Raw \/ Types \/ Trees \/ MapRead \/ Mapped
    BY <2>4, Zenon DEF LastEmpty, Metadata, Begin, Raw, Types, Trees, MapRead, Mapped
  <2>5. CASE Insert \/ Inserted \/ BadDistance \/ EndBlock \/ StreamEnds
    BY <2>5, Zenon DEF Insert, Inserted, BadDistance, EndBlock, StreamEnds
  <2> QED
    BY <2>2, <2>3, <2>4, <2>5 DEF Next
<1>2. window' = window
  BY OthersDistanced
<1>3. CASE UNCHANGED output
  BY <1>1, <1>2, <1>3
<1>4. CASE Raw \/ Insert
  BY <1>1, <1>4, ByteRefines
<1>5. CASE Begin
  <2>1. output' \in Resized /\ phase = "head"
    BY <1>5 DEF Begin
  <2>2. size \in Nat /\ IsSeq(output) /\ Len(output) <= size
    <3>1. Room >= 0
      BY DEF DecoderInv, BlockInv, Counted
    <3> QED
      BY <3>1, Numbers DEF DecoderInv
  <2>3. output' = output
    BY <2>1, <2>2, ResizedSeq
  <2> QED
    BY <1>1, <1>2, <2>3
<1> QED
  BY <1>3, <1>4, <1>5, OthersDistanced

-----------------------------------------------------------------------------
(* Context maps *)

\* The queue of IMTF before each of the first m values.
InOrder == [v \in 0 .. 255 |-> v]
IsQueue(data, f, m) ==
  f = [k \in 1 .. m |-> IF k = 1 THEN InOrder ELSE ToFront(f[k - 1], data[k - 1])]

\* The recursion has a solution, of any length.
LEMMA QueueExists ==
  ASSUME NEW data
  PROVE  \A m \in Nat : \E f : IsQueue(data, f, m)
<1> DEFINE T == {m \in Nat : \E f : IsQueue(data, f, m)}
<1>1. 0 \in T
  <2> DEFINE f == [k \in 1 .. 0 |-> InOrder]
  <2>1. 1 .. 0 = {}
    OBVIOUS
  <2>2. IsQueue(data, f, 0)
    BY <2>1 DEF IsQueue
  <2> QED
    BY <2>2
<1>2. ASSUME NEW m \in Nat, m \in T PROVE m + 1 \in T
  <2>1. PICK f : IsQueue(data, f, m)
    BY <1>2
  <2> DEFINE Shuffled(k, before) == IF k = 1 THEN InOrder ELSE ToFront(before, data[k - 1])
             g == [k \in 1 .. m + 1 |-> IF k \in 1 .. m THEN f[k] ELSE Shuffled(k, f[k - 1])]
  <2>2. ASSUME NEW k \in 1 .. m + 1 PROVE g[k] = Shuffled(k, g[k - 1])
    <3>1. k = 1 \/ k - 1 \in 1 .. m
      OBVIOUS
    <3>2. k - 1 \in 1 .. m => g[k - 1] = f[k - 1]
      OBVIOUS
    <3>3. Shuffled(k, g[k - 1]) = Shuffled(k, f[k - 1])
      <4>1. CASE k = 1
        BY <4>1, Zenon
      <4>2. CASE k - 1 \in 1 .. m
        <5>1. g[k - 1] = f[k - 1]
          BY <3>2, <4>2
        <5> HIDE DEF g
        <5> QED
          BY <5>1
      <4> QED
        BY <3>1, <4>1, <4>2
    <3>4. k \in 1 .. m => f[k] = Shuffled(k, f[k - 1])
      BY <2>1, Zenon DEF IsQueue
    <3> QED
      BY <3>3, <3>4, Zenon
  <2>3. IsQueue(data, g, m + 1)
    BY <2>2, Zenon DEF IsQueue
  <2>4. m + 1 \in Nat /\ \E h : IsQueue(data, h, m + 1)
    <3>1. m + 1 \in Nat
      OBVIOUS
    <3> HIDE DEF g
    <3> QED
      BY <2>3, <3>1, Zenon
  <2> QED
    BY <2>4, Zenon
<1> HIDE DEF T
<1>3. Nat \subseteq T
  BY <1>1, <1>2, NumberInduction
<1> QED
  BY <1>3 DEF T

\* A queue whose first n values are numbers below n.
Within(q, n) == \A v \in 0 .. n - 1 : q[v] \in 0 .. n - 1

LEMMA ToFrontWithin ==
  ASSUME NEW n \in 1 .. 256, NEW q, Within(q, n), NEW place \in 0 .. n - 1
  PROVE  Within(ToFront(q, place), n)
<1>1. ASSUME NEW v \in 0 .. n - 1
      PROVE  ToFront(q, place)[v] \in 0 .. n - 1
  <2>1. v \in 0 .. 255
    OBVIOUS
  <2>2. ToFront(q, place)[v] = IF v = 0 THEN q[place] ELSE IF v <= place THEN q[v - 1] ELSE q[v]
    BY <2>1 DEF ToFront
  <2>3. v = 0 \/ v - 1 \in 0 .. n - 1
    OBVIOUS
  <2> QED
    BY <2>2, <2>3 DEF Within
<1> QED
  BY <1>1 DEF Within

\* IMTF gives as many values, none of a tree that does not exist (Brotli.cpp:152).
LEMMA IMTFWithin ==
  ASSUME NEW n \in 1 .. 256, NEW data \in Seq(0 .. n - 1)
  PROVE  IMTF(data) \in Seq(0 .. n - 1) /\ Len(IMTF(data)) = Len(data)
<1> DEFINE L == Len(data)
           queue[k \in 1 .. L + 1] ==
             IF k = 1 THEN InOrder ELSE ToFront(queue[k - 1], data[k - 1])
           S == 0 .. n - 1
<1>1. L \in Nat /\ DOMAIN data = 1 .. L /\ \A k \in 1 .. L : data[k] \in S
  OBVIOUS
<1>2. IMTF(data) = [k \in 1 .. L |-> queue[k][data[k]]]
  BY <1>1 DEF IMTF, InOrder
<1>3. queue = CHOOSE f : IsQueue(data, f, L + 1)
  BY DEF IsQueue
<1> HIDE DEF queue
<1>4. IsQueue(data, queue, L + 1)
  <2>1. L + 1 \in Nat
    BY <1>1
  <2> QED
    BY <1>3, <2>1, QueueExists, Zenon
<1>5. \A k \in 1 .. L : Within(queue[k], n)
  <2> DEFINE T == {m \in Nat : m \in 1 .. L => Within(queue[m], n)}
  <2>1. 0 \in T
    OBVIOUS
  <2>2. ASSUME NEW m \in Nat, m \in T PROVE m + 1 \in T
    <3>1. ASSUME m + 1 \in 1 .. L PROVE Within(queue[m + 1], n)
      <4>1. m + 1 \in 1 .. L + 1 /\ (m + 1) - 1 = m
        BY <1>1, <3>1
      <4> DEFINE j == m + 1
      <4>2. j \in 1 .. L + 1 /\ j - 1 = m
        BY <4>1
      <4>3. m = 0 <=> j = 1
        OBVIOUS
      <4> HIDE DEF j
      <4>4. queue[j] = IF j = 1 THEN InOrder ELSE ToFront(queue[j - 1], data[j - 1])
        BY <1>4, <4>2, Zenon DEF IsQueue
      <4>5. CASE m = 0
        <5>1. queue[j] = InOrder
          BY <4>3, <4>4, <4>5
        <5>2. Within(InOrder, n)
          <6>1. \A v \in 0 .. n - 1 : v \in 0 .. 255
            OBVIOUS
          <6>2. \A v \in 0 .. n - 1 : InOrder[v] = v
            BY <6>1 DEF InOrder
          <6> QED
            BY <6>2 DEF Within
        <5> QED
          BY <5>1, <5>2 DEF j
      <4>6. CASE m # 0
        <5>1. m \in 1 .. L
          BY <1>1, <3>1, <4>6
        <5>2. Within(queue[m], n)
          BY <2>2, <5>1
        <5>3. data[m] \in 0 .. n - 1
          BY <1>1, <5>1
        <5>4. Within(ToFront(queue[m], data[m]), n)
          BY <5>2, <5>3, ToFrontWithin
        <5>5. queue[j] = ToFront(queue[m], data[m])
          BY <4>2, <4>3, <4>4, <4>6
        <5> QED
          BY <5>4, <5>5 DEF j
      <4> QED
        BY <4>5, <4>6
    <3> QED
      BY <3>1
  <2> HIDE DEF T
  <2>3. Nat \subseteq T
    BY <2>1, <2>2, NumberInduction
  <2> QED
    BY <1>1, <2>3 DEF T
<1>6. ASSUME NEW k \in 1 .. L PROVE queue[k][data[k]] \in S
  BY <1>1, <1>5 DEF Within
<1> HIDE DEF L, S
<1>7. IMTF(data) \in [1 .. L -> S]
  BY <1>2, <1>6
<1>8. IMTF(data) \in Seq(S) /\ Len(IMTF(data)) = L
  BY <1>1, <1>7
<1> QED
  BY <1>8 DEF S, L

\* Values of the trees there are; of any others once the stream is invalid.
MapOf(n) == map \in Seq(0 .. n - 1)

\* What is known of the map being read.
MapsFilled ==
  /\ phase \in {"map", "mapped"} => /\ trees \in 1 .. 256 /\ MapOf(256)
                                    /\ valid => MapOf(trees)
  /\ phase = "map" => rlemax \in Nat /\ Len(map) <= Contexts
  /\ phase = "mapped" => Len(map) = Contexts

LEMMA TreesFilled ==
  ASSUME Trees
  PROVE  MapsFilled'
<1>1. PICK n \in 1 .. MaxTrees :
        /\ trees' = n
        /\ IF n >= 2 THEN /\ \E r \in 0 .. MaxRun : rlemax' = r
                          /\ map' = <<>>
                          /\ phase' = "map"
           ELSE /\ map' = [k \in 1 .. Contexts |-> 0]
                /\ phase' = "mapped"
  BY Zenon DEF Trees
<1>2. n \in 1 .. 256 /\ Contexts \in Nat \ {0} /\ MaxRun \in Nat
  BY BrotliAssumption
<1>3. CASE n >= 2
  <2>1. rlemax' \in Nat /\ map' = <<>> /\ phase' = "map"
    BY <1>1, <1>2, <1>3
  <2>2. Len(map') = 0 /\ map' \in Seq(0 .. trees' - 1) /\ map' \in Seq(0 .. 256 - 1)
    BY <2>1
  <2> QED
    BY <1>1, <1>2, <2>1, <2>2 DEF MapsFilled, MapOf
<1>4. CASE ~(n >= 2)
  <2>1. map' = [k \in 1 .. Contexts |-> 0] /\ phase' = "mapped" /\ n = 1
    BY <1>1, <1>2, <1>4
  <2>2. map' \in [1 .. Contexts -> 0 .. n - 1] /\ map' \in [1 .. Contexts -> 0 .. 256 - 1]
    BY <2>1
  <2>3. map' \in Seq(0 .. n - 1) /\ map' \in Seq(0 .. 256 - 1) /\ Len(map') = Contexts
    BY <1>2, <2>2
  <2> QED
    BY <1>1, <1>2, <2>1, <2>3 DEF MapsFilled, MapOf
<1> QED
  BY <1>3, <1>4

\* A symbol adds a value, or zeros, as far as the map has room for them.
LEMMA MapGrows ==
  ASSUME NEW n \in 1 .. 256, MapOf(n), Len(map) < Contexts, rlemax \in Nat, phase = "map",
         NEW code \in Nat, code > rlemax => MapValue(code) \in 0 .. n - 1,
         IF code > rlemax
         THEN map' = Append(map, MapValue(code)) /\ UNCHANGED phase
         ELSE \E rep \in 2 ^ code .. 2 ^ (code + 1) - 1 :
                IF Len(map) + rep > Contexts
                THEN Violate /\ UNCHANGED map
                ELSE map' = map \o [k \in 1 .. rep |-> 0] /\ UNCHANGED phase
  PROVE  \/ phase' = "violation"
         \/ phase' = "map" /\ map' \in Seq(0 .. n - 1) /\ Len(map') <= Contexts
<1> DEFINE S == 0 .. n - 1
<1>0. map \in Seq(S) /\ 0 \in S /\ Contexts \in Nat
  BY BrotliAssumption DEF MapOf
<1>1. CASE code > rlemax
  <2>1. map' = Append(map, MapValue(code)) /\ phase' = "map" /\ MapValue(code) \in S
    BY <1>1
  <2> HIDE DEF S
  <2>2. map' \in Seq(S) /\ Len(map') = Len(map) + 1
    BY <1>0, <2>1, AppendProperties
  <2>3. Len(map') <= Contexts
    BY <1>0, <2>2
  <2> QED
    BY <2>1, <2>2, <2>3 DEF S
<1>2. CASE ~(code > rlemax)
  <2>1. PICK rep \in 2 ^ code .. 2 ^ (code + 1) - 1 :
          IF Len(map) + rep > Contexts
          THEN Violate /\ UNCHANGED map
          ELSE map' = map \o [k \in 1 .. rep |-> 0] /\ UNCHANGED phase
    BY <1>2
  <2>2. CASE Len(map) + rep > Contexts
    BY <2>1, <2>2 DEF Violate
  <2>3. CASE ~(Len(map) + rep > Contexts)
    <3> DEFINE zeros == [k \in 1 .. rep |-> 0]
    <3>1. map' = map \o zeros /\ phase' = "map"
      BY <2>1, <2>3
    <3>2. rep \in Int
      OBVIOUS
    <3>3. CASE rep >= 0
      <4>1. zeros \in [1 .. rep -> S] /\ rep \in Nat
        BY <1>0, <3>2, <3>3
      <4>2. zeros \in Seq(S) /\ Len(zeros) = rep
        BY <4>1
      <4> HIDE DEF zeros, S
      <4>3. map' \in Seq(S) /\ Len(map') = Len(map) + rep
        BY <1>0, <3>1, <4>2, ConcatProperties
      <4>4. Len(map') <= Contexts
        BY <1>0, <2>3, <3>2, <4>3
      <4> QED
        BY <3>1, <4>3, <4>4 DEF S
    <3>4. CASE rep < 0
      <4>1. 1 .. rep = {}
        BY <3>2, <3>4
      <4>2. zeros = <<>>
        BY <4>1
      <4> HIDE DEF zeros, S
      <4>3. map' = map
        BY <1>0, <3>1, <4>2, ConcatEmptySeq
      <4>4. Len(map') <= Contexts
        BY <1>0, <4>3
      <4> QED
        BY <1>0, <3>1, <4>3, <4>4 DEF S
    <3> QED
      BY <3>2, <3>3, <3>4
  <2> QED
    BY <2>2, <2>3
<1> QED
  BY <1>1, <1>2

LEMMA MapCodeFilled ==
  ASSUME MapsFilled, valid \in BOOLEAN, MapCode
  PROVE  MapsFilled'
<1>1. /\ phase = "map" /\ Len(map) < Contexts
      /\ trees' = trees /\ rlemax' = rlemax
  BY DEF MapCode
<1>2. /\ trees \in 1 .. 256 /\ MapOf(256) /\ (valid => MapOf(trees))
      /\ rlemax \in Nat
  BY <1>1 DEF MapsFilled
<1>3. PICK code \in SymbolsRead(rlemax + trees) :
        /\ valid' = (valid /\ code < rlemax + trees)
        /\ IF code > rlemax
           THEN map' = Append(map, MapValue(code)) /\ UNCHANGED phase
           ELSE \E rep \in 2 ^ code .. 2 ^ (code + 1) - 1 :
                  IF Len(map) + rep > Contexts
                  THEN Violate /\ UNCHANGED map
                  ELSE map' = map \o [k \in 1 .. rep |-> 0] /\ UNCHANGED phase
  BY Zenon DEF MapCode
<1>4. code \in Nat
  BY DEF SymbolsRead
<1>5. MapValue(code) \in 0 .. 256 - 1
  BY <1>2, <1>4 DEF MapValue
<1>6. \/ phase' = "violation"
      \/ phase' = "map" /\ map' \in Seq(0 .. 256 - 1) /\ Len(map') <= Contexts
  <2> DEFINE n == 256
  <2>1. n \in 1 .. 256 /\ MapOf(n) /\ (code > rlemax => MapValue(code) \in 0 .. n - 1)
    BY <1>2, <1>5
  <2> HIDE DEF n
  <2>2. \/ phase' = "violation"
        \/ phase' = "map" /\ map' \in Seq(0 .. n - 1) /\ Len(map') <= Contexts
    BY <1>1, <1>2, <1>3, <1>4, <2>1, MapGrows
  <2> QED
    BY <2>2 DEF n
<1>7. ASSUME valid'
      PROVE  \/ phase' = "violation"
             \/ phase' = "map" /\ map' \in Seq(0 .. trees - 1)
  <2>1. valid /\ code < rlemax + trees
    BY <1>3, <1>7
  <2>2. code > rlemax => MapValue(code) \in 0 .. trees - 1
    <3> SUFFICES ASSUME code > rlemax PROVE MapValue(code) \in 0 .. trees - 1
      OBVIOUS
    <3>1. code - rlemax \in 0 .. trees - 1 /\ code - rlemax \in 0 .. 255
      BY <1>2, <1>4, <2>1
    <3>2. (code - rlemax) % 256 = code - rlemax
      BY <3>1
    <3> QED
      BY <3>1, <3>2 DEF MapValue
  <2>3. MapOf(trees)
    BY <1>2, <2>1
  <2> QED
    BY <1>1, <1>2, <1>3, <1>4, <2>2, <2>3, MapGrows
<1>8. phase' = "violation" \/ phase' = "map"
  BY <1>6
<1>9. CASE phase' = "map"
  <2>1. MapOf(256)' /\ Len(map') <= Contexts /\ (valid' => MapOf(trees)')
    BY <1>1, <1>6, <1>7, <1>9 DEF MapOf
  <2> QED
    BY <1>1, <1>2, <1>9, <2>1 DEF MapsFilled
<1>10. CASE phase' = "violation"
  BY <1>10 DEF MapsFilled
<1> QED
  BY <1>8, <1>9, <1>10

LEMMA MapReadFilled ==
  ASSUME MapsFilled, MapRead
  PROVE  MapsFilled'
<1>1. /\ phase = "map" /\ Len(map) >= Contexts /\ phase' = "mapped"
      /\ trees' = trees /\ valid' = valid
      /\ map' = map \/ map' = IMTF(map)
  BY DEF MapRead
<1>2. /\ trees \in 1 .. 256 /\ map \in Seq(0 .. 256 - 1)
      /\ valid => map \in Seq(0 .. trees - 1)
      /\ Len(map) <= Contexts /\ Contexts \in Nat
  BY <1>1, BrotliAssumption DEF MapsFilled, MapOf
<1>3. ASSUME NEW n \in 1 .. 256, map \in Seq(0 .. n - 1)
      PROVE  map' \in Seq(0 .. n - 1) /\ Len(map') = Contexts
  <2>1. IMTF(map) \in Seq(0 .. n - 1) /\ Len(IMTF(map)) = Len(map)
    BY <1>3, IMTFWithin
  <2> QED
    BY <1>1, <1>2, <1>3, <2>1
<1>4. 256 \in 1 .. 256
  OBVIOUS
<1>5. map' \in Seq(0 .. 256 - 1) /\ Len(map') = Contexts
  BY <1>2, <1>3, <1>4
<1>6. valid' => map' \in Seq(0 .. trees' - 1)
  <2> SUFFICES ASSUME valid' PROVE map' \in Seq(0 .. trees' - 1)
    OBVIOUS
  <2>1. valid
    BY <1>1, Zenon
  <2> QED
    BY <1>1, <1>2, <1>3, <2>1
<1> QED
  BY <1>1, <1>2, <1>5, <1>6 DEF MapsFilled, MapOf

LEMMA OthersFilled ==
  ASSUME MapsFilled, Next, ~Trees, ~MapCode, ~MapRead
  PROVE  MapsFilled'
<1>1. phase' \notin {"map", "mapped"}
  <2>1. CASE Insert
    BY <2>1 DEF Insert, Violate
  <2>2. CASE Raw
    BY <2>2 DEF Raw, Ended
  <2>3. CASE LastEmpty \/ Metadata \/ Begin \/ Types \/ Mapped
    BY <2>3 DEF LastEmpty, Metadata, Begin, Types, Mapped, Ended, Violate
  <2>4. CASE Command \/ Inserted \/ BadDistance \/ EndBlock \/ StreamEnds
    BY <2>4 DEF Command, Inserted, BadDistance, EndBlock, StreamEnds, Ended, Violate
  <2>5. CASE Copy
    BY <2>5 DEF Copy, CopyFrom, FromDictionary, Violate
  <2> QED
    BY <2>1, <2>2, <2>3, <2>4, <2>5 DEF Next
<1> QED
  BY <1>1 DEF MapsFilled

-----------------------------------------------------------------------------
(* What was read is what RFC 7932 has it mean, as long as the stream is valid: the *)
(* lengths, the last four distances and the maps of trees, for any window, formats *)
(* and dictionary; the ring and the size of the maps hold for invalid ones too.    *)
DecoderReadInv == DecoderInv /\ Distanced /\ MapsFilled

THEOREM StreamInvariance == Spec => []DecoderReadInv
<1>1. Init => DecoderReadInv
  <2>1. Init => MapsFilled
    BY DEF Init, MapsFilled
  <2> QED
    BY <2>1, DecoderInit, DistancedInit DEF DecoderReadInv
<1>2. ASSUME DecoderReadInv, DecoderInv', [Next]_vars PROVE DecoderReadInv'
  <2>1. CASE UNCHANGED vars
    <3>1. UNCHANGED <<phase, window, distance, used, map, trees, rlemax, valid>>
      BY <2>1 DEF vars, context
    <3>2. Distanced'
      BY <1>2, <3>1 DEF DecoderReadInv, Distanced, RingIsHistory
    <3>3. MapsFilled'
      BY <1>2, <3>1 DEF DecoderReadInv, MapsFilled, MapOf
    <3> QED
      BY <1>2, <3>2, <3>3 DEF DecoderReadInv
  <2>2. CASE Next
    <3>1. Distanced'
      BY <1>2, <2>2, CopyDistanced, OthersDistanced DEF DecoderReadInv
    <3>2. MapsFilled'
      <4>1. valid \in BOOLEAN
        BY <1>2 DEF DecoderReadInv, DecoderInv, BlockInv, TypeOK
      <4> QED
        BY <1>2, <2>2, <4>1, TreesFilled, MapCodeFilled, MapReadFilled, OthersFilled
        DEF DecoderReadInv
    <3> QED
      BY <1>2, <3>1, <3>2 DEF DecoderReadInv
  <2> QED
    BY <1>2, <2>1, <2>2
<1> QED
  BY <1>1, <1>2, DecoderInvariance, PTL DEF Spec

THEOREM StreamCorrect == Spec => []StreamInv
<1>1. DecoderReadInv => StreamInv
  <2> SUFFICES ASSUME DecoderReadInv PROVE StreamInv
    OBVIOUS
  <2>1. BlockInv /\ RingIsHistory
    BY DEF DecoderReadInv, DecoderInv, Distanced
  <2>2. MapInRange
    <3> SUFFICES ASSUME phase = "mapped"
                 PROVE  /\ Len(map) = Contexts
                        /\ valid => \A k \in DOMAIN map : map[k] \in 0 .. trees - 1
      BY DEF MapInRange
    <3> DEFINE S == 0 .. trees - 1
    <3>1. (valid => map \in Seq(S)) /\ Len(map) = Contexts
      BY DEF DecoderReadInv, MapsFilled, MapOf
    <3> HIDE DEF S
    <3>2. valid => \A k \in DOMAIN map : map[k] \in S
      BY <3>1
    <3> QED
      BY <3>1, <3>2 DEF S
  <2> QED
    BY <2>1, <2>2 DEF StreamInv
<1> QED
  BY <1>1, StreamInvariance, PTL

(* Every step appends a byte, a copy from within the window, which may overlap    *)
(* what it writes, or a word of the dictionary, or nothing, until the stream      *)
(* turns out invalid.                                                             *)
THEOREM WindowRefined == Spec => RefinesWindow
<1>1. Init => Stream!Init
  BY DEF Init, Stream!Init
<1>2. ASSUME DecoderReadInv, DecoderReadInv', [Next]_vars
      PROVE  [Stream!Next]_<<output, window, valid>>
  <2>0. DecoderInv /\ Distanced /\ valid' \in BOOLEAN
    BY <1>2 DEF DecoderReadInv, DecoderInv, BlockInv, TypeOK
  <2>1. CASE UNCHANGED vars
    BY <2>1 DEF vars
  <2>2. CASE Next /\ ~valid'
    <3>1. window' = window
      <4>1. CASE Copy
        BY <4>1 DEF Copy
      <4> QED
        BY <2>0, <2>2, <4>1, OthersDistanced
    <3>2. valid' = FALSE
      BY <2>0, <2>2
    <3> QED
      BY <3>1, <3>2 DEF Stream!Next, Stream!Invalid
  <2>3. CASE Next /\ valid'
    <3>1. valid
      BY <2>0, <2>3, ValidShrinks
    <3> QED
      BY <2>0, <2>3, <3>1, CopyRefines, OthersRefine
  <2> QED
    BY <1>2, <2>1, <2>2, <2>3
<1> QED
  BY <1>1, <1>2, StreamInvariance, PTL DEF Spec, RefinesWindow, Stream!Spec

-----------------------------------------------------------------------------
(***************************************************************************)
(* Prefix codes.  Reading keeps ReadInv: the space left is what the        *)
(* lengths take from 2^MaxBits, and a run of repeat tokens has the length  *)
(* of its digits.  With no space left, each code, as a number of MaxBits   *)
(* bits, begins where the shorter ones and those before it end, so the     *)
(* codes divide all numbers among them.                                    *)
(***************************************************************************)

(***************************************************************************)
(* Sums.                                                                   *)
(***************************************************************************)
Sums(sum, f, n) ==
  /\ sum[0] = 0 /\ \A k \in 0 .. n : sum[k] \in Nat
  /\ \A k \in 0 .. n - 1 : sum[k + 1] = sum[k] + f[k + 1]

\* The sums of the first terms, one after the other.
LEMMA TotalIs ==
  ASSUME NEW n \in Nat, NEW f, \A k \in 1 .. n : f[k] \in Nat
  PROVE  \E sum : Sums(sum, f, n) /\ Total(f, n) = sum[n]
<1> DEFINE step == [k \in 1 .. n |-> [x \in Nat |-> x + f[k]]]
           Is(g) == g = [k \in 0 .. n |-> IF k = 0 THEN 0 ELSE g[k - 1] + f[k]]
           chosen == CHOOSE g : Is(g)
<1>1. step \in [1 .. n -> [Nat -> Nat]]
  OBVIOUS
<1> HIDE DEF step
<1>2. PICK sum \in [0 .. n -> Nat] : Recurs(sum, 0, step, n)
  BY <1>1, RecursionExists
<1>3. \A k \in 1 .. n : sum[k] = sum[k - 1] + f[k]
  <2> TAKE k \in 1 .. n
  <2>1. sum[k - 1] \in Nat
    OBVIOUS
  <2>2. step[k][sum[k - 1]] = sum[k - 1] + f[k]
    BY <2>1 DEF step
  <2> QED
    BY <1>2, <2>2 DEF Recurs
<1>4. Is(sum)
  <2>1. sum[0] = 0
    BY <1>2 DEF Recurs
  <2>2. \A k \in 0 .. n : sum[k] = IF k = 0 THEN 0 ELSE sum[k - 1] + f[k]
    BY <1>3, <2>1
  <2> QED
    BY <2>2
<1>5. Is(chosen)
  BY <1>4
<1>6. chosen[0] = 0 /\ \A k \in 1 .. n : chosen[k] = chosen[k - 1] + f[k]
  <2> HIDE DEF chosen
  <2>1. \A k \in 0 .. n : chosen[k] = IF k = 0 THEN 0 ELSE chosen[k - 1] + f[k]
    BY <1>5
  <2> QED
    BY <2>1
<1>7. Total(f, n) = chosen[n]
  BY DEF Total
<1> HIDE DEF chosen
<1>8. \A k \in 0 .. n - 1 : chosen[k + 1] = chosen[k] + f[k + 1]
  <2> TAKE k \in 0 .. n - 1
  <2>1. k + 1 \in 1 .. n /\ (k + 1) - 1 = k
    OBVIOUS
  <2> QED
    BY <1>6, <2>1
<1>9. \A k \in 0 .. n : chosen[k] \in Nat
  <2> DEFINE T == {k \in 0 .. n : chosen[k] \in Nat}
  <2>1. 0 \in T
    BY <1>6
  <2>2. ASSUME NEW k \in 0 .. n - 1, k \in T PROVE k + 1 \in T
    <3>1. chosen[k] \in Nat /\ f[k + 1] \in Nat /\ k + 1 \in 0 .. n
      BY <2>2
    <3> QED
      BY <1>8, <3>1
  <2> HIDE DEF T
  <2>3. \A k \in 0 .. n : k \in T
    BY <2>1, <2>2, UpTo
  <2> QED
    BY <2>3 DEF T
<1> QED
  BY <1>6, <1>7, <1>8, <1>9 DEF Sums

\* Two sums whose terms are in a proportion.
LEMMA SumsScaled ==
  ASSUME NEW n \in Nat, NEW c \in Nat, NEW f, NEW g, NEW sum, NEW other,
         Sums(sum, f, n), Sums(other, g, n), \A k \in 1 .. n : f[k] \in Nat /\ g[k] = c * f[k]
  PROVE  \A k \in 0 .. n : other[k] = c * sum[k]
<1> DEFINE T == {k \in 0 .. n : other[k] = c * sum[k]}
<1>1. 0 \in T
  BY DEF Sums
<1>2. ASSUME NEW k \in 0 .. n - 1, k \in T PROVE k + 1 \in T
  <2>1. other[k] = c * sum[k] /\ k + 1 \in 1 .. n
    BY <1>2
  <2>2. sum[k] \in Nat /\ f[k + 1] \in Nat /\ g[k + 1] = c * f[k + 1]
    BY <2>1 DEF Sums
  <2>3. sum[k + 1] = sum[k] + f[k + 1] /\ other[k + 1] = other[k] + g[k + 1]
    BY DEF Sums
  <2>4. c * (sum[k] + f[k + 1]) = c * sum[k] + c * f[k + 1]
    BY <2>2
  <2> QED
    BY <2>1, <2>2, <2>3, <2>4
<1> HIDE DEF T
<1>3. \A k \in 0 .. n : k \in T
  BY <1>1, <1>2, UpTo
<1> QED
  BY <1>3 DEF T

\* Terms that were zero between two places become the same number.
FilledTerms(f, g, n, c, first, final) ==
  /\ n \in Nat /\ c \in Nat /\ first \in Nat /\ final \in Nat /\ first <= final /\ final <= n
  /\ \A k \in 1 .. n : f[k] \in Nat
  /\ \A k \in 1 .. n : k \in first + 1 .. final => f[k] = 0 /\ g[k] = c
  /\ \A k \in 1 .. n : ~ (k \in first + 1 .. final) => g[k] = f[k]

LEMMA SumsFilled ==
  ASSUME NEW n, NEW f, NEW g, NEW sum, NEW other, NEW c, NEW first, NEW final,
         FilledTerms(f, g, n, c, first, final), Sums(sum, f, n), Sums(other, g, n)
  PROVE  other[n] = sum[n] + (final - first) * c
<1>0. /\ n \in Nat /\ c \in Nat /\ first \in Nat /\ final \in Nat /\ first <= final /\ final <= n
      /\ \A k \in 1 .. n : f[k] \in Nat
      /\ \A k \in 1 .. n : k \in first + 1 .. final => f[k] = 0 /\ g[k] = c
      /\ \A k \in 1 .. n : ~ (k \in first + 1 .. final) => g[k] = f[k]
  BY DEF FilledTerms
<1> DEFINE Before(k) == IF k <= first THEN 0 ELSE IF k <= final THEN k - first ELSE final - first
           T == {k \in 0 .. n : other[k] = sum[k] + Before(k) * c}
<1>1. 0 \in T
  <2>1. Before(0) * c = 0
    BY <1>0, SMT
  <2> QED
    BY <1>0, <2>1 DEF Sums
<1>2. ASSUME NEW k \in 0 .. n - 1, k \in T PROVE k + 1 \in T
  <2>1. other[k] = sum[k] + Before(k) * c /\ k + 1 \in 1 .. n
    BY <1>0, <1>2
  <2>2. sum[k] \in Nat /\ f[k + 1] \in Nat /\ Before(k) \in Nat
    BY <1>0, <2>1 DEF Sums
  <2>3. sum[k + 1] = sum[k] + f[k + 1] /\ other[k + 1] = other[k] + g[k + 1]
    BY DEF Sums
  <2>4. CASE k + 1 \in first + 1 .. final
    <3>1. f[k + 1] = 0 /\ g[k + 1] = c /\ Before(k + 1) = Before(k) + 1
      BY <1>0, <2>1, <2>4
    <3> HIDE DEF Before
    <3>2. (Before(k) + 1) * c = Before(k) * c + c
      BY <1>0, <2>2
    <3> QED
      BY <1>0, <2>1, <2>2, <2>3, <3>1, <3>2
  <2>5. CASE ~ (k + 1 \in first + 1 .. final)
    <3>1. g[k + 1] = f[k + 1] /\ Before(k + 1) = Before(k)
      BY <1>0, <2>1, <2>5
    <3> HIDE DEF Before
    <3>2. Before(k) * c \in Nat
      BY <1>0, <2>2
    <3> QED
      BY <1>0, <2>1, <2>2, <2>3, <3>1, <3>2
  <2> QED
    BY <2>4, <2>5
<1>3. Before(n) = final - first
  BY <1>0
<1> HIDE DEF T
<1>4. \A k \in 0 .. n : k \in T
  BY <1>0, <1>1, <1>2, UpTo
<1> QED
  BY <1>0, <1>3, <1>4 DEF T
(***************************************************************************)
(* Powers of two, of which the provers know only the numbers one by one.   *)
(***************************************************************************)
Power(n) == 2 ^ n

LEMMA Powers ==
  ASSUME NEW n \in 0 .. 15
  PROVE  /\ Power(n) \in Nat \ {0} /\ Power(n) <= 32768
         /\ n < 15 => Power(n + 1) = 2 * Power(n)
<1>0. CASE n = 0
  BY <1>0 DEF Power
<1>1. CASE n = 1
  BY <1>1 DEF Power
<1>2. CASE n = 2
  BY <1>2 DEF Power
<1>3. CASE n = 3
  BY <1>3 DEF Power
<1>4. CASE n = 4
  BY <1>4 DEF Power
<1>5. CASE n = 5
  BY <1>5 DEF Power
<1>6. CASE n = 6
  BY <1>6 DEF Power
<1>7. CASE n = 7
  BY <1>7 DEF Power
<1>8. CASE n = 8
  BY <1>8 DEF Power
<1>9. CASE n = 9
  BY <1>9 DEF Power
<1>10. CASE n = 10
  BY <1>10 DEF Power
<1>11. CASE n = 11
  BY <1>11 DEF Power
<1>12. CASE n = 12
  BY <1>12 DEF Power
<1>13. CASE n = 13
  BY <1>13 DEF Power
<1>14. CASE n = 14
  BY <1>14 DEF Power
<1>15. CASE n = 15
  BY <1>15 DEF Power
<1> QED
  BY <1>0, <1>1, <1>2, <1>3, <1>4, <1>5, <1>6, <1>7, <1>8, <1>9,
     <1>10, <1>11, <1>12, <1>13, <1>14, <1>15

LEMMA SmallPowers == Power(0) = 1 /\ Power(1) = 2 /\ Power(2) = 4 /\ Power(3) = 8
  BY DEF Power

LEMMA PowersAdd ==
  ASSUME NEW m \in 0 .. 15, NEW n \in 0 .. m
  PROVE  Power(m) = Power(n) * Power(m - n)
<1> DEFINE T == {k \in 0 .. m : Power(m) = Power(k) * Power(m - k)}
<1>1. 0 \in T
  <2>1. m - 0 = m /\ Power(m) \in Nat
    BY Powers
  <2> QED
    BY <2>1, SmallPowers
<1>2. ASSUME NEW k \in 0 .. m - 1, k \in T PROVE k + 1 \in T
  <2> DEFINE r == m - (k + 1)
  <2>1. r \in 0 .. 15 /\ r < 15 /\ m - k = r + 1 /\ k \in 0 .. 15 /\ k < 15 /\ k + 1 \in 0 .. m
    OBVIOUS
  <2>2. Power(m) = Power(k) * Power(r + 1)
    BY <1>2, <2>1
  <2> HIDE DEF r
  <2>3. Power(r + 1) = 2 * Power(r) /\ Power(r) \in Nat
    BY <2>1, Powers
  <2>4. Power(k + 1) = 2 * Power(k) /\ Power(k) \in Nat
    BY <2>1, Powers
  <2>5. Power(m) = Power(k + 1) * Power(r)
    BY <2>2, <2>3, <2>4
  <2> QED
    BY <2>1, <2>5 DEF r
<1> HIDE DEF T
<1>3. \A k \in 0 .. m : k \in T
  BY <1>1, <1>2, UpTo
<1> QED
  BY <1>3 DEF T

\* What is assumed of the constants.
LEMMA Sizes ==
  /\ AlphabetSize \in Nat \ {0} /\ MaxBits \in 1 .. 15 /\ FirstLength \in 1 .. MaxBits
  /\ DwordRange \in Nat \ {0} /\ DwordRange > 32768
  /\ DwordRange > AlphabetSize * Power(MaxBits)
  /\ Symbols = 0 .. AlphabetSize - 1
  BY PrefixAssumption DEF Power, Symbols

(***************************************************************************)
(* A 32-bit subtraction.                                                   *)
(***************************************************************************)
LEMMA LessIs ==
  ASSUME NEW W \in Nat \ {0}, NEW x \in 0 .. W - 1, NEW amount \in Nat, NEW taken \in Nat
  PROVE  LET less == (x + W - (amount % W)) % W
         IN  less \in 0 .. W - 1 /\ (less + (taken + amount)) % W = (x + taken) % W
<1> DEFINE r == amount % W
           q == amount \div W
           less == (x + W - r) % W
           z == (x + taken) % W
           p == (x + taken) \div W
<1>1. r \in 0 .. W - 1 /\ q \in Nat /\ amount = W * q + r
  BY DivMod
<1>2. z \in 0 .. W - 1 /\ p \in Nat /\ x + taken = W * p + z
  BY DivMod
<1> HIDE DEF r, q, z, p
<1>3. \/ less = x - r
      \/ less = x + W - r
  <2>1. CASE x >= r
    <3>1. x + W - r = W * 1 + (x - r) /\ x - r \in 0 .. W - 1 /\ x + W - r \in Nat
      BY <1>1, <2>1
    <3> QED
      BY <3>1, Quotient
  <2>2. CASE x < r
    <3>1. x + W - r = W * 0 + (x + W - r) /\ x + W - r \in 0 .. W - 1
      BY <1>1, <2>2
    <3> QED
      BY <3>1, Quotient
  <2> QED
    BY <1>1, <2>1, <2>2
<1>4. less \in 0 .. W - 1
  <2>1. x + W - r \in Nat
    BY <1>1
  <2> QED
    BY <2>1, DivMod
<1> HIDE DEF less
<1>5. PICK t \in Nat : less + (taken + amount) = W * t + z
  <2>1. CASE less = x - r
    <3>1. less + (taken + amount) = W * p + z + W * q
      BY <1>1, <1>2, <2>1
    <3>2. W * (p + q) = W * p + W * q /\ p + q \in Nat
      BY <1>1, <1>2
    <3>3. less + (taken + amount) = W * (p + q) + z
      BY <1>1, <1>2, <3>1, <3>2
    <3> QED
      BY <3>2, <3>3
  <2>2. CASE less = x + W - r
    <3>1. less + (taken + amount) = W * p + z + W * q + W
      BY <1>1, <1>2, <2>2
    <3>2. W * (p + q + 1) = W * p + W * q + W /\ p + q + 1 \in Nat
      BY <1>1, <1>2
    <3>3. less + (taken + amount) = W * (p + q + 1) + z
      BY <1>1, <1>2, <3>1, <3>2
    <3> QED
      BY <3>2, <3>3
  <2> QED
    BY <1>3, <2>1, <2>2
<1>6. (less + (taken + amount)) % W = z
  <2>1. less + (taken + amount) \in Nat
    BY <1>4
  <2> QED
    BY <1>2, <1>5, <2>1, Quotient
<1> QED
  BY <1>4, <1>6 DEF r, less, z

(***************************************************************************)
(* The last length that is not zero.                                       *)
(***************************************************************************)
LEMMA GreatestIs ==
  ASSUME NEW b \in Nat, NEW T, T # {}, \A y \in T : y \in 0 .. b
  PROVE  Max(T) \in T /\ \A y \in T : Max(T) >= y
<1> DEFINE R == {b - y : y \in T}
<1>1. R \in SUBSET Nat /\ R # {}
  <2>1. \A y \in T : b - y \in Nat
    OBVIOUS
  <2>2. R \in SUBSET Nat
    BY <2>1
  <2>3. PICK y : y \in T
    OBVIOUS
  <2>4. b - y \in R
    BY <2>3
  <2> QED
    BY <2>2, <2>4
<1> HIDE DEF R
<1>2. PICK x \in R : \A y \in R : x <= y
  BY <1>1, LeastNumber
<1>3. PICK z \in T : x = b - z
  BY DEF R
<1>4. \A y \in T : z >= y
  <2> TAKE y \in T
  <2>1. b - y \in R
    BY DEF R
  <2>2. b - z <= b - y /\ z \in 0 .. b /\ y \in 0 .. b
    BY <1>2, <1>3, <2>1
  <2> QED
    BY <2>2
<1> QED
  BY <1>4 DEF Max

LEMMA LastLengthIs ==
  ASSUME NEW clens, NEW end \in Nat
  PROVE  \/ /\ \A s \in Symbols : s < end => clens[s] = 0
            /\ LastLength(clens, end) = FirstLength
         \/ \E m \in Symbols : /\ m < end /\ clens[m] # 0 /\ LastLength(clens, end) = clens[m]
                               /\ \A s \in Symbols : s < end /\ clens[s] # 0 => s <= m
<1> DEFINE set == {s \in Symbols : s < end /\ clens[s] # 0}
<1>1. CASE set = {}
  BY <1>1 DEF LastLength
<1>2. CASE set # {}
  <2>1. AlphabetSize \in Nat /\ \A y \in set : y \in 0 .. AlphabetSize
    BY Sizes
  <2>2. LastLength(clens, end) = clens[Max(set)]
    BY <1>2 DEF LastLength
  <2> DEFINE m == Max(set)
  <2>3. m \in set /\ \A s \in set : m >= s
    <3> HIDE DEF set
    <3> QED
      BY <1>2, <2>1, GreatestIs
  <2> HIDE DEF m
  <2>4. \A s \in Symbols : s \in Nat
    BY Sizes
  <2>5. m \in Symbols /\ m < end /\ clens[m] # 0
    BY <2>3
  <2>6. \A s \in Symbols : s < end /\ clens[s] # 0 => s <= m
    BY <2>3, <2>4, <2>5
  <2>7. LastLength(clens, end) = clens[m]
    BY <2>2 DEF m
  <2> QED
    BY <2>5, <2>6, <2>7
<1> QED
  BY <1>1, <1>2

\* CodeLengths before the place decide; zeros do not.
LEMMA LastLengthKept ==
  ASSUME NEW clens, NEW other, NEW end \in Nat, NEW far \in Nat, end <= far,
         \A s \in Symbols : s < end => other[s] = clens[s],
         \A s \in Symbols : end <= s /\ s < far => other[s] = 0
  PROVE  LastLength(other, far) = LastLength(clens, end)
<1>0. \A s \in Symbols : s \in Nat
  BY Sizes
<1>1. \A s \in Symbols : (s < far /\ other[s] # 0) <=> (s < end /\ clens[s] # 0)
  BY <1>0
<1> DEFINE set == {s \in Symbols : s < end /\ clens[s] # 0}
           wide == {s \in Symbols : s < far /\ other[s] # 0}
<1>2. wide = set
  BY <1>1
<1>3. CASE set = {}
  BY <1>2, <1>3 DEF LastLength
<1>4. CASE set # {}
  <2>1. LastLength(clens, end) = clens[Max(set)]
    BY <1>4 DEF LastLength
  <2>4. LastLength(other, far) = other[Max(wide)]
    BY <1>2, <1>4 DEF LastLength
  <2>2. AlphabetSize \in Nat /\ \A y \in set : y \in 0 .. AlphabetSize
    BY Sizes
  <2>3. Max(set) \in set
    <3> HIDE DEF set
    <3> QED
      BY <1>4, <2>2, GreatestIs
  <2>5. Max(wide) = Max(set)
    <3> HIDE DEF wide, set
    <3> QED
      BY <1>2
  <2>6. other[Max(set)] = clens[Max(set)]
    BY <2>3
  <2> QED
    BY <2>1, <2>4, <2>5, <2>6
<1> QED
  BY <1>3, <1>4

LEMMA LastLengthNew ==
  ASSUME NEW clens, NEW end \in Symbols, clens[end] # 0
  PROVE  LastLength(clens, end + 1) = clens[end]
<1>0. \A s \in Symbols : s \in Nat
  BY Sizes
<1>1. end + 1 \in Nat
  BY <1>0
<1>2. PICK m \in Symbols : /\ m < end + 1 /\ LastLength(clens, end + 1) = clens[m]
                           /\ \A s \in Symbols : s < end + 1 /\ clens[s] # 0 => s <= m
  BY <1>0, <1>1, LastLengthIs
<1>3. m = end
  BY <1>0, <1>2
<1> QED
  BY <1>2, <1>3

(***************************************************************************)
(* The digits of a run.                                                    *)
(***************************************************************************)
Places(place, base, n) ==
  /\ place[0] = 1 /\ \A k \in 0 .. n : place[k] \in Nat
  /\ \A k \in 0 .. n - 1 : place[k + 1] = place[k] * base

LEMMA WeightsAre ==
  ASSUME NEW extras \in Seq(Nat), NEW n, n = Len(extras), NEW base \in Nat
  PROVE  \E place : /\ Places(place, base, n)
                    /\ Weights(extras, base) =
                         [j \in 1 .. n |-> (extras[j] - (IF j < n THEN 2 ELSE 0)) * place[n - j]]
<1> DEFINE step == [k \in 1 .. n |-> [x \in Nat |-> x * base]]
           Is(g) == g = [k \in 0 .. n |-> IF k = 0 THEN 1 ELSE g[k - 1] * base]
           chosen == CHOOSE g : Is(g)
<1>0. n \in Nat
  OBVIOUS
<1>1. step \in [1 .. n -> [Nat -> Nat]]
  OBVIOUS
<1>7. Weights(extras, base) =
        [j \in 1 .. n |-> (extras[j] - (IF j < n THEN 2 ELSE 0)) * chosen[n - j]]
  BY DEF Weights
<1>10. \A k \in 1 .. n, x \in Nat : step[k][x] = x * base
  OBVIOUS
<1> HIDE DEF step
<1>2. PICK place \in [0 .. n -> Nat] : Recurs(place, 1, step, n)
  BY <1>0, <1>1, RecursionExists
<1>3. \A k \in 1 .. n : place[k] = place[k - 1] * base
  <2> TAKE k \in 1 .. n
  <2>1. place[k - 1] \in Nat
    BY <1>0
  <2> QED
    BY <1>2, <1>10, <2>1 DEF Recurs
<1>4. Is(place)
  <2>1. place[0] = 1
    BY <1>2 DEF Recurs
  <2>2. \A k \in 0 .. n : place[k] = IF k = 0 THEN 1 ELSE place[k - 1] * base
    BY <1>0, <1>3, <2>1
  <2> QED
    BY <2>2
<1>5. Is(chosen)
  BY <1>4
<1>6. chosen[0] = 1 /\ \A k \in 1 .. n : chosen[k] = chosen[k - 1] * base
  <2> HIDE DEF chosen
  <2>1. \A k \in 0 .. n : chosen[k] = IF k = 0 THEN 1 ELSE chosen[k - 1] * base
    BY <1>5
  <2> QED
    BY <1>0, <2>1
<1> HIDE DEF chosen
<1>8. \A k \in 0 .. n - 1 : chosen[k + 1] = chosen[k] * base
  <2> TAKE k \in 0 .. n - 1
  <2>1. k + 1 \in 1 .. n /\ (k + 1) - 1 = k
    BY <1>0
  <2> QED
    BY <1>6, <2>1
<1>9. \A k \in 0 .. n : chosen[k] \in Nat
  <2> DEFINE T == {k \in 0 .. n : chosen[k] \in Nat}
  <2>1. 0 \in T
    BY <1>0, <1>6
  <2>2. ASSUME NEW k \in 0 .. n - 1, k \in T PROVE k + 1 \in T
    <3>1. chosen[k] \in Nat /\ k + 1 \in 0 .. n
      BY <1>0, <2>2
    <3>2. chosen[k] * base \in Nat
      BY <3>1
    <3> QED
      BY <1>8, <3>1, <3>2
  <2> HIDE DEF T
  <2>3. \A k \in 0 .. n : k \in T
    BY <1>0, <2>1, <2>2, UpTo
  <2> QED
    BY <2>3 DEF T
<1>11. Places(chosen, base, n)
  BY <1>6, <1>8, <1>9 DEF Places
<1> QED
  BY <1>7, <1>11

LEMMA PlacesAgree ==
  ASSUME NEW n \in Nat, NEW m \in Nat, n <= m, NEW base \in Nat, NEW place, NEW other,
         Places(place, base, n), Places(other, base, m)
  PROVE  \A k \in 0 .. n : other[k] = place[k]
<1> DEFINE T == {k \in 0 .. n : other[k] = place[k]}
<1>1. 0 \in T
  BY DEF Places
<1>2. ASSUME NEW k \in 0 .. n - 1, k \in T PROVE k + 1 \in T
  <2>1. other[k] = place[k] /\ k \in 0 .. m - 1 /\ k + 1 \in 0 .. n
    BY <1>2
  <2>2. place[k + 1] = place[k] * base /\ other[k + 1] = other[k] * base
    BY <2>1 DEF Places
  <2> QED
    BY <2>1, <2>2
<1> HIDE DEF T
<1>3. \A k \in 0 .. n : k \in T
  BY <1>1, <1>2, UpTo
<1> QED
  BY <1>3 DEF T

\* What a run covers: the digits of the extra bits.
Covered(extras, base) == Total(Weights(extras, base), Len(extras))

\* The decoder extends a run token by token, as Horner's rule does.
LEMMA RunBegins ==
  ASSUME NEW extra \in 3 .. 10, NEW base \in Nat
  PROVE  Covered(<<extra>>, base) = extra
<1> DEFINE s == <<extra>>
<1>1. s \in Seq(Nat) /\ Len(s) = 1 /\ s[1] = extra
  OBVIOUS
<1> HIDE DEF s
<1>2. PICK place : /\ Places(place, base, 1)
                   /\ Weights(s, base) = [j \in 1 .. 1 |-> (s[j] - (IF j < 1 THEN 2 ELSE 0)) * place[1 - j]]
  BY <1>1, WeightsAre
<1> DEFINE w == Weights(s, base)
<1>3. w[1] = (s[1] - 0) * place[1 - 1]
  BY <1>2
<1>4. place[1 - 1] = 1
  BY <1>2 DEF Places
<1>5. w[1] = extra
  BY <1>1, <1>3, <1>4
<1> HIDE DEF w
<1>6. PICK sum : Sums(sum, w, 1) /\ Total(w, 1) = sum[1]
  BY <1>5, TotalIs
<1>7. sum[1] = extra
  BY <1>5, <1>6 DEF Sums
<1> QED
  BY <1>1, <1>6, <1>7 DEF Covered, s, w

LEMMA RunGrows ==
  ASSUME NEW extras, extras \in Seq(3 .. 10), extras # <<>>, NEW extra \in 3 .. 10, NEW base \in Nat
  PROVE  /\ Covered(extras, base) \in Nat
         /\ Covered(Append(extras, extra), base) = extra + (Covered(extras, base) - 2) * base
<1> DEFINE n == Len(extras)
           longer == Append(extras, extra)
           f == Weights(extras, base)
           g == Weights(longer, base)
<1>0. /\ extras \in Seq(Nat) /\ longer \in Seq(Nat) /\ Len(longer) = n + 1
  OBVIOUS
<1>1. /\ n \in Nat \ {0} /\ longer[n + 1] = extra
      /\ \A j \in 1 .. n : longer[j] = extras[j] /\ extras[j] \in 3 .. 10
  OBVIOUS
<1>2. PICK place : /\ Places(place, base, n)
                   /\ f = [j \in 1 .. n |-> (extras[j] - (IF j < n THEN 2 ELSE 0)) * place[n - j]]
  BY <1>0, WeightsAre
<1>3. PICK other : /\ Places(other, base, n + 1)
                   /\ g = [j \in 1 .. n + 1 |-> (longer[j] - (IF j < n + 1 THEN 2 ELSE 0)) * other[(n + 1) - j]]
  <2> HIDE DEF n, longer
  <2> QED
    BY <1>0, WeightsAre
<1> HIDE DEF n, longer
<1> HIDE DEF f, g
<1>4. /\ \A k \in 0 .. n : other[k] = place[k]
      /\ \A k \in 0 .. n : place[k] \in Nat
  <2>1. n \in Nat /\ n + 1 \in Nat /\ n <= n + 1
    BY <1>1
  <2>2. \A k \in 0 .. n : other[k] = place[k]
    BY <1>2, <1>3, <2>1, PlacesAgree
  <2> QED
    BY <1>2, <2>2 DEF Places
<1>5. \A j \in 1 .. n - 1 : f[j] \in Nat /\ g[j] = base * f[j]
  <2> TAKE j \in 1 .. n - 1
  <2>1. n - j \in 0 .. n - 1 /\ (n + 1) - j = (n - j) + 1 /\ j \in 1 .. n /\ j \in 1 .. n + 1
        /\ j < n /\ n - j \in 0 .. n /\ n - j \in 0 .. (n + 1) - 1
    BY <1>1
  <2>2. other[(n + 1) - j] = place[n - j] * base /\ place[n - j] \in Nat
    BY <1>1, <1>2, <1>4, <2>1 DEF Places
  <2>3. f[j] = (extras[j] - 2) * place[n - j]
    BY <1>2, <2>1
  <2>4. g[j] = (extras[j] - 2) * (place[n - j] * base)
    <3>1. j < n + 1 /\ longer[j] = extras[j]
      BY <1>1, <2>1
    <3>2. g[j] = (longer[j] - 2) * other[(n + 1) - j]
      BY <1>3, <2>1, <3>1
    <3> QED
      BY <2>2, <3>1, <3>2
  <2>5. extras[j] - 2 \in Nat
    BY SMTT(30), <1>1, <2>1
  <2> DEFINE x == extras[j] - 2
             y == place[n - j]
  <2> HIDE DEF x, y
  <2>6. x \in Nat /\ y \in Nat /\ f[j] = x * y /\ g[j] = x * (y * base)
    BY <2>2, <2>3, <2>4, <2>5 DEF x, y
  <2>7. x * y \in Nat /\ x * (y * base) = base * (x * y)
    BY <2>6
  <2> QED
    BY <2>6, <2>7
<1>6. f[n] = extras[n]
  <2>1. f[n] = (extras[n] - 0) * place[n - n]
    BY <1>1, <1>2
  <2>2. place[n - n] = 1 /\ extras[n] \in Nat
    <3>1. n - n = 0 /\ extras[n] \in 3 .. 10
      BY <1>1
    <3>2. place[0] = 1
      BY <1>2 DEF Places
    <3>3. extras[n] \in Nat
      BY <3>1
    <3> QED
      BY <3>1, <3>2, <3>3
  <2> QED
    BY <2>1, <2>2
<1>7. g[n] = (extras[n] - 2) * base
  <2>1. g[n] = (extras[n] - 2) * other[(n + 1) - n]
    BY <1>1, <1>3
  <2>2. (n + 1) - n = 0 + 1 /\ 0 \in 0 .. (n + 1) - 1
    BY <1>1
  <2>3. other[(n + 1) - n] = base
    BY <1>3, <2>2 DEF Places
  <2> QED
    BY <2>1, <2>3
<1>8. g[n + 1] = extra
  <2>1. g[n + 1] = (longer[n + 1] - 0) * other[(n + 1) - (n + 1)]
    BY <1>1, <1>3
  <2>2. other[(n + 1) - (n + 1)] = 1
    BY <1>1, <1>3 DEF Places
  <2> QED
    BY <1>1, <2>1, <2>2
<1>9. extras[n] - 2 \in Nat /\ (extras[n] - 2) * base \in Nat /\ extras[n] \in Nat
  <2>1. extras[n] - 2 \in Nat /\ extras[n] \in Nat
    BY SMTT(30), <1>1
  <2> QED
    BY <2>1
<1>10. \A j \in 1 .. n : f[j] \in Nat
  BY <1>1, <1>5, <1>6, <1>9
<1>11. \A j \in 1 .. n + 1 : g[j] \in Nat
  <2>1. \A j \in 1 .. n - 1 : g[j] \in Nat
    <3> TAKE j \in 1 .. n - 1
    <3>1. base * f[j] \in Nat
      BY <1>5
    <3> QED
      BY <1>5, <3>1
  <2>2. \A j \in 1 .. n + 1 : j \in 1 .. n - 1 \/ j = n \/ j = n + 1
    BY <1>1
  <2>3. extra \in Nat
    OBVIOUS
  <2> QED
    BY <1>7, <1>8, <1>9, <2>1, <2>2, <2>3
<1>12. PICK sum : Sums(sum, f, n) /\ Total(f, n) = sum[n]
  BY <1>1, <1>10, TotalIs
<1>13. PICK more : Sums(more, g, n + 1) /\ Total(g, n + 1) = more[n + 1]
  <2>1. n + 1 \in Nat
    BY <1>1
  <2> QED
    BY <1>11, <2>1, TotalIs
<1>14. more[n - 1] = base * sum[n - 1]
  <2>1. Sums(sum, f, n - 1) /\ Sums(more, g, n - 1) /\ n - 1 \in Nat
    BY <1>1, <1>12, <1>13 DEF Sums
  <2>2. \A k \in 0 .. n - 1 : more[k] = base * sum[k]
    <3> DEFINE m == n - 1
    <3>1. /\ m \in Nat /\ Sums(sum, f, m) /\ Sums(more, g, m)
          /\ \A k \in 1 .. m : f[k] \in Nat /\ g[k] = base * f[k]
      BY <1>5, <2>1
    <3> HIDE DEF m
    <3>2. \A k \in 0 .. m : more[k] = base * sum[k]
      BY <3>1, SumsScaled
    <3> QED
      BY <3>2 DEF m
  <2> QED
    BY <2>1, <2>2
<1>15. /\ sum[n] = sum[n - 1] + extras[n] /\ sum[n - 1] \in Nat
       /\ more[n] = more[n - 1] + (extras[n] - 2) * base
       /\ more[n + 1] = more[n] + extra
  <2>1. n - 1 \in 0 .. n - 1 /\ n - 1 \in 0 .. (n + 1) - 1 /\ n \in 0 .. (n + 1) - 1 /\ (n - 1) + 1 = n
        /\ n - 1 \in 0 .. n
    BY <1>1
  <2> QED
    BY <1>6, <1>7, <1>8, <1>12, <1>13, <2>1 DEF Sums
<1>16. (sum[n] - 2) * base = base * sum[n - 1] + (extras[n] - 2) * base
  BY SMTT(30), <1>9, <1>15
<1>17. Total(g, n + 1) = extra + (Total(f, n) - 2) * base
  BY SMTT(30), <1>9, <1>12, <1>13, <1>14, <1>15, <1>16
<1>18. Total(f, n) \in Nat
  BY SMTT(30), <1>9, <1>12, <1>15
<1> QED
  BY <1>0, <1>17, <1>18 DEF Covered, n, longer, f, g

(***************************************************************************)
(* The space that lengths take.                                            *)
(***************************************************************************)
CodeLengths == [Symbols -> 0 .. MaxBits]

LEMMA ShareIs ==
  ASSUME NEW clen \in 0 .. MaxBits
  PROVE  Share(clen) = (IF clen = 0 THEN 0 ELSE Power(MaxBits - clen)) /\ Share(clen) \in Nat
<1>1. Share(clen) = IF clen = 0 THEN 0 ELSE Power(MaxBits - clen)
  BY DEF Share, Power
<1>2. clen # 0 => MaxBits - clen \in 0 .. 15
  BY Sizes
<1>3. CASE clen = 0
  BY <1>1, <1>3
<1>4. CASE clen # 0
  <2>1. Power(MaxBits - clen) \in Nat
    BY <1>2, <1>4, Powers
  <2> QED
    BY <1>1, <1>4, <2>1
<1> QED
  BY <1>3, <1>4

LEMMA TakenIs ==
  ASSUME NEW clens \in CodeLengths
  PROVE  /\ \A k \in 1 .. AlphabetSize : k - 1 \in Symbols /\ Taken(clens)[k] = Share(clens[k - 1])
         /\ \A k \in 1 .. AlphabetSize : Taken(clens)[k] \in Nat
<1>1. \A k \in 1 .. AlphabetSize : Taken(clens)[k] = Share(clens[k - 1])
  <2> TAKE k \in 1 .. AlphabetSize
  <2>1. Taken(clens)[k] = IF clens[k - 1] = 0 THEN 0 ELSE 2 ^ (MaxBits - clens[k - 1])
    BY DEF Taken
  <2> QED
    BY <2>1, Zenon DEF Share
<1>2. \A k \in 1 .. AlphabetSize : k - 1 \in Symbols
  BY Sizes
<1>3. \A k \in 1 .. AlphabetSize : clens[k - 1] \in 0 .. MaxBits
  BY <1>2 DEF CodeLengths
<1>4. \A k \in 1 .. AlphabetSize : Share(clens[k - 1]) \in Nat
  BY <1>3, ShareIs
<1> QED
  BY <1>1, <1>2, <1>4

\* CodeLengths that were zero take their share.
LEMMA TakenAfter ==
  ASSUME NEW clens \in CodeLengths, NEW other \in CodeLengths,
         NEW first \in Nat, NEW final \in Nat, first <= final, final <= AlphabetSize,
         NEW length \in 0 .. MaxBits,
         \A s \in Symbols : s \in first .. final - 1 => clens[s] = 0 /\ other[s] = length,
         \A s \in Symbols : ~ (s \in first .. final - 1) => other[s] = clens[s]
  PROVE  /\ Total(Taken(clens), AlphabetSize) \in Nat
         /\ Total(Taken(other), AlphabetSize)
              = Total(Taken(clens), AlphabetSize) + (final - first) * Share(length)
<1> DEFINE f == Taken(clens)
           g == Taken(other)
           n == AlphabetSize
           c == Share(length)
<1>1. n \in Nat /\ c \in Nat /\ Share(0) = 0 /\ final <= n
  BY ShareIs, Sizes
<1>2. /\ \A k \in 1 .. n : k - 1 \in Symbols /\ f[k] = Share(clens[k - 1])
      /\ \A k \in 1 .. n : g[k] = Share(other[k - 1])
  BY TakenIs
<1>9. /\ \A k \in 1 .. n : f[k] \in Nat
      /\ \A k \in 1 .. n : g[k] \in Nat
  BY TakenIs
<1>3. \A k \in 1 .. n : k \in first + 1 .. final => f[k] = 0 /\ g[k] = c
  <2> SUFFICES ASSUME NEW k \in 1 .. n, k \in first + 1 .. final PROVE f[k] = 0 /\ g[k] = c
    OBVIOUS
  <2> HIDE DEF f, g, c
  <2>3. k - 1 \in Symbols
    BY <1>2
  <2>4. k - 1 \in first .. final - 1
    BY <1>1
  <2>1. k - 1 \in Symbols /\ k - 1 \in first .. final - 1
    BY <2>3, <2>4
  <2>2. clens[k - 1] = 0 /\ other[k - 1] = length
    BY <2>1
  <2> QED
    BY <1>1, <1>2, <2>2 DEF c
<1>4. \A k \in 1 .. n : ~ (k \in first + 1 .. final) => g[k] = f[k]
  <2> SUFFICES ASSUME NEW k \in 1 .. n, ~ (k \in first + 1 .. final) PROVE g[k] = f[k]
    OBVIOUS
  <2> HIDE DEF f, g, c
  <2>1. k - 1 \in Symbols /\ ~ (k - 1 \in first .. final - 1)
    BY <1>1, <1>2
  <2>2. other[k - 1] = clens[k - 1]
    BY <2>1
  <2> QED
    BY <1>2, <2>2
<1> HIDE DEF f, g, n, c
<1>5. PICK sum : Sums(sum, f, n) /\ Total(f, n) = sum[n]
  BY <1>1, <1>9, TotalIs
<1>6. PICK more : Sums(more, g, n) /\ Total(g, n) = more[n]
  BY <1>1, <1>9, TotalIs
<1>7. more[n] = sum[n] + (final - first) * c
  <2>1. FilledTerms(f, g, n, c, first, final)
    BY <1>1, <1>3, <1>4, <1>9 DEF FilledTerms
  <2> QED
    BY <1>5, <1>6, <2>1, SumsFilled
<1>8. sum[n] \in Nat
  BY <1>1, <1>5 DEF Sums
<1> QED
  BY <1>5, <1>6, <1>7, <1>8 DEF f, g, n, c

(***************************************************************************)
(* What the reader keeps.                                                  *)
(***************************************************************************)
Base(kind) == IF kind = Copy16 THEN 4 ELSE 8
RunRepl(clens, r) == IF r.kind = Copy16 THEN LastLength(clens, r.first) ELSE 0

\* CodeLengths are given to the symbols one after the other.
Ahead ==
  \A s \in Symbols : codeLength[s] # 0 => s < index /\ stage \in {"tokens", "complex", "violation"}

\* A space that shrank was taken by some kind of token.
KindsInv ==
  /\ stage = "head" => \A k \in Kinds : symbolLength[k] = 0
  /\ stage = "kinds" =>
       /\ space = 32 \/ \E k \in Kinds : symbolLength[k] # 0
       /\ \A i \in 1 .. Len(ComplexSymbol) : symbolLength[ComplexSymbol[i]] # 0 => i <= index

\* What the decoder remembers of the lengths it read.
RepeatInv ==
  /\ repeat = 0 \/ repeat >= 3
  /\ prevclen = LastLength(codeLength, index)
  /\ \/ run = NoRun
     \/ /\ run \in [kind : {Copy16, Zero17}, extras : Seq(3 .. 10), first : Nat]
        /\ run.extras # <<>> /\ stage \notin {"head", "kinds"}
  /\ stage # "violation" =>
       IF run = NoRun THEN repeat = 0
       ELSE /\ repeat >= 3 /\ repeat = Covered(run.extras, Base(run.kind))
            /\ prevrepl = RunRepl(codeLength, run)
            /\ index <= AlphabetSize

TreeInv == stage = "complex" => tree = CreateHuffman(codeLength)

ReadInv == PcTypeOK /\ Ahead /\ KindsInv /\ SpaceIsLeft /\ RepeatInv /\ RunLength /\ TreeInv

\* No lengths, nothing taken.
LEMMA TakenOfNone ==
  ASSUME NEW clens \in CodeLengths, \A s \in Symbols : clens[s] = 0
  PROVE  Total(Taken(clens), AlphabetSize) = 0
<1> DEFINE f == Taken(clens)
           n == AlphabetSize
<1>1. n \in Nat /\ Share(0) = 0
  BY ShareIs, Sizes
<1>2. \A k \in 1 .. n : f[k] = 0
  BY <1>1, TakenIs
<1> HIDE DEF f, n
<1>3. \A k \in 1 .. n : f[k] \in Nat
  BY <1>2
<1>4. PICK sum : Sums(sum, f, n) /\ Total(f, n) = sum[n]
  BY <1>1, <1>3, TotalIs
<1> DEFINE T == {k \in 0 .. n : sum[k] = 0}
<1>5. 0 \in T
  BY <1>1, <1>4 DEF Sums
<1>6. ASSUME NEW k \in 0 .. n - 1, k \in T PROVE k + 1 \in T
  BY <1>1, <1>2, <1>4, <1>6 DEF Sums
<1> HIDE DEF T
<1>7. \A k \in 0 .. n : k \in T
  BY <1>1, <1>5, <1>6, UpTo
<1>8. sum[n] = 0
  BY <1>1, <1>7 DEF T
<1> QED
  BY <1>4, <1>8 DEF f, n

(***************************************************************************)
(* The steps of the reader.                                                *)
(***************************************************************************)

\* A code returns symbols that have a length.
LEMMA HuffmanRange ==
  ASSUME NEW clens, NEW b \in Nat, \A s \in DOMAIN clens : s \in 0 .. b,
         \E k \in DOMAIN clens : clens[k] # 0
  PROVE  Range(CreateHuffman(clens)) \subseteq {s \in DOMAIN clens : clens[s] # 0}
<1> DEFINE coded == {s \in DOMAIN clens : clens[s] # 0}
           count == [l \in 0 .. 15 |-> Cardinality({s \in coded : clens[s] = l})]
           offset == Offsets(count)
           Rank(s) == Cardinality({r \in coded : r < s /\ clens[r] = clens[s]})
           path == [s \in coded |-> Bits(offset[clens[s]] + Rank(s), clens[s])]
<1>1. coded # {}
  OBVIOUS
<1>2. CreateHuffman(clens) = IF Cardinality(coded) = 1 THEN Single(CHOOSE s \in coded : TRUE)
                             ELSE PathsTo(path)
  BY <1>1 DEF CreateHuffman
<1>3. DOMAIN path = coded
  OBVIOUS
<1>4. \A s \in coded : s \in 0 .. b
  OBVIOUS
<1> HIDE DEF coded, path
<1>5. Range(Single(CHOOSE s \in coded : TRUE)) \subseteq coded
  BY <1>1 DEF Single, Range
<1>6. Range(PathsTo(path)) \subseteq coded
  <2> SUFFICES ASSUME NEW p \in Range(path) PROVE Max({s \in coded : path[s] = p}) \in coded
    BY <1>3 DEF PathsTo, Range
  <2> DEFINE set == {s \in coded : path[s] = p}
  <2>1. set # {}
    BY <1>3 DEF Range
  <2>2. \A s \in set : s \in 0 .. b
    BY <1>4
  <2>3. set \subseteq coded
    OBVIOUS
  <2> HIDE DEF set
  <2>4. Max(set) \in set
    BY <2>1, <2>2, GreatestIs
  <2> QED
    BY <2>3, <2>4 DEF set
<1> QED
  BY <1>2, <1>5, <1>6 DEF coded

LEMMA KindsAre ==
  /\ Len(ComplexSymbol) \in Nat
  /\ \A i \in 1 .. Len(ComplexSymbol) : ComplexSymbol[i] \in Kinds
  /\ \A k \in Kinds : \E i \in 1 .. Len(ComplexSymbol) : k = ComplexSymbol[i]
  /\ \A i, j \in 1 .. Len(ComplexSymbol) : ComplexSymbol[i] = ComplexSymbol[j] => i = j
  /\ \A k \in Kinds : k \in 0 .. MaxBits \/ k = 16 \/ k = 17
<1>1. ComplexSymbol \in Seq(0 .. MaxBits \cup {16, 17}) /\ IsInjective(ComplexSymbol)
  BY PrefixAssumption
<1>2. DOMAIN ComplexSymbol = 1 .. Len(ComplexSymbol) /\ Len(ComplexSymbol) \in Nat
  BY <1>1
<1>3. \A i \in 1 .. Len(ComplexSymbol) : ComplexSymbol[i] \in 0 .. MaxBits \cup {16, 17}
  BY <1>1
<1>4. \A i, j \in 1 .. Len(ComplexSymbol) : ComplexSymbol[i] = ComplexSymbol[j] => i = j
  BY <1>1, <1>2 DEF IsInjective
<1> QED
  BY <1>2, <1>3, <1>4 DEF Kinds, Range

\* A repeat token makes a run longer.
LEMMA GrowsBy ==
  ASSUME NEW before \in Nat, before = 0 \/ before >= 3, NEW clen \in {Copy16, Zero17},
         NEW extra \in 3 .. 10
  PROVE  /\ Grown(before, clen, extra)
              = (IF before = 0 THEN extra ELSE extra + (before - 2) * Base(clen))
         /\ Grown(before, clen, extra) \in Nat
         /\ Grown(before, clen, extra) - before \in Nat \ {0} /\ Grown(before, clen, extra) >= 3
<1>1. CASE clen = 16
  <2>1. 2 ^ (clen - 14) = 4
    BY <1>1
  <2>2. Base(clen) = 4
    BY <1>1 DEF Base, Copy16
  <2>3. Grown(before, clen, extra) = extra + (IF before = 0 THEN 0 ELSE (before - 2) * 4)
    BY <2>1 DEF Grown
  <2> QED
    BY <2>2, <2>3
<1>2. CASE clen = 17
  <2>1. 2 ^ (clen - 14) = 8
    BY <1>2
  <2>2. Base(clen) = 8
    BY <1>2 DEF Base, Copy16
  <2>3. Grown(before, clen, extra) = extra + (IF before = 0 THEN 0 ELSE (before - 2) * 8)
    BY <2>1 DEF Grown
  <2> QED
    BY <2>2, <2>3
<1> QED
  BY <1>1, <1>2 DEF Copy16, Zero17

LEMMA LastLengthType ==
  ASSUME NEW clens \in CodeLengths, NEW end \in Nat
  PROVE  LastLength(clens, end) \in 1 .. MaxBits
<1>1. \A m \in Symbols : clens[m] # 0 => clens[m] \in 1 .. MaxBits
  BY DEF CodeLengths
<1> QED
  BY <1>1, LastLengthIs, Sizes

LEMMA ReadInit ==
  ASSUME PcInit
  PROVE  ReadInv
<1>1. codeLength \in CodeLengths /\ \A s \in Symbols : codeLength[s] = 0
  BY Sizes DEF PcInit, CodeLengths
<1>2. LastLength(codeLength, 0) = FirstLength
  <2>1. 0 \in Nat
    OBVIOUS
  <2> QED
    BY <1>1, <2>1, LastLengthIs
<1>3. PcTypeOK
  BY <1>1, Sizes DEF PcInit, PcTypeOK, CodeLengths
<1>4. Ahead
  BY <1>1 DEF Ahead
<1>5. KindsInv
  BY DEF PcInit, KindsInv
<1>6. SpaceIsLeft /\ RunLength /\ TreeInv
  BY DEF PcInit, SpaceIsLeft, RunLength, TreeInv
<1>7. RepeatInv
  BY <1>2 DEF PcInit, RepeatInv
<1> QED
  BY <1>3, <1>4, <1>5, <1>6, <1>7 DEF ReadInv

LEMMA ReadSimple ==
  ASSUME ReadInv, Simple
  PROVE  ReadInv'
<1>1. /\ stage = "head" /\ stage' = "simple"
      /\ UNCHANGED <<index, symbolLength, usable, codeLength, space, repeat, prevclen, prevrepl,
                     literals, run>>
  BY DEF Simple
<1>2. PcTypeOK' /\ Ahead' /\ KindsInv' /\ SpaceIsLeft' /\ RunLength' /\ TreeInv'
  BY <1>1 DEF ReadInv, PcTypeOK, Ahead, KindsInv, SpaceIsLeft, RunLength, TreeInv
<1>3. RepeatInv'
  BY <1>1 DEF ReadInv, RepeatInv
<1> QED
  BY <1>2, <1>3 DEF ReadInv

LEMMA ReadComplex ==
  ASSUME ReadInv, Complex
  PROVE  ReadInv'
<1>1. /\ stage = "head" /\ stage' = "kinds" /\ space' = 32 /\ index' \in Nat
      /\ UNCHANGED <<symbolLength, usable, codeLength, repeat, prevclen, prevrepl, tree, literals, run>>
  BY DEF Complex
<1>2. \A s \in Symbols : codeLength[s] = 0
  BY <1>1 DEF ReadInv, Ahead
<1>3. PcTypeOK'
  BY <1>1, Sizes DEF ReadInv, PcTypeOK
<1>4. Ahead' /\ SpaceIsLeft' /\ TreeInv'
  BY <1>1, <1>2 DEF Ahead, SpaceIsLeft, TreeInv
<1>5. KindsInv'
  BY <1>1, KindsAre DEF ReadInv, KindsInv
<1>6. run = NoRun
  BY <1>1 DEF ReadInv, RepeatInv
<1>7. RunLength'
  BY <1>1, <1>6 DEF RunLength
<1>8. prevclen = LastLength(codeLength, index')
  <2>1. prevclen = LastLength(codeLength, index) /\ index \in Nat
    BY DEF ReadInv, RepeatInv, PcTypeOK
  <2>2. LastLength(codeLength, index) = FirstLength /\ LastLength(codeLength, index') = FirstLength
    BY <1>1, <1>2, <2>1, LastLengthIs
  <2> QED
    BY <2>1, <2>2
<1>9. RepeatInv'
  BY <1>1, <1>6, <1>8 DEF ReadInv, RepeatInv
<1> QED
  BY <1>3, <1>4, <1>5, <1>7, <1>9 DEF ReadInv

LEMMA ReadSymbolLength ==
  ASSUME ReadInv, SymbolLength
  PROVE  ReadInv'
<1> DEFINE k == ComplexSymbol[index + 1]
<1>1. /\ stage = "kinds" /\ index < Len(ComplexSymbol) /\ index \in Nat /\ stage' = stage
      /\ index' = index + 1
      /\ UNCHANGED <<usable, codeLength, repeat, prevclen, prevrepl, tree, literals, run>>
  BY DEF SymbolLength, ReadInv, PcTypeOK
<1>2. PICK symlen \in 0 .. 5 :
        /\ symbolLength' = [symbolLength EXCEPT ![k] = symlen]
        /\ space' = IF symlen = 0 THEN space ELSE Less(32 \div 2 ^ symlen)
  BY DEF SymbolLength
<1>3. index + 1 \in 1 .. Len(ComplexSymbol) /\ k \in Kinds
  BY <1>1, KindsAre
<1>4. symbolLength \in [Kinds -> 0 .. 5]
  BY DEF ReadInv, PcTypeOK
<1> HIDE DEF k
<1>5. /\ symbolLength' \in [Kinds -> 0 .. 5] /\ symbolLength'[k] = symlen
      /\ \A j \in Kinds : j # k => symbolLength'[j] = symbolLength[j]
  BY <1>2, <1>3, <1>4
<1>6. space' \in 0 .. DwordRange - 1
  <2>1. CASE symlen = 0
    BY <1>2, <2>1 DEF ReadInv, PcTypeOK
  <2>2. CASE symlen # 0
    <3> DEFINE amount == 32 \div 2 ^ symlen
    <3>1. amount \in Nat
      <4>1. symlen \in {1, 2, 3, 4, 5}
        BY <2>2
      <4>2. 32 \div 2 ^ 1 \in Nat /\ 32 \div 2 ^ 2 \in Nat /\ 32 \div 2 ^ 3 \in Nat
            /\ 32 \div 2 ^ 4 \in Nat /\ 32 \div 2 ^ 5 \in Nat
        OBVIOUS
      <4> QED
        BY <4>1, <4>2
    <3>2. space' = Less(amount)
      BY <1>2, <2>2
    <3> HIDE DEF amount
    <3>3. space \in 0 .. DwordRange - 1 /\ DwordRange \in Nat \ {0}
      BY Sizes DEF ReadInv, PcTypeOK
    <3>4. amount % DwordRange \in 0 .. DwordRange - 1
      BY <3>1, <3>3, DivMod
    <3>5. space + DwordRange - (amount % DwordRange) \in Nat
      BY <3>3, <3>4
    <3>6. Less(amount) \in 0 .. DwordRange - 1
      BY <3>3, <3>5, DivMod DEF Less
    <3> QED
      BY <3>2, <3>6
  <2> QED
    BY <2>1, <2>2
<1>7. PcTypeOK'
  BY <1>1, <1>5, <1>6 DEF ReadInv, PcTypeOK
<1>8. \A s \in Symbols : codeLength[s] = 0
  BY <1>1 DEF ReadInv, Ahead
<1>9. Ahead' /\ SpaceIsLeft' /\ TreeInv'
  BY <1>1, <1>8 DEF Ahead, SpaceIsLeft, TreeInv
<1>10. symbolLength[k] = 0
  <2>1. symbolLength[k] # 0 => index + 1 <= index
    BY <1>1, <1>3 DEF ReadInv, KindsInv, k
  <2> QED
    BY <1>1, <2>1
<1>11. KindsInv'
  <2>1. space' = 32 \/ \E j \in Kinds : symbolLength'[j] # 0
    <3>1. CASE symlen = 0
      BY <1>1, <1>2, <1>5, <1>10, <3>1 DEF ReadInv, KindsInv
    <3>2. CASE symlen # 0
      BY <1>3, <1>5, <3>2
    <3> QED
      BY <3>1, <3>2
  <2>2. ASSUME NEW i \in 1 .. Len(ComplexSymbol), symbolLength'[ComplexSymbol[i]] # 0
        PROVE  i <= index + 1
    <3>1. CASE ComplexSymbol[i] = k
      BY <1>1, <1>3, <3>1, KindsAre DEF k
    <3>2. CASE ComplexSymbol[i] # k
      <4>1. symbolLength[ComplexSymbol[i]] # 0
        BY <1>5, <2>2, <3>2, KindsAre
      <4>2. i <= index
        BY <1>1, <4>1 DEF ReadInv, KindsInv
      <4> QED
        BY <1>1, <4>2, KindsAre
    <3> QED
      BY <3>1, <3>2
  <2> QED
    BY <1>1, <2>1, <2>2 DEF KindsInv
<1>12. run = NoRun
  BY <1>1 DEF ReadInv, RepeatInv
<1>13. prevclen = LastLength(codeLength, index + 1)
  <2>1. prevclen = LastLength(codeLength, index) /\ index + 1 \in Nat
    BY <1>1 DEF ReadInv, RepeatInv
  <2>2. LastLength(codeLength, index) = FirstLength /\ LastLength(codeLength, index + 1) = FirstLength
    BY <1>1, <1>8, <2>1, LastLengthIs
  <2> QED
    BY <2>1, <2>2
<1>14. RepeatInv' /\ RunLength'
  BY <1>1, <1>12, <1>13 DEF ReadInv, RepeatInv, RunLength
<1> QED
  BY <1>7, <1>9, <1>11, <1>14 DEF ReadInv

LEMMA ReadKinds ==
  ASSUME ReadInv, KindsRead
  PROVE  ReadInv'
<1> DEFINE nsym == Cardinality({k \in Kinds : symbolLength[k] # 0})
<1>1. /\ stage = "kinds" /\ symbolLength' = [k \in Kinds |-> 0]
      /\ UNCHANGED <<codeLength, repeat, prevclen, prevrepl, tree, literals, run>>
      /\ \/ /\ stage' = "violation" /\ UNCHANGED <<usable, space, index>>
         \/ /\ space = 0 \/ nsym = 1
            /\ usable' = Range(CreateHuffman(symbolLength))
            /\ space' = 2 ^ MaxBits /\ index' = 0 /\ stage' = "tokens"
  BY DEF KindsRead
<1>2. \A s \in Symbols : codeLength[s] = 0
  BY <1>1 DEF ReadInv, Ahead
<1>3. codeLength \in CodeLengths
  BY DEF ReadInv, PcTypeOK, CodeLengths
<1>4. run = NoRun
  BY <1>1 DEF ReadInv, RepeatInv
<1>5. symbolLength' \in [Kinds -> 0 .. 5]
  BY <1>1
<1>6. CASE stage' = "violation" /\ UNCHANGED <<usable, space, index>>
  <2>1. PcTypeOK'
    BY <1>1, <1>5, <1>6 DEF ReadInv, PcTypeOK
  <2>2. Ahead' /\ KindsInv' /\ SpaceIsLeft' /\ TreeInv' /\ RunLength'
    BY <1>1, <1>2, <1>4, <1>6 DEF Ahead, KindsInv, SpaceIsLeft, TreeInv, RunLength
  <2>3. RepeatInv'
    BY <1>1, <1>4, <1>6 DEF ReadInv, RepeatInv
  <2> QED
    BY <2>1, <2>2, <2>3 DEF ReadInv
<1>7. CASE /\ space = 0 \/ nsym = 1
           /\ usable' = Range(CreateHuffman(symbolLength))
           /\ space' = 2 ^ MaxBits /\ index' = 0 /\ stage' = "tokens"
  <2>1. \E k \in Kinds : symbolLength[k] # 0
    <3>1. CASE space = 0
      BY <1>1, <3>1 DEF ReadInv, KindsInv
    <3>2. CASE nsym = 1
      <4>1. SUFFICES ASSUME {k \in Kinds : symbolLength[k] # 0} = {} PROVE FALSE
        OBVIOUS
      <4>2. nsym = 0
        BY <4>1, FS_EmptySet
      <4> QED
        BY <3>2, <4>2
    <3> QED
      BY <1>7, <3>1, <3>2
  <2>2. usable' \subseteq Kinds
    <3>1. DOMAIN symbolLength = Kinds
      BY DEF ReadInv, PcTypeOK
    <3>2. \A k \in Kinds : k \in 0 .. 17
      <4>1. MaxBits \in 0 .. 15 /\ \A k \in Kinds : k \in 0 .. MaxBits \/ k = 16 \/ k = 17
        BY KindsAre, Sizes
      <4> QED
        BY <4>1
    <3>3. Range(CreateHuffman(symbolLength)) \subseteq {k \in DOMAIN symbolLength : symbolLength[k] # 0}
      BY <2>1, <3>1, <3>2, HuffmanRange
    <3> QED
      BY <1>7, <3>1, <3>3
  <2>3. space' = Power(MaxBits) /\ Power(MaxBits) \in 0 .. DwordRange - 1
    <3>1. space' = Power(MaxBits)
      BY <1>7, Zenon DEF Power
    <3>2. MaxBits \in 0 .. 15 /\ DwordRange > 32768 /\ DwordRange \in Nat
      BY Sizes
    <3>3. Power(MaxBits) \in Nat /\ Power(MaxBits) <= 32768
      BY <3>2, Powers
    <3> QED
      BY <3>1, <3>2, <3>3
  <2>4. PcTypeOK'
    BY <1>1, <1>5, <1>7, <2>2, <2>3 DEF ReadInv, PcTypeOK
  <2>5. Ahead' /\ KindsInv' /\ TreeInv' /\ RunLength'
    BY <1>1, <1>2, <1>4, <1>7 DEF Ahead, KindsInv, TreeInv, RunLength
  <2>6. prevclen = LastLength(codeLength, 0)
    <3>1. prevclen = LastLength(codeLength, index) /\ index \in Nat /\ 0 \in Nat
      BY DEF ReadInv, RepeatInv, PcTypeOK
    <3>2. LastLength(codeLength, index) = FirstLength /\ LastLength(codeLength, 0) = FirstLength
      BY <1>2, <3>1, LastLengthIs
    <3> QED
      BY <3>1, <3>2
  <2>7. RepeatInv'
    BY <1>1, <1>4, <1>7, <2>6 DEF ReadInv, RepeatInv
  <2>8. SpaceIsLeft'
    <3>1. Total(Taken(codeLength), AlphabetSize) = 0
      BY <1>2, <1>3, TakenOfNone
    <3>2. (Power(MaxBits) + 0) % DwordRange = Power(MaxBits)
      <4>1. Power(MaxBits) + 0 = DwordRange * 0 + Power(MaxBits) /\ Power(MaxBits) + 0 \in Nat
        BY <2>3, Sizes
      <4> QED
        BY <2>3, <4>1, Sizes, Quotient
    <3>3. (space' + Total(Taken(codeLength), AlphabetSize)) % DwordRange = Power(MaxBits)
      BY <2>3, <3>1, <3>2
    <3>4. (space' + Total(Taken(codeLength), AlphabetSize)) % DwordRange = 2 ^ MaxBits
      BY <3>3, Zenon DEF Power
    <3> QED
      BY <1>1, <3>4, Zenon DEF SpaceIsLeft
  <2> QED
    BY <2>4, <2>5, <2>7, <2>8 DEF ReadInv
<1> QED
  BY <1>1, <1>6, <1>7

\* Reading lengths for the symbols between two places.
LEMMA ReadOn ==
  ASSUME ReadInv, stage = "tokens", NEW final \in Nat, index <= final, final <= AlphabetSize,
         NEW length \in 0 .. MaxBits,
         \A s \in Symbols : s \in index .. final - 1 => codeLength'[s] = length,
         \A s \in Symbols : ~ (s \in index .. final - 1) => codeLength'[s] = codeLength[s],
         codeLength' \in CodeLengths, space' = Less((final - index) * Share(length)),
         stage' = "tokens", index' = final
  PROVE  /\ space' \in 0 .. DwordRange - 1 /\ SpaceIsLeft' /\ Ahead'
         /\ \A end \in Nat : end <= index => LastLength(codeLength', end) = LastLength(codeLength, end)
         /\ LastLength(codeLength', final)
              = IF length = 0 \/ final = index THEN LastLength(codeLength, index) ELSE length
<1>1. /\ codeLength \in CodeLengths /\ index \in Nat /\ space \in 0 .. DwordRange - 1
      /\ DwordRange \in Nat \ {0} /\ Share(length) \in Nat
  BY SMTT(30), ShareIs, Sizes DEF ReadInv, PcTypeOK, CodeLengths
<1>2. \A s \in Symbols : s \in Nat
  BY Sizes
<1>3. \A s \in Symbols : index <= s => codeLength[s] = 0
  BY <1>1, <1>2 DEF ReadInv, Ahead
<1>4. \A s \in Symbols : s \in index .. final - 1 => codeLength[s] = 0 /\ codeLength'[s] = length
  BY <1>1, <1>2, <1>3
<1> DEFINE amount == (final - index) * Share(length)
           taken == Total(Taken(codeLength), AlphabetSize)
           after == Total(Taken(codeLength'), AlphabetSize)
<1>5. taken \in Nat /\ after = taken + amount
  BY SMTT(30), <1>1, <1>4, TakenAfter
<1>6. amount \in Nat
  BY <1>1
<1>7. space' = (space + DwordRange - (amount % DwordRange)) % DwordRange
  BY DEF Less
<1> HIDE DEF amount, taken, after
<1>8. space' \in 0 .. DwordRange - 1 /\ (space' + (taken + amount)) % DwordRange = (space + taken) % DwordRange
  BY <1>1, <1>5, <1>6, <1>7, LessIs
<1>9. SpaceIsLeft'
  <2>1. (space + taken) % DwordRange = 2 ^ MaxBits
    BY Zenon DEF ReadInv, SpaceIsLeft, taken
  <2>2. (space' + after) % DwordRange = 2 ^ MaxBits
    BY <1>5, <1>8, <2>1, Zenon
  <2> QED
    BY <2>2, Zenon DEF SpaceIsLeft, after
<1>10. Ahead'
  <2> SUFFICES ASSUME NEW s \in Symbols, codeLength'[s] # 0 PROVE s < final
    BY DEF Ahead
  <2>1. CASE s \in index .. final - 1
    BY <1>1, <1>2, <2>1
  <2>2. CASE ~ (s \in index .. final - 1)
    <3>1. codeLength[s] # 0
      BY <2>2
    <3>2. s < index
      BY <3>1 DEF ReadInv, Ahead
    <3> QED
      BY <1>1, <1>2, <3>2
  <2> QED
    BY <2>1, <2>2
<1>11. ASSUME NEW end \in Nat, end <= index
       PROVE  LastLength(codeLength', end) = LastLength(codeLength, end)
  <2>1. \A s \in Symbols : s < end => codeLength'[s] = codeLength[s]
    BY <1>1, <1>2, <1>11
  <2>2. \A s \in Symbols : end <= s /\ s < end => codeLength'[s] = 0
    BY <1>2
  <2>3. end <= end
    OBVIOUS
  <2> QED
    BY <2>1, <2>2, <2>3, LastLengthKept
<1>12. CASE length = 0 \/ final = index
  <2>1. \A s \in Symbols : s < index => codeLength'[s] = codeLength[s]
    BY <1>1, <1>2
  <2>2. \A s \in Symbols : index <= s /\ s < final => codeLength'[s] = 0
    BY <1>1, <1>2, <1>12
  <2>3. LastLength(codeLength', final) = LastLength(codeLength, index)
    BY <1>1, <2>1, <2>2, LastLengthKept
  <2> QED
    BY <1>8, <1>9, <1>10, <1>11, <1>12, <2>3
<1>13. CASE ~ (length = 0 \/ final = index)
  <2> DEFINE end == final - 1
  <2>1. end \in Symbols /\ end \in index .. final - 1 /\ end + 1 = final
    BY <1>1, <1>13, Sizes
  <2> HIDE DEF end
  <2>2. codeLength'[end] = length /\ codeLength'[end] # 0
    BY <1>13, <2>1
  <2>3. LastLength(codeLength', final) = length
    BY <2>1, <2>2, LastLengthNew
  <2> QED
    BY <1>8, <1>9, <1>10, <1>11, <1>13, <2>3
<1> QED
  BY <1>12, <1>13

LEMMA ReadLiteral ==
  ASSUME ReadInv, Literal
  PROVE  ReadInv'
<1>1. PICK clen \in usable \ {Copy16, Zero17} :
        /\ codeLength' = [codeLength EXCEPT ![index] = clen]
        /\ space' = Less(Share(clen))
        /\ prevclen' = Last(clen)
  BY DEF Literal
<1>2. /\ stage = "tokens" /\ stage' = "tokens" /\ index \in Nat /\ index < AlphabetSize
      /\ index' = index + 1 /\ repeat' = 0 /\ run' = NoRun
      /\ UNCHANGED <<symbolLength, usable, prevrepl, tree>>
  BY DEF Literal, More, ReadInv, PcTypeOK
<1>3. clen \in 0 .. MaxBits
  BY <1>1, KindsAre DEF ReadInv, PcTypeOK, Copy16, Zero17
<1>4. codeLength \in CodeLengths /\ index \in Symbols /\ AlphabetSize \in Nat
  BY <1>2, Sizes DEF ReadInv, PcTypeOK, CodeLengths
<1> DEFINE final == index + 1
<1>5. /\ \A s \in Symbols : s \in index .. final - 1 => codeLength'[s] = clen
      /\ \A s \in Symbols : ~ (s \in index .. final - 1) => codeLength'[s] = codeLength[s]
      /\ codeLength' \in CodeLengths
  BY <1>1, <1>2, <1>3, <1>4 DEF CodeLengths
<1>6. final \in Nat /\ index <= final /\ final <= AlphabetSize /\ index' = final /\ final # index
  BY <1>2, <1>4
<1>7. space' = Less((final - index) * Share(clen))
  <2>1. Share(clen) \in Nat
    BY <1>3, ShareIs
  <2>2. (final - index) * Share(clen) = Share(clen)
    BY <1>2, <2>1
  <2> QED
    BY <1>1, <2>2
<1> HIDE DEF final
<1>8. /\ space' \in 0 .. DwordRange - 1 /\ SpaceIsLeft' /\ Ahead'
      /\ LastLength(codeLength', final) = IF clen = 0 THEN LastLength(codeLength, index) ELSE clen
  BY <1>2, <1>3, <1>5, <1>6, <1>7, ReadOn
<1>9. prevclen' = LastLength(codeLength', final) /\ prevclen' \in 1 .. MaxBits
  BY <1>1, <1>3, <1>8 DEF Last, ReadInv, RepeatInv, PcTypeOK
<1>10. PcTypeOK'
  BY <1>2, <1>5, <1>6, <1>8, <1>9 DEF ReadInv, PcTypeOK, CodeLengths
<1>11. KindsInv' /\ TreeInv' /\ RunLength'
  BY <1>2 DEF KindsInv, TreeInv, RunLength
<1>12. RepeatInv'
  BY <1>2, <1>6, <1>9 DEF RepeatInv
<1> QED
  BY <1>8, <1>10, <1>11, <1>12 DEF ReadInv

LEMMA ReadBuilt ==
  ASSUME ReadInv, Built
  PROVE  ReadInv'
<1>1. /\ stage = "tokens" /\ stage' = "complex" /\ tree' = CreateHuffman(codeLength)
      /\ UNCHANGED <<index, symbolLength, usable, codeLength, space, repeat, prevclen, prevrepl,
                     literals, run>>
  BY DEF Built
<1>2. PcTypeOK'
  BY <1>1 DEF ReadInv, PcTypeOK
<1>3. Ahead' /\ KindsInv' /\ RunLength' /\ TreeInv'
  BY <1>1 DEF ReadInv, Ahead, KindsInv, RunLength, TreeInv
<1>4. SpaceIsLeft'
  BY <1>1, Zenon DEF ReadInv, SpaceIsLeft
<1>5. RepeatInv'
  BY <1>1 DEF ReadInv, RepeatInv
<1> QED
  BY <1>2, <1>3, <1>4, <1>5 DEF ReadInv

\* A repeat token goes on with the run it belongs to, or begins one.
LEMMA ReadRepeat ==
  ASSUME ReadInv, Repeat
  PROVE  ReadInv'
<1>0. PICK clen \in usable \cap {Copy16, Zero17} :
      \E extra \in 3 .. (IF clen = Copy16 THEN 6 ELSE 10) :
        LET repclen == IF clen = Copy16 THEN prevclen ELSE 0
            after == Grown(Carried(repclen), clen, extra)
            delta == after - Carried(repclen)
        IN /\ repeat' = after
           /\ prevrepl' = repclen
           /\ IF index + delta > AlphabetSize
              THEN /\ stage' = "violation"
                   /\ UNCHANGED <<codeLength, space, index, run>>
              ELSE /\ codeLength' = Filled(repclen, delta)
                   /\ space' = Less(delta * Share(repclen))
                   /\ index' = index + delta
                   /\ run' = IF clen = run.kind THEN [run EXCEPT !.extras = Append(@, extra)]
                             ELSE [kind |-> clen, extras |-> <<extra>>, first |-> index]
                   /\ UNCHANGED stage
  BY Zenon DEF Repeat
<1>1. PICK extra \in 3 .. (IF clen = Copy16 THEN 6 ELSE 10) :
        LET repclen == IF clen = Copy16 THEN prevclen ELSE 0
            after == Grown(Carried(repclen), clen, extra)
            delta == after - Carried(repclen)
        IN /\ repeat' = after
           /\ prevrepl' = repclen
           /\ IF index + delta > AlphabetSize
              THEN /\ stage' = "violation"
                   /\ UNCHANGED <<codeLength, space, index, run>>
              ELSE /\ codeLength' = Filled(repclen, delta)
                   /\ space' = Less(delta * Share(repclen))
                   /\ index' = index + delta
                   /\ run' = IF clen = run.kind THEN [run EXCEPT !.extras = Append(@, extra)]
                             ELSE [kind |-> clen, extras |-> <<extra>>, first |-> index]
                   /\ UNCHANGED stage
  BY <1>0
<1> DEFINE repclen == IF clen = Copy16 THEN prevclen ELSE 0
           carried == Carried(repclen)
           after == Grown(carried, clen, extra)
           delta == after - carried
           final == index + delta
           longer == [run EXCEPT !.extras = Append(@, extra)]
           begun == [kind |-> clen, extras |-> <<extra>>, first |-> index]
<1>2. /\ repeat' = after /\ prevrepl' = repclen
      /\ \/ /\ stage' = "violation" /\ UNCHANGED <<codeLength, space, index, run>>
         \/ /\ final <= AlphabetSize
            /\ codeLength' = Filled(repclen, delta) /\ space' = Less(delta * Share(repclen))
            /\ index' = final /\ run' = (IF clen = run.kind THEN longer ELSE begun)
            /\ UNCHANGED stage
  <2>1. ~ (index + delta > AlphabetSize) => final <= AlphabetSize
    <3>1. index \in Nat /\ AlphabetSize \in Nat /\ (repeat \in Nat /\ prevclen \in Nat)
      BY Sizes DEF ReadInv, PcTypeOK
    <3>2. carried \in Nat /\ (carried = 0 \/ carried >= 3)
      BY <3>1 DEF Carried, ReadInv, RepeatInv
    <3>3. clen \in {Copy16, Zero17} /\ extra \in 3 .. 10
      BY <1>0
    <3> HIDE DEF carried
    <3>4. delta \in Nat
      BY <3>2, <3>3, GrowsBy
    <3> QED
      BY <3>1, <3>4
  <2> QED
    BY <1>1, <2>1
<1>3. /\ stage = "tokens" /\ index \in Nat /\ index < AlphabetSize /\ AlphabetSize \in Nat
      /\ UNCHANGED <<symbolLength, usable, prevclen, tree, literals>>
  BY Sizes DEF Repeat, More, ReadInv, PcTypeOK
<1>4. clen \in {Copy16, Zero17} /\ extra \in 3 .. 10
  BY <1>0, <1>1
<1>5. /\ repeat \in Nat /\ prevclen \in 1 .. MaxBits /\ prevrepl \in 0 .. MaxBits
      /\ repeat = 0 \/ repeat >= 3
      /\ prevclen = LastLength(codeLength, index) /\ MaxBits \in Nat
  BY Sizes DEF ReadInv, PcTypeOK, RepeatInv
<1>6. repclen \in 0 .. MaxBits
  BY <1>5
<1>7. carried \in Nat /\ (carried = 0 \/ carried >= 3)
  BY <1>5 DEF Carried
<1>8. /\ after = (IF carried = 0 THEN extra ELSE extra + (carried - 2) * Base(clen))
      /\ after \in Nat /\ after >= 3 /\ delta \in Nat \ {0}
  <2> HIDE DEF carried
  <2> QED
    BY <1>4, <1>7, GrowsBy
<1>9. final \in Nat /\ index <= final /\ final # index /\ final - index = delta
  <2> HIDE DEF delta
  <2> QED
    BY <1>3, <1>8
<1> HIDE DEF final
<1>10. codeLength \in CodeLengths
  BY DEF ReadInv, PcTypeOK, CodeLengths
<1>11. CASE stage' = "violation" /\ UNCHANGED <<codeLength, space, index, run>>
  <2> HIDE DEF repclen, after
  <2>1. PcTypeOK'
    BY <1>2, <1>3, <1>6, <1>8, <1>11 DEF ReadInv, PcTypeOK
  <2>2. Ahead' /\ KindsInv' /\ SpaceIsLeft' /\ RunLength' /\ TreeInv'
    BY <1>3, <1>11 DEF ReadInv, Ahead, KindsInv, SpaceIsLeft, RunLength, TreeInv
  <2>3. RepeatInv'
    BY <1>2, <1>3, <1>8, <1>11 DEF ReadInv, RepeatInv
  <2> QED
    BY <2>1, <2>2, <2>3 DEF ReadInv
<1>12. CASE /\ final <= AlphabetSize
            /\ codeLength' = Filled(repclen, delta) /\ space' = Less(delta * Share(repclen))
            /\ index' = final /\ run' = (IF clen = run.kind THEN longer ELSE begun)
            /\ UNCHANGED stage
  <2>1. /\ \A s \in Symbols : s \in index .. final - 1 => codeLength'[s] = repclen
        /\ \A s \in Symbols : ~ (s \in index .. final - 1) => codeLength'[s] = codeLength[s]
        /\ codeLength' \in CodeLengths
    <3> HIDE DEF repclen, delta
    <3>1. codeLength' = [s \in Symbols |-> IF s \in index .. final - 1 THEN repclen ELSE codeLength[s]]
      <4>1. codeLength' = [s \in Symbols |-> IF s \in index .. index + delta - 1 THEN repclen ELSE codeLength[s]]
        BY <1>12, Zenon DEF Filled
      <4>2. index + delta - 1 = final - 1
        BY <1>3, <1>8 DEF final
      <4> QED
        BY <4>1, <4>2
    <3> QED
      BY <1>6, <1>10, <3>1 DEF CodeLengths
  <2>2. space' = Less((final - index) * Share(repclen))
    <3> HIDE DEF repclen, delta
    <3> QED
      BY <1>9, <1>12
  <2>3. /\ space' \in 0 .. DwordRange - 1 /\ SpaceIsLeft' /\ Ahead'
        /\ \A end \in Nat : end <= index => LastLength(codeLength', end) = LastLength(codeLength, end)
        /\ LastLength(codeLength', final)
             = IF repclen = 0 THEN LastLength(codeLength, index) ELSE repclen
    <3> HIDE DEF repclen, delta, after, carried
    <3>1. stage' = "tokens" /\ index' = final /\ final <= AlphabetSize
      BY <1>3, <1>12
    <3> QED
      BY <1>3, <1>6, <1>9, <2>1, <2>2, <3>1, ReadOn
  <2>4. prevclen = LastLength(codeLength', final)
    <3> HIDE DEF delta, after, carried
    <3> QED
      BY <1>5, <2>3
  <2>5. PcTypeOK'
    <3> HIDE DEF repclen, after, delta
    <3> QED
      BY <1>2, <1>3, <1>6, <1>8, <1>9, <1>12, <2>1, <2>3 DEF ReadInv, PcTypeOK, CodeLengths
  <2>6. KindsInv' /\ TreeInv'
    BY <1>3, <1>12 DEF KindsInv, TreeInv
  \* The new run, and what it covers.
  <2>7. /\ run' \in [kind : {Copy16, Zero17}, extras : Seq(3 .. 10), first : Nat]
        /\ run'.extras # <<>> /\ run'.kind = clen /\ run'.first <= index
        /\ repclen = RunRepl(codeLength', run')
        /\ after = Covered(run'.extras, Base(clen))
        /\ final = run'.first + after
        /\ \A s \in run'.first .. final - 1 : codeLength'[s] = repclen
    <3>1. CASE clen = run.kind
      <4>1. run' = longer
        BY <1>12, <3>1
      <4>2. /\ run \in [kind : {Copy16, Zero17}, extras : Seq(3 .. 10), first : Nat]
            /\ run.extras # <<>> /\ run # NoRun
            /\ repeat >= 3 /\ repeat = Covered(run.extras, Base(run.kind))
            /\ prevrepl = RunRepl(codeLength, run) /\ index <= AlphabetSize
        BY <1>3, <1>4, <3>1 DEF ReadInv, RepeatInv, NoRun, Copy16, Zero17
      <4>3. /\ run.extras \in Seq(3 .. 10) /\ run.first \in Nat
            /\ index = run.first + repeat
            /\ \A s \in run.first .. index - 1 :
                 codeLength[s] = (IF run.kind = Copy16 THEN LastLength(codeLength, run.first) ELSE 0)
        BY <4>2 DEF ReadInv, RunLength, Covered, Base
      <4>4. \A s \in run.first .. index - 1 : codeLength[s] = prevrepl
        BY <4>2, <4>3 DEF RunRepl
      <4>5. repclen = prevrepl
        <5>1. CASE clen = Copy16
          <6> DEFINE end == index - 1
          <6>1. end \in Symbols /\ end \in run.first .. index - 1 /\ end + 1 = index
            BY SMTT(30), <1>3, <1>5, <4>2, <4>3, Sizes
          <6> HIDE DEF end
          <6>2. prevrepl = LastLength(codeLength, run.first)
            BY <3>1, <4>2, <5>1 DEF RunRepl
          <6>3. prevrepl \in 1 .. MaxBits
            BY <1>10, <4>3, <6>2, LastLengthType
          <6>4. codeLength[end] = prevrepl /\ codeLength[end] # 0
            BY <4>4, <6>1, <6>3
          <6>5. LastLength(codeLength, index) = prevrepl
            BY <6>1, <6>4, LastLengthNew
          <6> QED
            BY <1>5, <5>1, <6>5
        <5>2. CASE clen # Copy16
          BY <3>1, <4>2, <5>2 DEF RunRepl
        <5> QED
          BY <5>1, <5>2
      <4>6. carried = repeat
        BY <4>5 DEF Carried
      <4>7. /\ run' \in [kind : {Copy16, Zero17}, extras : Seq(3 .. 10), first : Nat]
            /\ run'.kind = clen /\ run'.first = run.first /\ run'.extras = Append(run.extras, extra)
        <5>1. Append(run.extras, extra) \in Seq(3 .. 10)
          BY <1>4, <4>3
        <5>2. run' = [kind |-> clen, extras |-> Append(run.extras, extra), first |-> run.first]
          BY <3>1, <4>1, <4>2
        <5> QED
          BY <1>4, <4>3, <5>1, <5>2
      <4>8. run'.extras # <<>>
        BY <1>4, <4>3, <4>7
      <4>9. after = Covered(run'.extras, Base(clen))
        <5>1. Base(clen) \in Nat
          BY DEF Base
        <5>2. Covered(Append(run.extras, extra), Base(clen))
                = extra + (Covered(run.extras, Base(clen)) - 2) * Base(clen)
          BY <1>4, <4>2, <4>3, <5>1, RunGrows
        <5>3. after = extra + (repeat - 2) * Base(clen)
          <6> HIDE DEF carried, after
          <6> QED
            BY <1>5, <1>8, <4>2, <4>6
        <5> HIDE DEF after
        <5> QED
          BY <3>1, <4>2, <4>7, <5>2, <5>3
      <4>10. final = run'.first + after
        <5>1. delta = after - repeat
          BY <4>6
        <5> HIDE DEF after, delta
        <5>2. final = index + (after - repeat)
          BY <5>1 DEF final
        <5>3. run'.first = run.first /\ run.first \in Nat /\ index = run.first + repeat
          BY <4>3, <4>7
        <5> QED
          BY <1>5, <1>8, <5>2, <5>3
      <4>11. run'.first <= index
        BY <1>5, <4>3, <4>7
      <4>12. repclen = RunRepl(codeLength', run')
        <5>1. LastLength(codeLength', run.first) = LastLength(codeLength, run.first)
          <6> HIDE DEF repclen
          <6> QED
            BY <2>3, <4>3, <4>7, <4>11
        <5>2. prevrepl = IF clen = Copy16 THEN LastLength(codeLength, run.first) ELSE 0
          BY <3>1, <4>2 DEF RunRepl
        <5> HIDE DEF repclen
        <5> QED
          BY <4>5, <4>7, <5>1, <5>2 DEF RunRepl
      <4>13. ASSUME NEW s \in run'.first .. final - 1 PROVE codeLength'[s] = repclen
        <5> HIDE DEF repclen
        <5>1. s \in Nat /\ s \in run.first .. final - 1 /\ s \in Symbols
          <6>1. run'.first = run.first /\ run.first \in Nat
            BY <4>3, <4>7
          <6>2. final \in Nat /\ final <= AlphabetSize /\ AlphabetSize \in Nat
            BY <1>3, <1>9, <1>12
          <6>3. s \in run.first .. final - 1
            BY <6>1
          <6>4. s \in Nat /\ s <= AlphabetSize - 1
            BY <6>1, <6>2, <6>3
          <6> QED
            BY <6>2, <6>3, <6>4, Sizes
        <5>2. CASE s \in index .. final - 1
          BY <2>1, <5>1, <5>2
        <5>3. CASE ~ (s \in index .. final - 1)
          <6>1. s \in run.first .. index - 1
            BY <1>3, <1>9, <4>3, <5>1, <5>3
          <6>2. codeLength[s] = repclen
            BY <4>4, <4>5, <6>1
          <6> QED
            BY <2>1, <5>1, <5>3, <6>2
        <5> QED
          BY <5>2, <5>3
      <4> HIDE DEF repclen, after
      <4> QED
        BY <4>7, <4>8, <4>9, <4>10, <4>11, <4>12, <4>13
    <3>2. CASE clen # run.kind
      <4>1. run' = begun
        BY <1>12, <3>2
      <4>2. /\ run'.kind = clen /\ run'.extras = <<extra>> /\ run'.first = index
            /\ run' \in [kind : {Copy16, Zero17}, extras : Seq(3 .. 10), first : Nat]
            /\ run'.extras # <<>>
        BY <1>3, <1>4, <4>1
      <4>3. carried = 0
        <5>1. CASE run = NoRun
          <6>1. repeat = 0
            BY <1>3, <5>1 DEF ReadInv, RepeatInv
          <6> QED
            BY <6>1 DEF Carried
        <5>2. CASE run # NoRun
          <6>1. /\ run.kind \in {Copy16, Zero17} /\ run.first \in Nat
                /\ prevrepl = RunRepl(codeLength, run)
            BY <1>3, <5>2 DEF ReadInv, RepeatInv
          <6>2. LastLength(codeLength, run.first) \in 1 .. MaxBits
            BY <1>10, <6>1, LastLengthType
          <6>3. prevrepl # repclen
            BY <1>4, <1>5, <3>2, <6>1, <6>2 DEF RunRepl, Copy16, Zero17
          <6> QED
            BY <6>3 DEF Carried
        <5> QED
          BY <5>1, <5>2
      <4>4. after = extra /\ delta = extra
        <5>1. after = extra
          <6> HIDE DEF carried, after
          <6> QED
            BY <1>8, <4>3
        <5> HIDE DEF after, carried
        <5> QED
          BY <4>3, <5>1
      <4>5. final = index + extra
        BY <4>4, Zenon DEF final
      <4>6. Covered(<<extra>>, Base(clen)) = extra
        BY <1>4, RunBegins DEF Base
      <4>7. repclen = RunRepl(codeLength', run')
        <5>1. index <= index
          BY <1>3
        <5>2. LastLength(codeLength', index) = LastLength(codeLength, index)
          <6> HIDE DEF repclen
          <6> QED
            BY <1>3, <2>3, <5>1
        <5> QED
          BY <1>5, <4>2, <5>2 DEF RunRepl
      <4>8. \A s \in index .. final - 1 : s \in Symbols
        BY <1>3, <1>9, <1>12, Sizes
      <4> HIDE DEF repclen, after, delta, carried
      <4>9. \A s \in index .. final - 1 : codeLength'[s] = repclen
        BY <2>1, <4>8
      <4>10. run'.first <= index
        BY <1>3, <4>2
      <4> QED
        BY <4>2, <4>4, <4>5, <4>6, <4>7, <4>9, <4>10
    <3> QED
      BY <3>1, <3>2
  <2> HIDE DEF repclen, after, delta, carried
  <2>8. RunLength'
    BY <1>12, <2>7 DEF RunLength, RunRepl, Covered, Base
  <2>9. RepeatInv'
    <3>1. run' # NoRun
      BY <1>4, <2>7 DEF NoRun, Copy16, Zero17
    <3>2. index' = final /\ prevclen' = prevclen /\ stage' = "tokens" /\ final <= AlphabetSize
      BY <1>3, <1>12
    <3> QED
      BY <1>2, <1>8, <2>4, <2>7, <3>1, <3>2 DEF RepeatInv
  <2> QED
    BY <2>3, <2>5, <2>6, <2>8, <2>9 DEF ReadInv
<1> QED
  BY <1>2, <1>11, <1>12

\* A complex code is read with what the reader keeps, from any bits.
THEOREM CodeInvariance == PcSpec => []ReadInv
<1>1. PcInit => ReadInv
  BY ReadInit
<1>2. ReadInv /\ [PcNext]_pcVars => ReadInv'
  <2> SUFFICES ASSUME ReadInv, [PcNext]_pcVars PROVE ReadInv'
    OBVIOUS
  <2>1. CASE UNCHANGED pcVars
    <3>1. PcTypeOK' /\ Ahead' /\ KindsInv' /\ SpaceIsLeft'
      BY <2>1, Zenon DEF ReadInv, pcVars, PcTypeOK, Ahead, KindsInv, SpaceIsLeft
    <3>2. RunLength' /\ RepeatInv' /\ TreeInv'
      BY <2>1, Zenon DEF ReadInv, pcVars, RunLength, RepeatInv, TreeInv
    <3> QED
      BY <3>1, <3>2 DEF ReadInv
  <2> QED
    BY <2>1, ReadSimple, ReadComplex, ReadSymbolLength, ReadKinds, ReadLiteral, ReadRepeat, ReadBuilt
       DEF PcNext
<1> QED
  BY <1>1, <1>2, PTL DEF PcSpec

THEOREM RunsCorrect == PcSpec => []RunLength
<1>1. ReadInv => RunLength
  BY DEF ReadInv
<1> QED
  BY <1>1, CodeInvariance, PTL

(***************************************************************************)
(* How many symbols have a length.                                         *)
(***************************************************************************)
Of(clens, length, end) == {s \in Symbols : s < end /\ clens[s] = length}
CountOf(clens, length, end) == Cardinality(Of(clens, length, end))

LEMMA CountIs ==
  ASSUME NEW clens, NEW length, NEW end \in 0 .. AlphabetSize
  PROVE  /\ IsFiniteSet(Of(clens, length, end)) /\ CountOf(clens, length, end) \in Nat
         /\ end = 0 => CountOf(clens, length, end) = 0
         /\ end < AlphabetSize =>
              CountOf(clens, length, end + 1)
                = CountOf(clens, length, end) + (IF clens[end] = length THEN 1 ELSE 0)
<1> DEFINE set == Of(clens, length, end)
<1>0. \A s \in Symbols : s \in Nat
  BY Sizes
<1>1. IsFiniteSet(Of(clens, length, end))
  <2>1. IsFiniteSet(0 .. AlphabetSize)
    BY Sizes, FS_Interval
  <2>2. Of(clens, length, end) \subseteq 0 .. AlphabetSize
    BY Sizes DEF Of
  <2> QED
    BY <2>1, <2>2, FS_Subset
<1>2. CountOf(clens, length, end) \in Nat
  BY <1>1, FS_CardinalityType DEF CountOf
<1>3. end = 0 => CountOf(clens, length, end) = 0
  <2> SUFFICES ASSUME end = 0 PROVE CountOf(clens, length, end) = 0
    OBVIOUS
  <2>1. Of(clens, length, end) = {}
    BY <1>0 DEF Of
  <2> QED
    BY <2>1, FS_EmptySet DEF CountOf
<1>4. ASSUME end < AlphabetSize
      PROVE  CountOf(clens, length, end + 1)
               = CountOf(clens, length, end) + (IF clens[end] = length THEN 1 ELSE 0)
  <2>1. end \in Symbols /\ end \in Nat
    BY <1>4, Sizes
  <2>4. \A s \in Symbols : s < end + 1 <=> (s < end \/ s = end)
    BY <1>0, <2>1
  <2>2. CASE clens[end] = length
    <3>1. Of(clens, length, end + 1) = set \cup {end}
      BY <2>1, <2>2, <2>4, Zenon DEF Of
    <3>2. end \notin set
      BY <2>1 DEF Of
    <3> HIDE DEF set
    <3>3. Cardinality(set \cup {end}) = Cardinality(set) + 1
      BY <1>1, <3>2, FS_AddElement DEF set
    <3> QED
      BY <2>2, <3>1, <3>3 DEF CountOf, set
  <2>3. CASE clens[end] # length
    <3>1. Of(clens, length, end + 1) = set
      BY <2>1, <2>3, <2>4, Zenon DEF Of
    <3> QED
      BY <1>2, <2>3, <3>1 DEF CountOf
  <2> QED
    BY <2>2, <2>3
<1> QED
  BY <1>1, <1>2, <1>3, <1>4

LEMMA CountGrows ==
  ASSUME NEW clens, NEW length, NEW end \in 0 .. AlphabetSize, NEW far \in 0 .. AlphabetSize, end <= far
  PROVE  CountOf(clens, length, end) <= CountOf(clens, length, far)
<1>1. \A s \in Symbols : s \in Nat
  BY Sizes
<1>2. Of(clens, length, end) \subseteq Of(clens, length, far)
  BY <1>1 DEF Of
<1> QED
  BY <1>2, CountIs, FS_Subset DEF CountOf

\* Whatever its place among the symbols of its length, there is a symbol there.
LEMMA RankFound ==
  ASSUME NEW clens, NEW length, NEW rank \in Nat, rank < CountOf(clens, length, AlphabetSize)
  PROVE  \E s \in Symbols : clens[s] = length /\ CountOf(clens, length, s) = rank
<1> DEFINE C(t) == CountOf(clens, length, t)
           T == {t \in 0 .. AlphabetSize : C(t) > rank}
<1>0. AlphabetSize \in Nat
  BY Sizes
<1>1. T \in SUBSET Nat /\ AlphabetSize \in T
  BY <1>0
<1>2. PICK t \in T : \A y \in T : t <= y
  <2> HIDE DEF T
  <2> QED
    BY <1>1, LeastNumber
<1>3. t \in 0 .. AlphabetSize /\ C(t) > rank
  BY <1>2
<1>4. t # 0
  BY <1>3, CountIs
<1> DEFINE s == t - 1
<1>5. s \in 0 .. AlphabetSize /\ s < AlphabetSize /\ s + 1 = t /\ s \in Symbols /\ s < t
  BY <1>0, <1>3, <1>4, Sizes
<1> HIDE DEF s
<1>6. s \notin T
  BY <1>2, <1>3, <1>5
<1>7. ~ (C(s) > rank) /\ C(s) \in Nat
  BY <1>5, <1>6, CountIs
<1>8. C(t) = C(s) + (IF clens[s] = length THEN 1 ELSE 0)
  BY <1>5, CountIs
<1> HIDE DEF C
<1>9. clens[s] = length /\ C(s) = rank
  BY <1>3, <1>7, <1>8
<1> QED
  BY <1>5, <1>9 DEF C

(***************************************************************************)
(* The space that shorter lengths take.                                    *)
(***************************************************************************)
Shorter(clens, length) ==
  [k \in 1 .. AlphabetSize |->
     IF clens[k - 1] # 0 /\ clens[k - 1] < length THEN Share(clens[k - 1]) ELSE 0]
Below(clens, length) == Total(Shorter(clens, length), AlphabetSize)

LEMMA ShorterIs ==
  ASSUME NEW clens \in CodeLengths, NEW length \in Nat
  PROVE  \A k \in 1 .. AlphabetSize :
           /\ k - 1 \in Symbols
           /\ Shorter(clens, length)[k]
                = (IF clens[k - 1] # 0 /\ clens[k - 1] < length THEN Share(clens[k - 1]) ELSE 0)
           /\ Shorter(clens, length)[k] \in Nat
<1> TAKE k \in 1 .. AlphabetSize
<1>1. k - 1 \in Symbols
  BY Sizes
<1>2. clens[k - 1] \in 0 .. MaxBits
  BY <1>1 DEF CodeLengths
<1>3. Share(clens[k - 1]) \in Nat
  BY <1>2, ShareIs
<1>4. Shorter(clens, length)[k]
        = (IF clens[k - 1] # 0 /\ clens[k - 1] < length THEN Share(clens[k - 1]) ELSE 0)
  BY DEF Shorter
<1> QED
  BY <1>1, <1>3, <1>4

LEMMA BelowEnds ==
  ASSUME NEW clens \in CodeLengths
  PROVE  Below(clens, 1) = 0 /\ Below(clens, MaxBits + 1) = Total(Taken(clens), AlphabetSize)
<1> DEFINE n == AlphabetSize
           f == Shorter(clens, 1)
<1>0. n \in Nat /\ MaxBits \in Nat /\ MaxBits + 1 \in Nat /\ \A s \in Symbols : clens[s] \in 0 .. MaxBits
  BY Sizes DEF CodeLengths
<1>1. \A k \in 1 .. n : f[k] = 0
  <2> TAKE k \in 1 .. n
  <2>1. k - 1 \in Symbols /\ f[k] = (IF clens[k - 1] # 0 /\ clens[k - 1] < 1 THEN Share(clens[k - 1]) ELSE 0)
    BY ShorterIs
  <2>2. clens[k - 1] \in 0 .. MaxBits
    BY <1>0, <2>1
  <2>3. ~ (clens[k - 1] # 0 /\ clens[k - 1] < 1)
    BY <1>0, <2>2
  <2> QED
    BY <2>1, <2>3
<1>2. Total(f, n) = 0
  <2> HIDE DEF f, n
  <2>1. \A k \in 1 .. n : f[k] \in Nat
    BY <1>1
  <2>2. PICK sum : Sums(sum, f, n) /\ Total(f, n) = sum[n]
    BY <1>0, <2>1, TotalIs
  <2> DEFINE T == {k \in 0 .. n : sum[k] = 0}
  <2>3. 0 \in T
    BY <1>0, <2>2 DEF Sums
  <2>4. ASSUME NEW k \in 0 .. n - 1, k \in T PROVE k + 1 \in T
    BY <1>0, <1>1, <2>2, <2>4 DEF Sums
  <2> HIDE DEF T
  <2>5. \A k \in 0 .. n : k \in T
    BY <1>0, <2>3, <2>4, UpTo
  <2>6. sum[n] = 0
    BY <1>0, <2>5 DEF T
  <2> QED
    BY <2>2, <2>6
<1>3. Shorter(clens, MaxBits + 1) = Taken(clens)
  <2>1. \A k \in 1 .. n : (IF clens[k - 1] # 0 /\ clens[k - 1] < MaxBits + 1 THEN Share(clens[k - 1]) ELSE 0)
                        = (IF clens[k - 1] = 0 THEN 0 ELSE Share(clens[k - 1]))
    <3> TAKE k \in 1 .. n
    <3>1. k - 1 \in Symbols
      BY Sizes
    <3>2. clens[k - 1] \in 0 .. MaxBits
      BY <1>0, <3>1
    <3>3. clens[k - 1] < MaxBits + 1
      BY <1>0, <3>2
    <3> QED
      BY <3>3
  <2>2. \A k \in 1 .. n : (IF clens[k - 1] = 0 THEN 0 ELSE Share(clens[k - 1]))
                        = (IF clens[k - 1] = 0 THEN 0 ELSE 2 ^ (MaxBits - clens[k - 1]))
    BY Zenon DEF Share
  <2> QED
    BY <2>1, <2>2, Zenon DEF Shorter, Taken
<1> QED
  BY <1>2, <1>3 DEF Below

LEMMA BelowStep ==
  ASSUME NEW clens \in CodeLengths, NEW length \in 1 .. MaxBits
  PROVE  /\ Below(clens, length) \in Nat
         /\ Below(clens, length + 1)
              = Below(clens, length) + CountOf(clens, length, AlphabetSize) * Power(MaxBits - length)
<1> DEFINE n == AlphabetSize
           c == Power(MaxBits - length)
           f == Shorter(clens, length)
           g == Shorter(clens, length + 1)
           C(k) == CountOf(clens, length, k)
<1>0. /\ n \in Nat /\ MaxBits \in Nat /\ length \in Nat /\ length + 1 \in Nat
      /\ \A s \in Symbols : clens[s] \in 0 .. MaxBits
  BY Sizes DEF CodeLengths
<1>1. c \in Nat /\ Share(length) = c
  <2>1. MaxBits - length \in 0 .. 15 /\ length \in 0 .. MaxBits /\ length # 0
    BY Sizes
  <2> QED
    BY <2>1, Powers, ShareIs
<1>2. \A k \in 1 .. n : f[k] \in Nat /\ g[k] \in Nat
  BY <1>0, ShorterIs
<1>3. \A k \in 1 .. n : g[k] = IF clens[k - 1] = length THEN c ELSE f[k]
  <2> TAKE k \in 1 .. n
  <2>1. /\ k - 1 \in Symbols
        /\ f[k] = (IF clens[k - 1] # 0 /\ clens[k - 1] < length THEN Share(clens[k - 1]) ELSE 0)
        /\ g[k] = (IF clens[k - 1] # 0 /\ clens[k - 1] < length + 1 THEN Share(clens[k - 1]) ELSE 0)
    BY <1>0, ShorterIs
  <2>2. clens[k - 1] \in 0 .. MaxBits
    BY <1>0, <2>1
  <2> HIDE DEF f, g, c
  <2>3. CASE clens[k - 1] = length
    BY <1>0, <1>1, <2>1, <2>3
  <2>4. CASE clens[k - 1] # length
    <3>1. clens[k - 1] < length + 1 <=> clens[k - 1] < length
      BY <1>0, <2>2, <2>4
    <3> QED
      BY <2>1, <2>4, <3>1
  <2> QED
    BY <2>3, <2>4
<1>4. \A k \in 1 .. n : clens[k - 1] = length => f[k] = 0
  <2> TAKE k \in 1 .. n
  <2>1. f[k] = (IF clens[k - 1] # 0 /\ clens[k - 1] < length THEN Share(clens[k - 1]) ELSE 0)
    BY <1>0, ShorterIs
  <2> HIDE DEF f
  <2> QED
    BY <1>0, <2>1
<1>5. /\ \A k \in 0 .. n : C(k) \in Nat
      /\ C(0) = 0
      /\ \A k \in 0 .. n - 1 : C(k + 1) = C(k) + (IF clens[k] = length THEN 1 ELSE 0)
  BY <1>0, CountIs
<1> HIDE DEF f, g, n, c, C
<1>6. PICK sum : Sums(sum, f, n) /\ Total(f, n) = sum[n]
  BY <1>0, <1>2, TotalIs
<1>7. PICK more : Sums(more, g, n) /\ Total(g, n) = more[n]
  BY <1>0, <1>2, TotalIs
<1> DEFINE T == {k \in 0 .. n : more[k] = sum[k] + C(k) * c}
<1>8. 0 \in T
  BY <1>0, <1>1, <1>5, <1>6, <1>7 DEF Sums
<1>9. ASSUME NEW k \in 0 .. n - 1, k \in T PROVE k + 1 \in T
  <2>1. more[k] = sum[k] + C(k) * c /\ k + 1 \in 1 .. n /\ (k + 1) - 1 = k /\ k \in 0 .. n
    BY <1>0, <1>9
  <2>2. sum[k] \in Nat /\ C(k) \in Nat /\ f[k + 1] \in Nat
    BY <1>2, <1>5, <1>6, <2>1 DEF Sums
  <2>3. sum[k + 1] = sum[k] + f[k + 1] /\ more[k + 1] = more[k] + g[k + 1]
    BY <1>6, <1>7 DEF Sums
  <2>4. CASE clens[k] = length
    <3>1. g[k + 1] = c /\ f[k + 1] = 0 /\ C(k + 1) = C(k) + 1
      BY <1>3, <1>4, <1>5, <2>1, <2>4
    <3>2. (C(k) + 1) * c = C(k) * c + c /\ C(k) * c \in Nat
      BY <1>1, <2>2
    <3> QED
      BY <1>0, <1>1, <2>1, <2>2, <2>3, <3>1, <3>2
  <2>5. CASE clens[k] # length
    <3>1. g[k + 1] = f[k + 1] /\ C(k + 1) = C(k)
      BY <1>3, <1>5, <2>1, <2>2, <2>5
    <3>2. C(k) * c \in Nat
      BY <1>1, <2>2
    <3> QED
      BY <1>0, <2>1, <2>2, <2>3, <3>1, <3>2
  <2> QED
    BY <2>4, <2>5
<1> HIDE DEF T
<1>10. \A k \in 0 .. n : k \in T
  BY <1>0, <1>8, <1>9, UpTo
<1>11. more[n] = sum[n] + C(n) * c /\ sum[n] \in Nat
  BY <1>0, <1>6, <1>10 DEF T, Sums
<1> QED
  BY <1>6, <1>7, <1>11 DEF Below, f, g, n, c, C

LEMMA BelowGrows ==
  ASSUME NEW clens \in CodeLengths, NEW length \in 1 .. MaxBits + 1, NEW far \in 1 .. MaxBits + 1, length <= far
  PROVE  /\ Below(clens, length) \in Nat /\ Below(clens, far) \in Nat
         /\ Below(clens, length) <= Below(clens, far)
<1> DEFINE B(l) == Below(clens, l)
<1>0. MaxBits \in 1 .. 15
  BY Sizes
<1>1. \A l \in 1 .. MaxBits : B(l) \in Nat /\ B(l + 1) \in Nat /\ B(l) <= B(l + 1)
  <2> TAKE l \in 1 .. MaxBits
  <2> DEFINE c == CountOf(clens, l, AlphabetSize)
             w == Power(MaxBits - l)
  <2>1. c \in Nat /\ w \in Nat
    <3>1. AlphabetSize \in 0 .. AlphabetSize /\ MaxBits - l \in 0 .. 15
      BY Sizes
    <3> QED
      BY <3>1, CountIs, Powers
  <2>2. B(l) \in Nat /\ B(l + 1) = B(l) + c * w
    BY BelowStep
  <2> HIDE DEF B, c, w
  <2>3. c * w \in Nat
    BY <2>1
  <2> QED
    BY <2>2, <2>3
<1> HIDE DEF B
<1>2. \A l \in 1 .. MaxBits + 1 : B(l) \in Nat
  <2> TAKE l \in 1 .. MaxBits + 1
  <2>1. CASE l \in 1 .. MaxBits
    BY <1>1, <2>1
  <2>2. CASE l = MaxBits + 1
    BY <1>0, <1>1, <2>2
  <2> QED
    BY <1>0, <2>1, <2>2
<1> DEFINE T == {k \in Nat : length + k <= MaxBits + 1 => B(length) <= B(length + k)}
           n == far - length
<1>3. 0 \in T
  BY <1>0, <1>2
<1>4. \A k \in 0 .. n - 1 : k \in T => k + 1 \in T
  <2> SUFFICES ASSUME NEW k \in 0 .. n - 1, k \in T, length + (k + 1) <= MaxBits + 1
               PROVE  B(length) <= B(length + (k + 1))
    BY <1>0
  <2> DEFINE l == length + k
  <2>1. l \in 1 .. MaxBits /\ l + 1 = length + (k + 1)
    BY <1>0
  <2>2. B(length) <= B(l)
    BY <1>0, <2>1
  <2> HIDE DEF l, T
  <2>3. B(l) <= B(l + 1) /\ B(l) \in Nat /\ B(l + 1) \in Nat /\ B(length) \in Nat
    BY <1>1, <1>2, <2>1
  <2> QED
    BY <2>1, <2>2, <2>3
<1>5. n \in Nat /\ n \in 0 .. n /\ length + n = far
  BY <1>0
<1> HIDE DEF T, n
<1>6. n \in T
  BY <1>3, <1>4, <1>5, UpTo
<1>7. B(length) <= B(far)
  BY <1>0, <1>5, <1>6 DEF T
<1> QED
  BY <1>2, <1>7 DEF B

(***************************************************************************)
(* Where the codes of a length begin.                                      *)
(***************************************************************************)
LEMMA OffsetsAre ==
  ASSUME NEW count \in [0 .. 15 -> Nat]
  PROVE  /\ Offsets(count)[0] = 0
         /\ \A l \in 0 .. 14 :
              Offsets(count)[l + 1] = ((Offsets(count)[l] + count[l]) * 2) % 65536
<1> DEFINE Following(k, x) == ((x + count[k]) * 2) % 65536
           step == [k \in 1 .. 15 |-> [x \in Nat |-> Following(k - 1, x)]]
           Is(g) == g = [l \in 0 .. 15 |-> IF l = 0 THEN 0 ELSE Following(l - 1, g[l - 1])]
           chosen == CHOOSE g : Is(g)
<1>2. Offsets(count) = chosen
  BY DEF Offsets
<1>1. ASSUME NEW k \in 0 .. 15, NEW x \in Nat PROVE Following(k, x) \in Nat
  <2>1. (x + count[k]) * 2 \in Nat
    OBVIOUS
  <2>2. \A y \in Nat : y % 65536 \in Nat
    OBVIOUS
  <2> QED
    BY <2>1, <2>2
<1> HIDE DEF Following
<1>11. step \in [1 .. 15 -> [Nat -> Nat]]
  <2>1. \A k \in 1 .. 15 : k - 1 \in 0 .. 15
    OBVIOUS
  <2>2. \A k \in 1 .. 15, x \in Nat : Following(k - 1, x) \in Nat
    BY <1>1, <2>1
  <2> QED
    BY <2>2
<1>10. \A k \in 1 .. 15, x \in Nat : step[k][x] = Following(k - 1, x)
  OBVIOUS
<1> HIDE DEF step
<1>3. PICK offset \in [0 .. 15 -> Nat] : Recurs(offset, 0, step, 15)
  BY <1>11, RecursionExists
<1>4. \A k \in 1 .. 15 : offset[k] = Following(k - 1, offset[k - 1])
  <2> TAKE k \in 1 .. 15
  <2>1. offset[k - 1] \in Nat
    OBVIOUS
  <2>2. step[k][offset[k - 1]] = Following(k - 1, offset[k - 1])
    BY <1>10, <2>1
  <2> QED
    BY <1>3, <2>2 DEF Recurs
<1>5. Is(offset)
  <2>1. offset[0] = 0
    BY <1>3 DEF Recurs
  <2>2. \A l \in 0 .. 15 : offset[l] = IF l = 0 THEN 0 ELSE Following(l - 1, offset[l - 1])
    BY <1>4, <2>1
  <2> QED
    BY <2>2
<1>6. Is(chosen)
  BY <1>5
<1> HIDE DEF chosen
<1>7. \A l \in 0 .. 15 : chosen[l] = IF l = 0 THEN 0 ELSE Following(l - 1, chosen[l - 1])
  BY <1>6
<1>8. chosen[0] = 0
  BY <1>7
<1>9. \A l \in 0 .. 14 : chosen[l + 1] = Following(l, chosen[l])
  <2> TAKE l \in 0 .. 14
  <2>1. l + 1 \in 0 .. 15 /\ (l + 1) - 1 = l /\ l + 1 # 0
    OBVIOUS
  <2> QED
    BY <1>7, <2>1
<1> QED
  BY <1>2, <1>8, <1>9 DEF Following

\* The running offsets are the space that shorter lengths take, if they fit.
LEMMA OffsetsFit ==
  ASSUME NEW clens \in CodeLengths, Below(clens, MaxBits + 1) = Power(MaxBits),
         NEW count \in [0 .. 15 -> Nat], count[0] = 0,
         \A l \in 1 .. MaxBits : count[l] = CountOf(clens, l, AlphabetSize)
  PROVE  \A l \in 1 .. MaxBits : /\ Offsets(count)[l] \in Nat
                                 /\ Offsets(count)[l] * Power(MaxBits - l) = Below(clens, l)
<1> DEFINE offset == Offsets(count)
           n == MaxBits - 1
           T == {k \in 0 .. n : /\ offset[k + 1] \in Nat
                                /\ offset[k + 1] * Power(MaxBits - (k + 1)) = Below(clens, k + 1)}
<1>0. MaxBits \in 1 .. 15 /\ n \in Nat
  BY Sizes
<1>1. offset[0] = 0 /\ \A l \in 0 .. 14 : offset[l + 1] = ((offset[l] + count[l]) * 2) % 65536
  BY OffsetsAre
<1> HIDE DEF offset
<1>2. 0 \in T
  <2>1. offset[0 + 1] = 0
    BY <1>1
  <2>2. Below(clens, 0 + 1) = 0
    BY BelowEnds
  <2>3. Power(MaxBits - (0 + 1)) \in Nat
    <3>1. MaxBits - (0 + 1) \in 0 .. 15
      BY <1>0
    <3> QED
      BY <3>1, Powers
  <2> QED
    BY <1>0, <2>1, <2>2, <2>3
<1>3. ASSUME NEW k \in 0 .. n - 1, k \in T PROVE k + 1 \in T
  <2> DEFINE l == k + 1
             r == MaxBits - (l + 1)
             x == offset[l] + count[l]
             w == Power(r)
             h == Power(l + 1)
  <2>1. /\ l \in 1 .. MaxBits /\ l + 1 \in 1 .. MaxBits /\ l \in 0 .. 14 /\ l + 1 \in 0 .. 15
        /\ r \in 0 .. 15 /\ r < 15 /\ MaxBits - l = r + 1 /\ MaxBits - (l + 1) = r /\ k + 1 \in 0 .. n
        /\ MaxBits \in 0 .. 15 /\ l + 1 \in 0 .. MaxBits /\ l + 1 <= MaxBits + 1 /\ l \in 0 .. 15
        /\ l + 1 \in 1 .. MaxBits + 1 /\ MaxBits + 1 \in 1 .. MaxBits + 1
    BY <1>0
  <2>2. offset[l] \in Nat /\ offset[l] * Power(MaxBits - l) = Below(clens, l)
    BY <1>3
  <2>3. w \in Nat \ {0} /\ Power(r + 1) = 2 * w /\ h \in Nat /\ h <= 32768
    BY <2>1, Powers
  <2>4. count[l] \in Nat /\ Below(clens, l + 1) = Below(clens, l) + count[l] * Power(MaxBits - l)
    BY <2>1, BelowStep
  <2>5. Below(clens, l + 1) <= Power(MaxBits)
    BY <2>1, BelowGrows
  <2>6. Power(MaxBits) = h * w
    BY <2>1, PowersAdd
  <2>7. offset[l + 1] = (x * 2) % 65536
    BY <1>1, <2>1
  <2>8. Below(clens, l + 1) = offset[l] * (2 * w) + count[l] * (2 * w)
    BY <2>1, <2>2, <2>3, <2>4
  <2>13. k + 1 \in T <=> /\ offset[l + 1] \in Nat
                         /\ offset[l + 1] * Power(r) = Below(clens, l + 1)
    BY <2>1
  <2>9. x \in Nat /\ x = offset[l] + count[l]
    BY <2>2, <2>4
  <2> DEFINE b == Below(clens, l + 1)
  <2>14. b = offset[l] * (2 * w) + count[l] * (2 * w) /\ b <= h * w
    BY <2>5, <2>6, <2>8
  <2> HIDE DEF l, r, x, w, h, b
  <2>10. b = (x * 2) * w
    BY <2>2, <2>3, <2>4, <2>9, <2>14
  <2>11. x * 2 <= h
    <3>1. SUFFICES ASSUME x * 2 >= h + 1 PROVE FALSE
      BY <2>3, <2>9
    <3>2. (x * 2) * w >= (h + 1) * w
      BY <2>3, <2>9, <3>1
    <3>3. (h + 1) * w = h * w + w
      BY <2>3
    <3>4. h * w \in Nat
      BY <2>3
    <3> QED
      BY <2>3, <2>9, <2>10, <2>14, <3>2, <3>3, <3>4
  <2>12. (x * 2) % 65536 = x * 2
    BY <2>3, <2>9, <2>11
  <2>15. offset[l + 1] = x * 2
    BY <2>7, <2>12
  <2> QED
    BY <2>9, <2>10, <2>13, <2>15 DEF b, w
<1> HIDE DEF T
<1>4. \A k \in 0 .. n : k \in T
  BY <1>0, <1>2, <1>3, UpTo
<1>5. \A l \in 1 .. MaxBits : offset[l] \in Nat /\ offset[l] * Power(MaxBits - l) = Below(clens, l)
  <2> TAKE l \in 1 .. MaxBits
  <2>1. l - 1 \in 0 .. n /\ (l - 1) + 1 = l
    BY <1>0
  <2>2. l - 1 \in T
    BY <1>4, <2>1
  <2> QED
    BY <2>1, <2>2 DEF T
<1> QED
  BY <1>5 DEF offset

(***************************************************************************)
(* Bits and the numbers they are.                                          *)
(***************************************************************************)
\* num[k] is the number of the first k bits.
NumbersOf(num, bits, n) ==
  /\ num[0] = 0
  /\ \A k \in 0 .. n : num[k] \in Nat
  /\ \A k \in 0 .. n - 1 : bits[k + 1] \in {0, 1} /\ num[k + 1] = 2 * num[k] + bits[k + 1]

LEMMA NumbersExist ==
  ASSUME NEW n \in Nat, NEW bits \in [1 .. n -> {0, 1}]
  PROVE  \E num : NumbersOf(num, bits, n)
<1> DEFINE step == [k \in 1 .. n |-> [x \in Nat |-> 2 * x + bits[k]]]
<1>1. step \in [1 .. n -> [Nat -> Nat]]
  OBVIOUS
<1>2. \A k \in 1 .. n, x \in Nat : step[k][x] = 2 * x + bits[k]
  OBVIOUS
<1> HIDE DEF step
<1>3. PICK num \in [0 .. n -> Nat] : Recurs(num, 0, step, n)
  BY <1>1, RecursionExists
<1>4. \A k \in 0 .. n - 1 : bits[k + 1] \in {0, 1} /\ num[k + 1] = 2 * num[k] + bits[k + 1]
  <2> TAKE k \in 0 .. n - 1
  <2>1. k + 1 \in 1 .. n /\ (k + 1) - 1 = k /\ num[k] \in Nat
    OBVIOUS
  <2>2. num[k + 1] = step[k + 1][num[k]]
    BY <1>3, <2>1 DEF Recurs
  <2> QED
    BY <1>2, <2>1, <2>2
<1>5. num[0] = 0
  BY <1>3 DEF Recurs
<1> QED
  BY <1>4, <1>5 DEF NumbersOf

\* The number of the first k bits is a quotient of the number of them all.
LEMMA NumbersDivide ==
  ASSUME NEW n \in 0 .. 15, NEW num, NEW bits, NumbersOf(num, bits, n), NEW k \in 0 .. n
  PROVE  num[n] \div Power(n - k) = num[k]
<1> DEFINE Splits(j, r) == num[n] = num[n - j] * Power(j) + r
           T == {j \in 0 .. n : \E r \in 0 .. Power(j) - 1 : Splits(j, r)}
<1>1. 0 \in T
  <2>1. num[n] = num[n - 0] * Power(0) + 0 /\ 0 \in 0 .. Power(0) - 1
    BY SmallPowers DEF NumbersOf
  <2> QED
    BY <2>1
<1>2. ASSUME NEW j \in 0 .. n - 1, j \in T PROVE j + 1 \in T
  <2> DEFINE i == n - (j + 1)
             w == Power(j)
             b == bits[i + 1]
  <2>1. PICK r \in 0 .. w - 1 : Splits(j, r)
    BY <1>2
  <2>2. i \in 0 .. n - 1 /\ i + 1 = n - j /\ j \in 0 .. 15 /\ j < 15 /\ j + 1 \in 0 .. n /\ i \in 0 .. n
    OBVIOUS
  <2>3. w \in Nat \ {0} /\ Power(j + 1) = 2 * w
    BY <2>2, Powers
  <2>4. b \in {0, 1} /\ num[i + 1] = 2 * num[i] + b /\ num[i] \in Nat
    BY <2>2 DEF NumbersOf
  <2>5. num[n] = num[i + 1] * w + r
    BY <2>1, <2>2
  <2>8. Splits(j + 1, b * w + r) <=> num[n] = num[i] * Power(j + 1) + (b * w + r)
    OBVIOUS
  <2> HIDE DEF w, b, i, Splits
  <2>6. b * w + r \in 0 .. 2 * w - 1
    BY <2>3, <2>4
  <2>7. num[n] = num[i] * (2 * w) + (b * w + r)
    <3>1. CASE b = 0
      BY <2>3, <2>4, <2>5, <3>1
    <3>2. CASE b = 1
      <4>1. (2 * num[i] + 1) * w = num[i] * (2 * w) + w
        BY <2>3, <2>4
      <4> QED
        BY <2>3, <2>4, <2>5, <3>2, <4>1
    <3> QED
      BY <2>4, <3>1, <3>2
  <2>9. Splits(j + 1, b * w + r) /\ b * w + r \in 0 .. Power(j + 1) - 1
    BY <2>3, <2>6, <2>7, <2>8
  <2> QED
    BY <2>2, <2>9
<1> HIDE DEF T
<1>3. \A j \in 0 .. n : j \in T
  BY <1>1, <1>2, UpTo
<1> DEFINE j == n - k
<1>4. j \in 0 .. n /\ n - j = k /\ j \in 0 .. 15
  OBVIOUS
<1> HIDE DEF j
<1>5. PICK r \in 0 .. Power(j) - 1 : num[n] = num[k] * Power(j) + r
  BY <1>3, <1>4 DEF T
<1>6. Power(j) \in Nat \ {0} /\ num[n] \in Nat /\ num[k] \in Nat
  BY <1>4, Powers DEF NumbersOf
<1>7. num[n] = Power(j) * num[k] + r
  BY <1>5, <1>6
<1> DEFINE w == Power(j)
           t == num[k]
           m == num[n]
<1>8. w \in Nat /\ w > 0 /\ t \in Nat /\ m \in Nat /\ r \in 0 .. w - 1 /\ m = w * t + r
  BY <1>5, <1>6, <1>7
<1> HIDE DEF w, t, m
<1>9. m \div w = t
  BY <1>8, Quotient
<1> QED
  BY <1>9, Zenon DEF w, t, m, j

LEMMA NumbersFit ==
  ASSUME NEW n \in 0 .. 15, NEW num, NEW bits, NumbersOf(num, bits, n)
  PROVE  \A k \in 0 .. n : num[k] < Power(k)
<1> DEFINE T == {k \in 0 .. n : num[k] < Power(k)}
<1>1. 0 \in T
  BY SmallPowers DEF NumbersOf
<1>2. ASSUME NEW k \in 0 .. n - 1, k \in T PROVE k + 1 \in T
  <2>1. k \in 0 .. 15 /\ k < 15 /\ k + 1 \in 0 .. n /\ num[k] < Power(k) /\ k \in 0 .. n
    BY <1>2
  <2>2. Power(k + 1) = 2 * Power(k) /\ Power(k) \in Nat
    BY <2>1, Powers
  <2>3. num[k + 1] = 2 * num[k] + bits[k + 1] /\ bits[k + 1] \in {0, 1} /\ num[k] \in Nat
    BY <2>1 DEF NumbersOf
  <2> QED
    BY <2>1, <2>2, <2>3
<1> HIDE DEF T
<1>3. \A k \in 0 .. n : k \in T
  BY <1>1, <1>2, UpTo
<1> QED
  BY <1>3 DEF T

LEMMA HalfOf ==
  ASSUME NEW c \in Nat, NEW j \in 0 .. 14
  PROVE  c \div Power(j + 1) = (c \div Power(j)) \div 2
<1> DEFINE w == Power(j)
           q == c \div w
           r == c % w
           h == q \div 2
           b == q % 2
<1>1. w \in Nat \ {0} /\ Power(j + 1) = 2 * w
  BY Powers
<1>2. q \in Nat /\ r \in 0 .. w - 1 /\ c = w * q + r
  <2>1. w \in Nat /\ w > 0
    BY <1>1
  <2> HIDE DEF w
  <2> QED
    BY <2>1, DivMod
<1>3. h \in Nat /\ b \in 0 .. 1 /\ q = 2 * h + b
  BY <1>2, DivMod
<1>4. c \div Power(j + 1) = c \div (2 * w)
  BY <1>1
<1> HIDE DEF w, q, r, h, b
<1>5. c = (2 * w) * h + (w * b + r) /\ w * b + r \in 0 .. 2 * w - 1
  <2>1. w * (2 * h + b) = (2 * w) * h + w * b
    BY <1>1, <1>3
  <2>2. CASE b = 0
    BY <1>1, <1>2, <1>3, <2>1, <2>2
  <2>3. CASE b = 1
    BY <1>1, <1>2, <1>3, <2>1, <2>3
  <2> QED
    BY <1>3, <2>2, <2>3
<1>6. c \div (2 * w) = h
  <2>1. 2 * w \in Nat /\ 2 * w > 0
    BY <1>1
  <2> QED
    BY SMTT(30), <1>3, <1>5, <2>1, Quotient
<1> QED
  BY <1>4, <1>6 DEF h, q, w

\* A number is the number of its bits.
LEMMA BitsHave ==
  ASSUME NEW n \in 0 .. 15, NEW c \in 0 .. Power(n) - 1
  PROVE  /\ Bits(c, n) \in [1 .. n -> {0, 1}]
         /\ \E num : /\ NumbersOf(num, Bits(c, n), n) /\ num[n] = c
                     /\ \A k \in 0 .. n : num[k] = c \div Power(n - k)
<1> DEFINE num == [k \in 0 .. n |-> c \div Power(n - k)]
           bits == Bits(c, n)
<1>0. \A k \in 0 .. n : Power(n - k) \in Nat \ {0}
  <2> TAKE k \in 0 .. n
  <2>1. n - k \in 0 .. 15
    OBVIOUS
  <2> QED
    BY <2>1, Powers
<1>1. \A k \in 0 .. n : num[k] = c \div Power(n - k) /\ num[k] \in Nat
  <2> TAKE k \in 0 .. n
  <2>1. Power(n - k) \in Nat \ {0} /\ c \in Nat
    BY <1>0
  <2>2. c \div Power(n - k) \in Nat
    BY <2>1, DivMod
  <2> QED
    BY <2>2
<1>2. \A k \in 1 .. n : bits[k] = (c \div Power(n - k)) % 2
  BY Zenon DEF Bits, Power
<1>8. bits = [k \in 1 .. n |-> (c \div Power(n - k)) % 2]
  BY Zenon DEF Bits, Power
<1> HIDE DEF num, bits
<1>3. num[0] = 0
  <2>1. num[0] = c \div Power(n)
    BY <1>1
  <2>2. c = Power(n) * 0 + c /\ Power(n) \in Nat /\ Power(n) > 0 /\ c \in Nat
    BY Powers
  <2> QED
    BY <2>1, <2>2, Quotient
<1>4. num[n] = c
  <2>1. num[n] = c \div 1
    BY <1>1, SmallPowers
  <2>2. c = 1 * c + 0 /\ c \in Nat
    OBVIOUS
  <2> QED
    BY <2>1, <2>2, Quotient
<1>5. \A k \in 1 .. n : bits[k] \in {0, 1}
  <2> TAKE k \in 1 .. n
  <2>1. num[k] \in Nat /\ bits[k] = num[k] % 2
    BY <1>1, <1>2
  <2> QED
    BY <2>1
<1>6. \A k \in 0 .. n - 1 : num[k + 1] = 2 * num[k] + bits[k + 1]
  <2> TAKE k \in 0 .. n - 1
  <2> DEFINE j == n - (k + 1)
  <2>1. j \in 0 .. 14 /\ k + 1 \in 0 .. n /\ k + 1 \in 1 .. n /\ n - k = j + 1 /\ k \in 0 .. n /\ c \in Nat
    OBVIOUS
  <2>2. num[k + 1] = c \div Power(j) /\ num[k] = c \div Power(j + 1) /\ num[k + 1] \in Nat
    BY <1>1, <2>1
  <2>3. bits[k + 1] = num[k + 1] % 2
    BY <1>2, <2>1, <2>2
  <2> HIDE DEF j
  <2>4. num[k] = num[k + 1] \div 2
    BY <2>1, <2>2, HalfOf
  <2> QED
    BY <2>2, <2>3, <2>4, DivMod
<1>7. NumbersOf(num, bits, n)
  <2>1. \A k \in 0 .. n - 1 : k + 1 \in 1 .. n
    OBVIOUS
  <2> QED
    BY <1>1, <1>3, <1>5, <1>6, <2>1 DEF NumbersOf
<1>9. bits \in [1 .. n -> {0, 1}]
  BY <1>5, <1>8
<1> QED
  BY <1>1, <1>4, <1>7, <1>9 DEF bits

LEMMA NumbersAgree ==
  ASSUME NEW n \in Nat, NEW bits, NEW num, NEW other,
         NumbersOf(num, bits, n), NumbersOf(other, bits, n)
  PROVE  \A k \in 0 .. n : num[k] = other[k]
<1> DEFINE T == {k \in 0 .. n : num[k] = other[k]}
<1>1. 0 \in T
  BY DEF NumbersOf
<1>2. ASSUME NEW k \in 0 .. n - 1, k \in T PROVE k + 1 \in T
  BY <1>2 DEF NumbersOf
<1> HIDE DEF T
<1>3. \A k \in 0 .. n : k \in T
  BY <1>1, <1>2, UpTo
<1> QED
  BY <1>3 DEF T

\* Different numbers have different bits.
LEMMA BitsDiffer ==
  ASSUME NEW n \in 0 .. 15, NEW c \in 0 .. Power(n) - 1, NEW d \in 0 .. Power(n) - 1,
         Bits(c, n) = Bits(d, n)
  PROVE  c = d
<1>1. PICK num : NumbersOf(num, Bits(c, n), n) /\ num[n] = c
  BY BitsHave
<1>2. PICK other : NumbersOf(other, Bits(d, n), n) /\ other[n] = d
  BY BitsHave
<1>3. num[n] = other[n]
  BY <1>1, <1>2, NumbersAgree
<1> QED
  BY <1>1, <1>2, <1>3

\* The first bits are the bits of the number of the first bits.
FirstBits(bits, k) == [i \in 1 .. k |-> bits[i]]

LEMMA BitsOfFirst ==
  ASSUME NEW n \in 0 .. 15, NEW num, NEW bits, NumbersOf(num, bits, n), NEW k \in 0 .. n
  PROVE  Bits(num[k], k) = FirstBits(bits, k)
<1>1. NumbersOf(num, bits, k)
  <2>1. (\A i \in 0 .. k : i \in 0 .. n) /\ (\A i \in 0 .. k - 1 : i \in 0 .. n - 1)
    OBVIOUS
  <2> QED
    BY <2>1 DEF NumbersOf
<1>2. \A i \in 1 .. k : (num[k] \div Power(k - i)) % 2 = bits[i]
  <2> TAKE i \in 1 .. k
  <2>1. k \in 0 .. 15 /\ i \in 0 .. k /\ i - 1 \in 0 .. k - 1 /\ (i - 1) + 1 = i /\ i - 1 \in 0 .. k
    OBVIOUS
  <2>2. num[k] \div Power(k - i) = num[i]
    BY <1>1, <2>1, NumbersDivide
  <2>3. num[i] = 2 * num[i - 1] + bits[i] /\ bits[i] \in 0 .. 2 - 1 /\ num[i - 1] \in Nat /\ num[i] \in Nat
    BY <1>1, <2>1 DEF NumbersOf
  <2>4. num[i] % 2 = bits[i]
    BY <2>3, Quotient
  <2> QED
    BY <2>2, <2>4
<1>3. Bits(num[k], k) = [i \in 1 .. k |-> (num[k] \div Power(k - i)) % 2]
  BY Zenon DEF Bits, Power
<1> QED
  BY <1>2, <1>3 DEF FirstBits

\* The bits of a code, as a number of MaxBits bits.
LEMMA ValueOfBits ==
  ASSUME NEW n \in 0 .. MaxBits, NEW c \in 0 .. Power(n) - 1
  PROVE  Value(Bits(c, n)) = c * Power(MaxBits - n)
<1> DEFINE p == Bits(c, n)
           f == [k \in 1 .. n |-> p[k] * Power(MaxBits - k)]
<1>0. MaxBits \in 1 .. 15 /\ n \in 0 .. 15 /\ n \in Nat
  BY Sizes
<1>1. p \in [1 .. n -> {0, 1}]
  BY <1>0, BitsHave
<1>2. Len(p) = n
  BY <1>0, <1>1
<1>3. PICK num : NumbersOf(num, p, n) /\ num[n] = c
  BY <1>0, BitsHave
<1>4. Value(p) = Total(f, n)
  BY <1>2, Zenon DEF Value, Power
<1>5. \A k \in 1 .. n : f[k] = p[k] * Power(MaxBits - k)
  OBVIOUS
<1> HIDE DEF p, f
<1>6. \A k \in 0 .. n : Power(MaxBits - k) \in Nat
  <2> TAKE k \in 0 .. n
  <2>1. MaxBits - k \in 0 .. 15
    BY <1>0
  <2> QED
    BY <2>1, Powers
<1>7. \A k \in 1 .. n : f[k] \in Nat
  <2> TAKE k \in 1 .. n
  <2>1. p[k] \in {0, 1} /\ Power(MaxBits - k) \in Nat
    BY <1>1, <1>6
  <2> QED
    BY <1>5, <2>1
<1>8. PICK sum : Sums(sum, f, n) /\ Total(f, n) = sum[n]
  BY <1>0, <1>7, TotalIs
<1> DEFINE T == {k \in 0 .. n : sum[k] = num[k] * Power(MaxBits - k)}
<1>9. 0 \in T
  BY <1>0, <1>3, <1>6, <1>8 DEF Sums, NumbersOf
<1>10. ASSUME NEW k \in 0 .. n - 1, k \in T PROVE k + 1 \in T
  <2> DEFINE r == MaxBits - (k + 1)
             w == Power(r)
  <2>1. /\ r \in 0 .. 15 /\ r < 15 /\ MaxBits - k = r + 1 /\ k + 1 \in 1 .. n /\ k + 1 \in 0 .. n
        /\ k \in 0 .. n
    BY <1>0
  <2>2. w \in Nat /\ Power(MaxBits - k) = 2 * w
    BY <2>1, Powers
  <2>3. sum[k] = num[k] * (2 * w)
    BY <1>10, <2>2
  <2>4. sum[k + 1] = sum[k] + p[k + 1] * w
    BY <1>5, <1>8, <2>1 DEF Sums
  <2>5. num[k + 1] = 2 * num[k] + p[k + 1] /\ num[k] \in Nat /\ p[k + 1] \in {0, 1}
    BY <1>3, <2>1 DEF NumbersOf
  <2>6. k + 1 \in T <=> sum[k + 1] = num[k + 1] * w
    BY <2>1
  <2> HIDE DEF r, w, T
  <2>7. num[k] * (2 * w) + p[k + 1] * w = (2 * num[k] + p[k + 1]) * w
    <3>1. CASE p[k + 1] = 0
      BY <2>2, <2>5, <3>1
    <3>2. CASE p[k + 1] = 1
      BY <2>2, <2>5, <3>2
    <3> QED
      BY <2>5, <3>1, <3>2
  <2> QED
    BY <2>3, <2>4, <2>5, <2>6, <2>7
<1> HIDE DEF T
<1>11. \A k \in 0 .. n : k \in T
  BY <1>0, <1>9, <1>10, UpTo
<1>12. sum[n] = num[n] * Power(MaxBits - n)
  BY <1>0, <1>11 DEF T
<1> QED
  BY <1>3, <1>4, <1>8, <1>12 DEF p

(***************************************************************************)
(* The codes of the symbols, for lengths that fill the space.              *)
(***************************************************************************)
\* Each symbol's code, as a number of MaxBits bits, follows the shorter ones
\* and those of its length that come before it.
Placed(clens, code) ==
  /\ clens \in CodeLengths /\ Below(clens, MaxBits + 1) = Power(MaxBits)
  /\ \A s \in Symbols : clens[s] # 0 =>
       /\ code[s] \in Nat
       /\ code[s] * Power(MaxBits - clens[s])
            = Below(clens, clens[s]) + CountOf(clens, clens[s], s) * Power(MaxBits - clens[s])

Begins(clens, code, s) == code[s] * Power(MaxBits - clens[s])
Ends(clens, code, s) == Begins(clens, code, s) + Power(MaxBits - clens[s])
Before(clens, r, s) == clens[r] < clens[s] \/ (clens[r] = clens[s] /\ r < s)

LEMMA CodeBounds ==
  ASSUME NEW clens, NEW code, Placed(clens, code), NEW s \in Symbols, clens[s] # 0
  PROVE  /\ clens[s] \in 1 .. MaxBits /\ Power(MaxBits - clens[s]) \in Nat \ {0}
         /\ code[s] \in 0 .. Power(clens[s]) - 1
         /\ Begins(clens, code, s) \in Nat /\ Ends(clens, code, s) \in Nat
         /\ Below(clens, clens[s]) <= Begins(clens, code, s)
         /\ Ends(clens, code, s) <= Below(clens, clens[s] + 1)
<1> DEFINE l == clens[s]
           w == Power(MaxBits - l)
           h == Power(l)
           C(t) == CountOf(clens, l, t)
           n == AlphabetSize
<1>0. MaxBits \in 1 .. 15 /\ n \in Nat /\ s \in 0 .. n - 1 /\ clens \in CodeLengths
  BY Sizes DEF Placed
<1>1. l \in 1 .. MaxBits /\ l # 0
  <2>1. l \in 0 .. MaxBits
    BY <1>0 DEF CodeLengths
  <2> QED
    BY <1>0, <2>1
<1>2. w \in Nat \ {0} /\ h \in Nat \ {0} /\ Power(MaxBits) = h * w
  <2>1. MaxBits - l \in 0 .. 15 /\ l \in 0 .. 15 /\ l \in 0 .. MaxBits /\ MaxBits \in 0 .. 15
    BY <1>0, <1>1
  <2>2. w \in Nat \ {0} /\ h \in Nat \ {0}
    BY <2>1, Powers
  <2>3. Power(MaxBits) = h * w
    BY <2>1, PowersAdd
  <2> QED
    BY <2>2, <2>3
<1>3. C(s) \in Nat /\ C(n) \in Nat /\ C(s + 1) = C(s) + 1 /\ C(s + 1) <= C(n)
  <2>1. s \in 0 .. n /\ s < n /\ s + 1 \in 0 .. n /\ n \in 0 .. n /\ s + 1 <= n
    BY <1>0
  <2> QED
    BY <1>1, <2>1, CountIs, CountGrows
<1>4. code[s] \in Nat /\ code[s] * w = Below(clens, l) + C(s) * w
  BY <1>1 DEF Placed
<1>5. Below(clens, l) \in Nat /\ Below(clens, l + 1) = Below(clens, l) + C(n) * w
  BY <1>0, <1>1, BelowStep
<1>6. Below(clens, l + 1) \in Nat /\ Below(clens, l + 1) <= h * w
  <2>1. l + 1 \in 1 .. MaxBits + 1 /\ MaxBits + 1 \in 1 .. MaxBits + 1 /\ l + 1 <= MaxBits + 1
    BY <1>0, <1>1
  <2> QED
    BY <1>0, <1>2, <2>1, BelowGrows DEF Placed
<1> DEFINE low == Below(clens, l)
           high == Below(clens, l + 1)
           x == code[s]
<1>7. Begins(clens, code, s) = x * w /\ Ends(clens, code, s) = x * w + w
  BY DEF Begins, Ends
<1> HIDE DEF w, h, C, n, low, high, x
<1>9. x * w \in Nat /\ C(s) * w \in Nat /\ C(n) * w \in Nat /\ x * w = low + C(s) * w
  BY <1>2, <1>3, <1>4 DEF x, low
<1>10. C(s) * w + w <= C(n) * w
  <2> DEFINE d == C(n) - (C(s) + 1)
  <2>1. d \in Nat /\ C(n) = C(s) + 1 + d
    BY <1>3
  <2> HIDE DEF d
  <2>2. C(n) * w = C(s) * w + w + d * w /\ d * w \in Nat
    BY <1>2, <1>3, <2>1
  <2> QED
    BY <1>2, <1>9, <2>2
<1>11. low <= x * w /\ x * w + w <= high /\ high <= h * w /\ low \in Nat /\ high \in Nat
  BY <1>2, <1>5, <1>6, <1>9, <1>10 DEF low, high
<1>12. x < h
  <2>1. SUFFICES ASSUME x >= h PROVE FALSE
    BY <1>2, <1>4 DEF x
  <2> DEFINE d == x - h
  <2>2. d \in Nat /\ x = h + d
    BY <1>2, <1>4, <2>1 DEF x
  <2> HIDE DEF d
  <2>3. x * w = h * w + d * w /\ d * w \in Nat /\ h * w \in Nat
    BY <1>2, <2>2
  <2> QED
    BY <1>2, <1>11, <2>3
<1>13. x \in 0 .. h - 1
  BY <1>2, <1>4, <1>12 DEF x
<1> QED
  BY <1>1, <1>2, <1>7, <1>9, <1>11, <1>13 DEF w, h, low, high, x

\* Shorter codes come first, and codes of one length in the order of their symbols.
LEMMA CodesOrdered ==
  ASSUME NEW clens, NEW code, Placed(clens, code), NEW r \in Symbols, clens[r] # 0,
         NEW s \in Symbols, clens[s] # 0, Before(clens, r, s)
  PROVE  Ends(clens, code, r) <= Begins(clens, code, s)
<1> DEFINE n == AlphabetSize
<1>0. MaxBits \in 1 .. 15 /\ n \in Nat /\ r \in 0 .. n - 1 /\ s \in 0 .. n - 1 /\ clens \in CodeLengths
  BY Sizes DEF Placed
<1>1. /\ clens[r] \in 1 .. MaxBits /\ clens[s] \in 1 .. MaxBits
      /\ Ends(clens, code, r) \in Nat /\ Begins(clens, code, s) \in Nat
      /\ Ends(clens, code, r) <= Below(clens, clens[r] + 1)
      /\ Below(clens, clens[s]) <= Begins(clens, code, s)
  BY CodeBounds
<1>2. CASE clens[r] < clens[s]
  <2>1. clens[r] + 1 \in 1 .. MaxBits + 1 /\ clens[s] \in 1 .. MaxBits + 1 /\ clens[r] + 1 <= clens[s]
    BY <1>0, <1>1, <1>2
  <2>2. /\ Below(clens, clens[r] + 1) \in Nat /\ Below(clens, clens[s]) \in Nat
        /\ Below(clens, clens[r] + 1) <= Below(clens, clens[s])
    BY <1>0, <2>1, BelowGrows
  <2> QED
    BY <1>1, <2>2
<1>3. CASE clens[r] = clens[s] /\ r < s
  <2> DEFINE l == clens[s]
             w == Power(MaxBits - l)
             C(t) == CountOf(clens, l, t)
             low == Below(clens, l)
  <2>1. w \in Nat
    BY CodeBounds
  <2>2. Begins(clens, code, r) = low + C(r) * w /\ Ends(clens, code, r) = Begins(clens, code, r) + w
    BY <1>3 DEF Placed, Begins, Ends
  <2>3. Begins(clens, code, s) = low + C(s) * w
    BY DEF Placed, Begins
  <2>4. C(r) \in Nat /\ C(s) \in Nat /\ C(r) + 1 <= C(s)
    <3>1. r \in 0 .. n /\ r < n /\ r + 1 \in 0 .. n /\ s \in 0 .. n /\ r + 1 <= s
      BY <1>0, <1>3
    <3>2. C(r) \in Nat /\ C(r + 1) = C(r) + 1 /\ C(s) \in Nat
      BY <1>3, <3>1, CountIs
    <3>3. C(r + 1) <= C(s)
      BY <3>1, CountGrows
    <3> QED
      BY <3>2, <3>3
  <2>5. low \in Nat
    BY <1>0, <1>1, BelowStep
  <2> HIDE DEF l, w, C, low
  <2> DEFINE d == C(s) - (C(r) + 1)
  <2>6. d \in Nat /\ C(s) = C(r) + 1 + d
    BY <2>4
  <2> HIDE DEF d
  <2>7. C(s) * w = C(r) * w + w + d * w /\ d * w \in Nat /\ C(r) * w \in Nat
    BY <2>1, <2>4, <2>6
  <2> QED
    BY <2>1, <2>2, <2>3, <2>5, <2>7
<1> QED
  BY <1>2, <1>3 DEF Before

\* Each number of MaxBits bits is in the range of some code.
LEMMA CodeFound ==
  ASSUME NEW clens, NEW code, Placed(clens, code), NEW x \in 0 .. Power(MaxBits) - 1
  PROVE  \E s \in Symbols : /\ clens[s] # 0
                            /\ Begins(clens, code, s) <= x /\ x < Ends(clens, code, s)
<1> DEFINE B(l) == Below(clens, l)
           T == {l \in 1 .. MaxBits + 1 : x < B(l)}
           n == AlphabetSize
<1>0. /\ MaxBits \in 1 .. 15 /\ n \in Nat /\ n \in 0 .. n /\ clens \in CodeLengths
      /\ B(MaxBits + 1) = Power(MaxBits) /\ Power(MaxBits) \in Nat /\ x \in Nat /\ B(1) = 0
  <2>1. MaxBits \in 0 .. 15 /\ MaxBits \in 1 .. 15 /\ n \in Nat /\ n \in 0 .. n
    BY Sizes
  <2>2. Power(MaxBits) \in Nat
    BY <2>1, Powers
  <2>3. clens \in CodeLengths /\ B(MaxBits + 1) = Power(MaxBits)
    BY DEF Placed
  <2>4. B(1) = 0
    BY <2>3, BelowEnds
  <2> QED
    BY <2>1, <2>2, <2>3, <2>4
<1>1. MaxBits + 1 \in T /\ T \in SUBSET Nat
  BY <1>0
<1>2. PICK top \in T : \A y \in T : top <= y
  <2> HIDE DEF T
  <2> QED
    BY <1>1, LeastNumber
<1> DEFINE l == top - 1
<1>3. top \in 1 .. MaxBits + 1 /\ x < B(top)
  BY <1>2
<1>4. top # 1
  BY <1>0, <1>3
<1>5. l \in 1 .. MaxBits /\ l + 1 = top /\ l < top /\ l \in 1 .. MaxBits + 1 /\ l # 0
  BY <1>0, <1>3, <1>4
<1> HIDE DEF l
<1>6. l \notin T
  BY <1>2, <1>3, <1>5
<1> DEFINE w == Power(MaxBits - l)
           count == CountOf(clens, l, n)
           low == B(l)
<1>7. low \in Nat /\ low <= x
  <2>1. low \in Nat
    BY <1>0, <1>5, BelowStep
  <2> QED
    BY <1>0, <1>5, <1>6, <2>1
<1>8. x < low + count * w
  BY <1>0, <1>3, <1>5, BelowStep
<1>9. w \in Nat /\ w > 0 /\ count \in Nat
  <2>1. MaxBits - l \in 0 .. 15
    BY <1>0, <1>5
  <2> QED
    BY <1>0, <2>1, Powers, CountIs
<1> DEFINE y == x - low
           rank == y \div w
           j == y % w
<1> HIDE DEF T, B, w, count, low
<1>10. y \in Nat /\ x = low + y
  BY <1>0, <1>7
<1> HIDE DEF y
<1>11. rank \in Nat /\ j \in 0 .. w - 1 /\ y = w * rank + j
  BY <1>9, <1>10, DivMod
<1> HIDE DEF rank, j
<1>12. rank < count
  <2>1. SUFFICES ASSUME rank >= count PROVE FALSE
    BY <1>9, <1>11
  <2> DEFINE d == rank - count
  <2>2. d \in Nat /\ rank = count + d
    BY <1>9, <1>11, <2>1
  <2> HIDE DEF d
  <2>3. w * rank = count * w + w * d /\ w * d \in Nat /\ count * w \in Nat
    BY <1>9, <2>2
  <2> QED
    BY <1>7, <1>8, <1>9, <1>10, <1>11, <2>3
<1>13. PICK s \in Symbols : clens[s] = l /\ CountOf(clens, l, s) = rank
  <2>1. rank < CountOf(clens, l, AlphabetSize)
    BY <1>12 DEF count
  <2> QED
    BY <1>11, <2>1, RankFound
<1>14. Begins(clens, code, s) = low + rank * w /\ Ends(clens, code, s) = low + rank * w + w
  <2>1. Begins(clens, code, s) = low + rank * w
    BY <1>5, <1>13 DEF Placed, Begins, low, w, B
  <2>2. Ends(clens, code, s) = Begins(clens, code, s) + w
    BY <1>13 DEF Ends, w
  <2> QED
    BY <2>1, <2>2
<1>15. rank * w = w * rank /\ rank * w \in Nat
  BY <1>9, <1>11
<1> QED
  BY <1>5, <1>7, <1>9, <1>10, <1>11, <1>13, <1>14, <1>15

\* The code of one symbol only begins the way those bits do.
LEMMA OneCode ==
  ASSUME NEW clens, NEW code, Placed(clens, code), NEW x \in 0 .. Power(MaxBits) - 1,
         NEW r \in Symbols, clens[r] # 0, Begins(clens, code, r) <= x, x < Ends(clens, code, r),
         NEW s \in Symbols, clens[s] # 0, Begins(clens, code, s) <= x, x < Ends(clens, code, s)
  PROVE  r = s
<1>1. /\ r \in Nat /\ s \in Nat /\ clens[r] \in Nat /\ clens[s] \in Nat /\ x \in Nat
      /\ Begins(clens, code, r) \in Nat /\ Ends(clens, code, r) \in Nat
      /\ Begins(clens, code, s) \in Nat /\ Ends(clens, code, s) \in Nat
  <2>1. MaxBits \in 0 .. 15 /\ MaxBits \in Nat /\ r \in Nat /\ s \in Nat
    BY Sizes
  <2>2. Power(MaxBits) \in Nat
    BY <2>1, Powers
  <2>3. x \in Nat
    BY <2>2
  <2>4. clens[r] \in 1 .. MaxBits /\ Begins(clens, code, r) \in Nat /\ Ends(clens, code, r) \in Nat
    BY CodeBounds
  <2>5. clens[s] \in 1 .. MaxBits /\ Begins(clens, code, s) \in Nat /\ Ends(clens, code, s) \in Nat
    BY CodeBounds
  <2> QED
    BY <2>1, <2>3, <2>4, <2>5
<1>2. ~ Before(clens, r, s)
  <2> SUFFICES ASSUME Before(clens, r, s) PROVE FALSE
    OBVIOUS
  <2>1. Ends(clens, code, r) <= Begins(clens, code, s)
    BY CodesOrdered
  <2> QED
    BY <1>1, <2>1
<1>3. ~ Before(clens, s, r)
  <2> SUFFICES ASSUME Before(clens, s, r) PROVE FALSE
    OBVIOUS
  <2>1. Ends(clens, code, s) <= Begins(clens, code, r)
    BY CodesOrdered
  <2> QED
    BY <1>1, <2>1
<1> QED
  BY <1>1, <1>2, <1>3 DEF Before

\* A code is what numbers in its range begin with.
LEMMA Beginning ==
  ASSUME NEW clens, NEW code, Placed(clens, code), NEW x \in 0 .. Power(MaxBits) - 1,
         NEW s \in Symbols, clens[s] # 0
  PROVE  code[s] = x \div Power(MaxBits - clens[s])
           <=> Begins(clens, code, s) <= x /\ x < Ends(clens, code, s)
<1> DEFINE w == Power(MaxBits - clens[s])
           c == code[s]
           b == Begins(clens, code, s)
           e == Ends(clens, code, s)
           q == x \div w
           j == x % w
<1>1. w \in Nat /\ w > 0 /\ c \in Nat /\ x \in Nat
  <2>1. MaxBits \in 0 .. 15
    BY Sizes
  <2>2. Power(MaxBits) \in Nat /\ w \in Nat \ {0} /\ c \in 0 .. Power(clens[s]) - 1
    BY <2>1, Powers, CodeBounds
  <2> QED
    BY <2>2
<1>2. b = c * w /\ e = c * w + w
  BY DEF Begins, Ends
<1> HIDE DEF w, c, b, e
<1>3. q \in Nat /\ j \in 0 .. w - 1 /\ x = w * q + j
  BY <1>1, DivMod
<1>4. ASSUME c = q PROVE b <= x /\ x < e
  <2>1. w * q = c * w /\ c * w \in Nat
    BY <1>1, <1>4
  <2> QED
    BY <1>1, <1>2, <1>3, <2>1
<1>5. ASSUME b <= x, x < e PROVE c = q
  <2> DEFINE i == x - b
  <2>1. c * w = w * c /\ w * c \in Nat
    BY <1>1
  <2>2. i \in 0 .. w - 1 /\ x = w * c + i
    BY <1>1, <1>2, <1>5, <2>1
  <2> HIDE DEF i
  <2> QED
    BY <1>1, <2>2, Quotient
<1> QED
  BY <1>4, <1>5 DEF w, c, b, e

(***************************************************************************)
(* The tree that is made of the codes.                                     *)
(***************************************************************************)
Path(clens, code, s) == Bits(code[s], clens[s])

\* The leaves are the symbols that have a length, at the paths of their codes.
LeavesAre(clens, code, t) ==
  /\ \A s \in Symbols : clens[s] # 0 =>
       Path(clens, code, s) \in DOMAIN t /\ t[Path(clens, code, s)] = s
  /\ \A p \in DOMAIN t : \E s \in Symbols : clens[s] # 0 /\ p = Path(clens, code, s)

LEMMA PathIs ==
  ASSUME NEW clens, NEW code, Placed(clens, code), NEW s \in Symbols, clens[s] # 0
  PROVE  /\ Path(clens, code, s) \in [1 .. clens[s] -> {0, 1}]
         /\ Path(clens, code, s) \in Seq({0, 1})
         /\ Len(Path(clens, code, s)) = clens[s]
         /\ Value(Path(clens, code, s)) = Begins(clens, code, s)
<1>1. clens[s] \in 1 .. MaxBits /\ code[s] \in 0 .. Power(clens[s]) - 1
  BY CodeBounds
<1>0. MaxBits \in 1 .. 15
  BY Sizes
<1>2. clens[s] \in 0 .. 15 /\ clens[s] \in 0 .. MaxBits /\ clens[s] \in Nat
  BY <1>0, <1>1
<1>3. Path(clens, code, s) \in [1 .. clens[s] -> {0, 1}]
  BY <1>1, <1>2, BitsHave DEF Path
<1>4. Path(clens, code, s) \in Seq({0, 1}) /\ Len(Path(clens, code, s)) = clens[s]
  BY <1>2, <1>3
<1>5. Value(Path(clens, code, s)) = Begins(clens, code, s)
  BY <1>1, <1>2, ValueOfBits DEF Path, Begins
<1> QED
  BY <1>3, <1>4, <1>5

LEMMA PathsDiffer ==
  ASSUME NEW clens, NEW code, Placed(clens, code), NEW r \in Symbols, clens[r] # 0,
         NEW s \in Symbols, clens[s] # 0, Path(clens, code, r) = Path(clens, code, s)
  PROVE  r = s
<1>1. clens[r] = clens[s]
  BY PathIs
<1>2. /\ clens[s] \in 1 .. MaxBits /\ code[s] \in 0 .. Power(clens[s]) - 1
      /\ Power(MaxBits - clens[s]) \in Nat \ {0} /\ Begins(clens, code, s) \in Nat
  BY CodeBounds
<1>3. code[r] \in 0 .. Power(clens[s]) - 1
  BY <1>1, CodeBounds
<1>0. MaxBits \in 1 .. 15 /\ r \in Nat /\ s \in Nat
  BY Sizes
<1>4. clens[s] \in 0 .. 15
  BY <1>0, <1>2
<1>5. code[r] = code[s]
  BY <1>1, <1>2, <1>3, <1>4, BitsDiffer DEF Path
<1>6. Begins(clens, code, r) = Begins(clens, code, s)
  BY <1>1, <1>5 DEF Begins
<1>7. Ends(clens, code, r) > Begins(clens, code, s) /\ Ends(clens, code, s) > Begins(clens, code, r)
  BY <1>1, <1>2, <1>6 DEF Ends
<1>8. ~ (r < s)
  <2> SUFFICES ASSUME r < s PROVE FALSE
    OBVIOUS
  <2>1. Ends(clens, code, r) <= Begins(clens, code, s)
    BY <1>1, CodesOrdered DEF Before
  <2>2. Ends(clens, code, r) = Begins(clens, code, s) + Power(MaxBits - clens[s])
    BY <1>1, <1>6 DEF Ends
  <2> QED
    BY <1>2, <2>1, <2>2
<1>9. ~ (s < r)
  <2> SUFFICES ASSUME s < r PROVE FALSE
    OBVIOUS
  <2>1. Ends(clens, code, s) <= Begins(clens, code, r)
    BY <1>1, CodesOrdered DEF Before
  <2>2. Ends(clens, code, s) = Begins(clens, code, s) + Power(MaxBits - clens[s])
    BY DEF Ends
  <2> QED
    BY <1>2, <1>6, <2>1, <2>2
<1> QED
  BY <1>0, <1>8, <1>9

\* CodeLengths that fill the space are at least two.
LEMMA SeveralCodes ==
  ASSUME NEW clens, NEW code, Placed(clens, code)
  PROVE  /\ {s \in Symbols : clens[s] # 0} # {}
         /\ Cardinality({s \in Symbols : clens[s] # 0}) # 1
<1> DEFINE coded == {s \in Symbols : clens[s] # 0}
           full == Power(MaxBits)
<1>1. full \in Nat \ {0} /\ MaxBits \in 1 .. 15
  <2>1. MaxBits \in 0 .. 15 /\ MaxBits \in 1 .. 15
    BY Sizes
  <2> QED
    BY <2>1, Powers
<1>2. PICK s \in Symbols : clens[s] # 0 /\ Begins(clens, code, s) <= 0 /\ 0 < Ends(clens, code, s)
  <2>1. 0 \in 0 .. Power(MaxBits) - 1
    BY <1>1
  <2> QED
    BY <2>1, CodeFound
<1>3. PICK r \in Symbols : /\ clens[r] # 0 /\ Begins(clens, code, r) <= full - 1
                           /\ full - 1 < Ends(clens, code, r)
  <2>1. full - 1 \in 0 .. Power(MaxBits) - 1
    BY <1>1
  <2> HIDE DEF full
  <2> QED
    BY <2>1, CodeFound
<1>4. r # s
  <2> SUFFICES ASSUME r = s PROVE FALSE
    OBVIOUS
  <2> DEFINE l == clens[s]
             w == Power(MaxBits - l)
             h == Power(l - 1)
  <2>1. l \in 1 .. MaxBits /\ w \in Nat \ {0} /\ Begins(clens, code, s) \in Nat
    BY <1>2, CodeBounds
  <2>2. /\ l \in 0 .. MaxBits /\ MaxBits \in 0 .. 15 /\ l - 1 \in 0 .. 15 /\ l - 1 < 15
        /\ (l - 1) + 1 = l
    BY <1>1, <2>1
  <2>3. Power(MaxBits) = Power(l) * w
    BY <2>2, PowersAdd
  <2>4. h \in Nat \ {0} /\ Power((l - 1) + 1) = 2 * h
    BY <2>2, Powers
  <2>5. Ends(clens, code, s) = Begins(clens, code, s) + w
    BY DEF Ends
  <2>6. full = (2 * h) * w
    BY <2>2, <2>3, <2>4
  <2> HIDE DEF full, w, h, l
  <2>7. w >= full
    BY <1>1, <1>2, <1>3, <2>1, <2>5
  <2> DEFINE i == h - 1
  <2>8. i \in Nat /\ h = i + 1
    BY <2>4
  <2> HIDE DEF i
  <2>9. (2 * h) * w = 2 * w + (2 * i) * w /\ (2 * i) * w \in Nat
    BY <2>1, <2>8
  <2> QED
    BY <2>1, <2>6, <2>7, <2>9
<1>5. r \in coded /\ s \in coded
  BY <1>2, <1>3
<1>6. IsFiniteSet(coded)
  <2>1. IsFiniteSet(0 .. AlphabetSize - 1)
    BY Sizes, FS_Interval
  <2> QED
    BY <2>1, Sizes, FS_Subset
<1> HIDE DEF coded
<1>7. Cardinality(coded) # 1
  <2> SUFFICES ASSUME Cardinality(coded) = 1 PROVE FALSE
    OBVIOUS
  <2>1. \E x : coded = {x}
    BY <1>6, FS_Singleton
  <2> QED
    BY <1>4, <1>5, <2>1
<1> QED
  BY <1>5, <1>7 DEF coded

\* CreateHuffman gives each symbol its place, and makes a leaf there.
LEMMA HuffmanIs ==
  ASSUME NEW clens \in CodeLengths, Below(clens, MaxBits + 1) = Power(MaxBits)
  PROVE  \E code : Placed(clens, code) /\ LeavesAre(clens, code, CreateHuffman(clens))
<1> DEFINE coded == {s \in DOMAIN clens : clens[s] # 0}
           count == [l \in 0 .. 15 |-> Cardinality({s \in coded : clens[s] = l})]
           offset == Offsets(count)
           Rank(s) == Cardinality({r \in coded : r < s /\ clens[r] = clens[s]})
           code == [s \in coded |-> offset[clens[s]] + Rank(s)]
           path == [s \in coded |-> Bits(offset[clens[s]] + Rank(s), clens[s])]
           t == CreateHuffman(clens)
<1>0. DOMAIN clens = Symbols /\ coded = {s \in Symbols : clens[s] # 0}
  BY DEF CodeLengths
<1>1. /\ MaxBits \in 1 .. 15 /\ AlphabetSize \in Nat /\ \A s \in Symbols : s \in 0 .. AlphabetSize /\ s < AlphabetSize
      /\ Symbols = 0 .. AlphabetSize - 1
  BY Sizes
<1>2. \A s \in Symbols : clens[s] \in 0 .. MaxBits
  BY DEF CodeLengths
<1>3. \A l \in 1 .. 15 : count[l] = CountOf(clens, l, AlphabetSize)
  <2> TAKE l \in 1 .. 15
  <2>1. {s \in coded : clens[s] = l} = Of(clens, l, AlphabetSize)
    BY <1>0, <1>1, <1>2 DEF Of
  <2>2. count[l] = Cardinality({s \in coded : clens[s] = l})
    OBVIOUS
  <2> QED
    BY <2>1, <2>2, Zenon DEF CountOf
<1>4. count[0] = 0
  <2>1. {s \in coded : clens[s] = 0} = {}
    OBVIOUS
  <2>2. count[0] = Cardinality({s \in coded : clens[s] = 0})
    OBVIOUS
  <2> QED
    BY <2>1, <2>2, FS_EmptySet
<1>5. count \in [0 .. 15 -> Nat]
  <2> HIDE DEF coded
  <2>1. \A l \in 0 .. 15 : count[l] \in Nat
    <3> TAKE l \in 0 .. 15
    <3> HIDE DEF count
    <3>1. CASE l = 0
      BY <1>4, <3>1
    <3>2. CASE l \in 1 .. 15
      <4>1. AlphabetSize \in 0 .. AlphabetSize
        BY <1>1
      <4> QED
        BY <1>3, <3>2, <4>1, CountIs
    <3> QED
      BY <3>1, <3>2
  <2>2. \A l \in 0 .. 15 : count[l] = Cardinality({s \in coded : clens[s] = l})
    OBVIOUS
  <2>3. \A l \in 0 .. 15 : Cardinality({s \in coded : clens[s] = l}) \in Nat
    BY <2>1, <2>2
  <2> QED
    BY <2>3
<1>6. \A s \in coded : Rank(s) = CountOf(clens, clens[s], s)
  <2> TAKE s \in coded
  <2>1. {r \in coded : r < s /\ clens[r] = clens[s]} = Of(clens, clens[s], s)
    BY <1>0 DEF Of
  <2> QED
    BY <2>1, Zenon DEF CountOf
<1>7. \A s \in coded : code[s] = offset[clens[s]] + Rank(s)
  OBVIOUS
<1>8. \A s \in coded : path[s] = Path(clens, code, s)
  BY Zenon DEF Path
<1>9. DOMAIN path = coded
  OBVIOUS
<1>10. Cardinality(coded) # 1 /\ coded # {} => t = PathsTo(path)
  BY DEF CreateHuffman
<1> HIDE DEF count, offset, Rank, code, path, t
<1>11. \A l \in 1 .. MaxBits : offset[l] \in Nat /\ offset[l] * Power(MaxBits - l) = Below(clens, l)
  <2>1. \A l \in 1 .. MaxBits : count[l] = CountOf(clens, l, AlphabetSize)
    <3>1. 1 .. MaxBits \subseteq 1 .. 15
      <4>1. MaxBits \in 1 .. 15
        BY <1>1
      <4> QED
        BY <4>1
    <3> QED
      BY <1>3, <3>1
  <2> QED
    BY <1>4, <1>5, <2>1, OffsetsFit DEF offset
<1>12. Placed(clens, code)
  <2> SUFFICES ASSUME NEW s \in Symbols, clens[s] # 0
               PROVE  /\ code[s] \in Nat
                      /\ code[s] * Power(MaxBits - clens[s])
                           = Below(clens, clens[s])
                               + CountOf(clens, clens[s], s) * Power(MaxBits - clens[s])
    BY DEF Placed
  <2> DEFINE l == clens[s]
             w == Power(MaxBits - l)
             c == CountOf(clens, l, s)
             o == offset[l]
  <2>1. l \in 1 .. MaxBits /\ s \in coded
    BY <1>0, <1>1, <1>2
  <2>2. c \in Nat /\ w \in Nat
    <3>1. s \in 0 .. AlphabetSize
      BY <1>1
    <3>2. MaxBits - l \in 0 .. 15
      <4>1. MaxBits \in 1 .. 15 /\ l \in 1 .. MaxBits
        BY <1>1, <2>1
      <4> HIDE DEF l
      <4> QED
        BY <4>1
    <3> QED
      BY <3>1, <3>2, CountIs, Powers
  <2>3. o \in Nat /\ o * w = Below(clens, l)
    BY <1>11, <2>1
  <2>4. code[s] = o + c
    BY <1>6, <1>7, <2>1
  <2> HIDE DEF l, w, c, o
  <2>5. (o + c) * w = o * w + c * w
    BY <2>2, <2>3
  <2> QED
    BY <2>2, <2>3, <2>4, <2>5 DEF l, w, c, o
<1>13. t = PathsTo(path)
  BY <1>0, <1>10, <1>12, SeveralCodes
<1>14. t = [p \in Range(path) |-> Max({s \in coded : path[s] = p})]
  BY <1>9, <1>13 DEF PathsTo
<1>15. ASSUME NEW s \in Symbols, clens[s] # 0
       PROVE  Path(clens, code, s) \in DOMAIN t /\ t[Path(clens, code, s)] = s
  <2> DEFINE p == path[s]
             set == {r \in coded : path[r] = p}
  <2>1. s \in coded /\ p = Path(clens, code, s)
    BY <1>0, <1>8, <1>15
  <2>2. p \in Range(path)
    BY <1>9, <2>1 DEF Range
  <2>3. t[p] = Max(set) /\ p \in DOMAIN t
    BY <1>14, <2>2
  <2>4. \A r \in set : r = s
    <3> TAKE r \in set
    <3>1. r \in Symbols /\ clens[r] # 0 /\ Path(clens, code, r) = Path(clens, code, s)
      BY <1>0, <1>8, <2>1
    <3> QED
      BY <1>12, <1>15, <3>1, PathsDiffer
  <2>5. set # {}
    BY <2>1
  <2> HIDE DEF p, set
  <2>6. Max(set) \in set
    <3>1. AlphabetSize \in Nat /\ \A y \in set : y \in 0 .. AlphabetSize
      BY <1>1, <2>4
    <3> QED
      BY <2>5, <3>1, GreatestIs
  <2> QED
    BY <2>1, <2>3, <2>4, <2>6
<1>16. ASSUME NEW p \in DOMAIN t
       PROVE  \E s \in Symbols : clens[s] # 0 /\ p = Path(clens, code, s)
  <2>1. p \in Range(path)
    BY <1>14, <1>16
  <2>2. PICK s \in coded : p = path[s]
    BY <1>9, <2>1 DEF Range
  <2> QED
    BY <1>0, <1>8, <2>2
<1>17. LeavesAre(clens, code, t)
  BY <1>15, <1>16 DEF LeavesAre
<1> QED
  BY <1>12, <1>17 DEF t

\* Whatever the bits, they begin with one code.
LEMMA TreeIsComplete ==
  ASSUME NEW clens, NEW code, NEW t, Placed(clens, code), LeavesAre(clens, code, t)
  PROVE  Complete(t)
<1>0. MaxBits \in 1 .. 15 /\ MaxBits \in 0 .. 15 /\ MaxBits \in Nat
  BY Sizes
<1>8. Power(MaxBits) \in Nat
  BY <1>0, Powers
<1>9. \A l \in 0 .. MaxBits : l \in 0 .. 15 /\ Power(l) \in Nat
  <2> TAKE l \in 0 .. MaxBits
  <2>1. l \in 0 .. 15
    BY <1>0
  <2> QED
    BY <2>1, Powers
<1> SUFFICES ASSUME NEW bits \in [1 .. MaxBits -> {0, 1}]
             PROVE  Cardinality({p \in DOMAIN t : p = SubSeq(bits, 1, Len(p))}) = 1
  BY DEF Complete
<1>1. PICK num : NumbersOf(num, bits, MaxBits)
  BY <1>0, NumbersExist
<1> DEFINE x == num[MaxBits]
<1>2. x \in 0 .. Power(MaxBits) - 1
  <2>1. x < Power(MaxBits) /\ MaxBits \in 0 .. MaxBits
    BY <1>0, <1>1, NumbersFit
  <2>2. x \in Nat /\ Power(MaxBits) \in Nat
    <3>1. x \in Nat
      BY <1>1, <2>1 DEF NumbersOf
    <3> QED
      BY <1>8, <3>1
  <2> QED
    BY <2>1, <2>2
<1>3. ASSUME NEW s \in Symbols, clens[s] # 0
      PROVE  LET p == Path(clens, code, s)
             IN  p = SubSeq(bits, 1, Len(p))
                   <=> Begins(clens, code, s) <= x /\ x < Ends(clens, code, s)
  <2> DEFINE p == Path(clens, code, s)
             l == clens[s]
  <2>1. l \in 1 .. MaxBits /\ code[s] \in 0 .. Power(l) - 1
    BY <1>3, CodeBounds
  <2>12. l \in 1 .. MaxBits
    BY <2>1
  <2>2. l \in 0 .. MaxBits /\ l \in 0 .. 15 /\ l \in 1 .. MaxBits
    <3> HIDE DEF l
    <3> QED
      BY <1>0, <2>12
  <2>3. Len(p) = l
    BY <1>3, PathIs
  <2>4. SubSeq(bits, 1, l) = FirstBits(bits, l)
    <3>1. SubSeq(bits, 1, l) = [i \in 1 .. l |-> bits[i + 1 - 1]]
      BY <2>2
    <3>2. \A i \in 1 .. l : i + 1 - 1 = i
      BY <2>2
    <3> QED
      BY <3>1, <3>2, Zenon DEF FirstBits
  <2>5. Bits(num[l], l) = FirstBits(bits, l)
    <3> HIDE DEF l
    <3> QED
      BY <1>0, <1>1, <2>2, BitsOfFirst
  <2>6. num[l] = x \div Power(MaxBits - l)
    BY <1>0, <1>1, <2>2, NumbersDivide
  <2>7. num[l] \in 0 .. Power(l) - 1
    <3>1. num[l] < Power(l)
      BY <1>0, <1>1, <2>2, NumbersFit
    <3>2. Power(l) \in Nat
      BY <1>9, <2>2
    <3>3. num[l] \in Nat
      BY <1>1, <2>2 DEF NumbersOf
    <3> QED
      BY <3>1, <3>2, <3>3
  <2>8. Bits(code[s], l) = Bits(num[l], l) <=> code[s] = num[l]
    BY <2>1, <2>2, <2>7, BitsDiffer
  <2>9. code[s] = x \div Power(MaxBits - l)
          <=> Begins(clens, code, s) <= x /\ x < Ends(clens, code, s)
    BY <1>2, <1>3, Beginning
  <2>10. p = Bits(code[s], l)
    BY DEF Path
  <2> HIDE DEF p, l, x
  <2>11. p = SubSeq(bits, 1, Len(p)) <=> code[s] = num[l]
    BY <2>3, <2>4, <2>5, <2>8, <2>10
  <2> QED
    BY <2>6, <2>9, <2>11 DEF p
<1>4. PICK s \in Symbols : clens[s] # 0 /\ Begins(clens, code, s) <= x /\ x < Ends(clens, code, s)
  BY <1>2, CodeFound
<1> DEFINE p == Path(clens, code, s)
           set == {q \in DOMAIN t : q = SubSeq(bits, 1, Len(q))}
<1>5. p \in set
  BY <1>3, <1>4 DEF LeavesAre
<1>6. \A q \in set : q = p
  <2> TAKE q \in set
  <2>1. PICK r \in Symbols : clens[r] # 0 /\ q = Path(clens, code, r)
    BY DEF LeavesAre
  <2>2. Begins(clens, code, r) <= x /\ x < Ends(clens, code, r)
    BY <1>3, <2>1
  <2>3. r = s
    BY <1>2, <1>4, <2>1, <2>2, OneCode
  <2> QED
    BY <2>1, <2>3
<1> HIDE DEF set, p
<1>7. set = {p}
  BY <1>5, <1>6
<1> QED
  BY <1>7, FS_Singleton DEF set

\* Paths in the order of their lengths and symbols are in the order of their values.
LEMMA TreeIsCanonical ==
  ASSUME NEW clens, NEW code, NEW t, Placed(clens, code), LeavesAre(clens, code, t)
  PROVE  Canonical(t)
<1> SUFFICES ASSUME NEW p \in DOMAIN t, NEW q \in DOMAIN t,
                    Len(p) < Len(q) \/ (Len(p) = Len(q) /\ t[p] < t[q])
             PROVE  Value(p) < Value(q)
  BY DEF Canonical
<1>1. PICK r \in Symbols : clens[r] # 0 /\ p = Path(clens, code, r)
  BY DEF LeavesAre
<1>2. PICK s \in Symbols : clens[s] # 0 /\ q = Path(clens, code, s)
  BY DEF LeavesAre
<1>3. t[p] = r /\ t[q] = s
  BY <1>1, <1>2 DEF LeavesAre
<1>4. /\ Len(p) = clens[r] /\ Value(p) = Begins(clens, code, r)
      /\ Len(q) = clens[s] /\ Value(q) = Begins(clens, code, s)
  BY <1>1, <1>2, PathIs
<1>5. Before(clens, r, s)
  BY <1>3, <1>4 DEF Before
<1>6. Ends(clens, code, r) <= Begins(clens, code, s)
  BY <1>1, <1>2, <1>5, CodesOrdered
<1>7. /\ Begins(clens, code, r) \in Nat /\ Power(MaxBits - clens[r]) \in Nat \ {0}
      /\ Begins(clens, code, s) \in Nat
  BY <1>1, <1>2, CodeBounds
<1>8. Ends(clens, code, r) = Begins(clens, code, r) + Power(MaxBits - clens[r])
  BY DEF Ends
<1> QED
  BY <1>4, <1>6, <1>7, <1>8

\* What symbols can take does not reach the range of the space.
LEMMA TakenFits ==
  ASSUME NEW clens \in CodeLengths
  PROVE  Total(Taken(clens), AlphabetSize) \in 0 .. DwordRange - 1
<1> DEFINE n == AlphabetSize
           f == Taken(clens)
           w == Power(MaxBits)
<1>0. n \in Nat /\ MaxBits \in 0 .. 15 /\ n * w < DwordRange /\ DwordRange \in Nat
  BY Sizes
<1>1. w \in Nat
  BY <1>0, Powers
<1>2. \A k \in 1 .. n : f[k] \in Nat /\ f[k] <= w
  <2> TAKE k \in 1 .. n
  <2> DEFINE l == clens[k - 1]
  <2>1. k - 1 \in Symbols /\ f[k] = Share(l) /\ f[k] \in Nat
    BY TakenIs
  <2>2. l \in 0 .. MaxBits
    BY <2>1 DEF CodeLengths
  <2>3. Share(l) = IF l = 0 THEN 0 ELSE Power(MaxBits - l)
    BY <2>2, ShareIs
  <2> HIDE DEF l
  <2>4. Power(MaxBits - l) <= w
    <3>1. l \in 0 .. 15 /\ MaxBits - l \in 0 .. 15
      BY <1>0, <2>2
    <3>2. w = Power(l) * Power(MaxBits - l)
      BY <1>0, <2>2, PowersAdd
    <3>3. Power(l) \in Nat \ {0} /\ Power(MaxBits - l) \in Nat
      BY <3>1, Powers
    <3> DEFINE u == Power(l)
               v == Power(MaxBits - l)
    <3>4. w = u * v /\ u \in Nat \ {0} /\ v \in Nat
      BY <3>2, <3>3
    <3> HIDE DEF w, u, v
    <3>5. PICK i \in Nat : u = i + 1
      <4>1. u - 1 \in Nat /\ u = (u - 1) + 1
        BY <3>4
      <4> QED
        BY <4>1
    <3>7. (i + 1) * v = i * v + v /\ i * v \in Nat
      BY <3>4, <3>5
    <3>6. v <= w
      BY <3>4, <3>5, <3>7
    <3> QED
      BY <3>6 DEF v
  <2> QED
    BY <1>1, <2>1, <2>3, <2>4
<1> HIDE DEF n, f, w
<1>3. \A k \in 1 .. n : f[k] \in Nat
  BY <1>2
<1>4. PICK sum : Sums(sum, f, n) /\ Total(f, n) = sum[n]
  BY <1>0, <1>3, TotalIs
<1> DEFINE T == {k \in 0 .. n : sum[k] <= k * w}
<1>5. 0 \in T
  BY <1>0, <1>1, <1>4 DEF Sums
<1>6. ASSUME NEW k \in 0 .. n - 1, k \in T PROVE k + 1 \in T
  <2>1. sum[k] <= k * w /\ k + 1 \in 0 .. n /\ k + 1 \in 1 .. n /\ k \in 0 .. n /\ k \in Nat
    BY <1>0, <1>6
  <2>2. sum[k + 1] = sum[k] + f[k + 1] /\ sum[k] \in Nat
    BY <1>4, <2>1 DEF Sums
  <2>3. (k + 1) * w = k * w + w /\ k * w \in Nat
    BY <1>1, <2>1
  <2>4. f[k + 1] \in Nat /\ f[k + 1] <= w
    BY <1>2, <2>1
  <2> QED
    BY <1>1, <2>1, <2>2, <2>3, <2>4
<1> HIDE DEF T
<1>7. \A k \in 0 .. n : k \in T
  BY <1>0, <1>5, <1>6, UpTo
<1>8. sum[n] \in Nat /\ sum[n] <= n * w
  BY <1>0, <1>4, <1>7 DEF T, Sums
<1>9. n * w \in Nat
  BY <1>0, <1>1
<1>10. Total(f, n) \in 0 .. DwordRange - 1
  BY <1>0, <1>4, <1>8, <1>9 DEF n, w
<1> QED
  BY <1>10 DEF n, f

LEMMA CodeIsCanonical ==
  ASSUME ReadInv
  PROVE  CanonicalCode
<1> SUFFICES ASSUME stage = "complex", space = 0
             PROVE  /\ Complete(tree) /\ Canonical(tree) /\ Range(tree) = Used
                    /\ \A p \in DOMAIN tree : Len(p) = codeLength[tree[p]]
  BY DEF CanonicalCode
<1>1. codeLength \in CodeLengths /\ tree = CreateHuffman(codeLength) /\ SpaceIsLeft
  BY DEF ReadInv, PcTypeOK, TreeInv, CodeLengths
<1> DEFINE total == Total(Taken(codeLength), AlphabetSize)
<1>2. total = Power(MaxBits)
  <2>1. (0 + total) % DwordRange = Power(MaxBits)
    BY <1>1, Zenon DEF SpaceIsLeft, Power
  <2>2. total \in 0 .. DwordRange - 1 /\ DwordRange \in Nat /\ DwordRange > 0
    BY <1>1, TakenFits, Sizes
  <2> HIDE DEF total
  <2>3. total = DwordRange * 0 + total /\ 0 + total = total /\ total \in Nat
    BY <2>2
  <2>4. total % DwordRange = total
    BY <2>2, <2>3, Quotient
  <2> QED
    BY <2>1, <2>3, <2>4
<1>3. Below(codeLength, MaxBits + 1) = Power(MaxBits)
  BY <1>1, <1>2, BelowEnds
<1>4. PICK code : Placed(codeLength, code) /\ LeavesAre(codeLength, code, tree)
  BY <1>1, <1>3, HuffmanIs
<1>5. Complete(tree) /\ Canonical(tree)
  BY <1>4, TreeIsComplete, TreeIsCanonical
<1>6. Range(tree) = Used
  BY <1>4 DEF LeavesAre, Used, Range
<1>7. ASSUME NEW p \in DOMAIN tree PROVE Len(p) = codeLength[tree[p]]
  <2>1. PICK s \in Symbols : codeLength[s] # 0 /\ p = Path(codeLength, code, s)
    BY <1>4, <1>7 DEF LeavesAre
  <2>2. tree[p] = s
    BY <1>4, <2>1 DEF LeavesAre
  <2> QED
    BY <1>4, <2>1, <2>2, PathIs
<1> QED
  BY <1>5, <1>6, <1>7

THEOREM CodeCorrect == PcSpec => []CodeInv
<1>1. ReadInv => CodeInv
  BY CodeIsCanonical DEF ReadInv, CodeInv
<1> QED
  BY <1>1, CodeInvariance, PTL

=============================================================================
