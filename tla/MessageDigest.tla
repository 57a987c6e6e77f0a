---------------------------- MODULE MessageDigest ----------------------------
(***************************************************************************)
(* Cryptography::MessageDigest and its subclasses: MD4, MD5 and the SHA    *)
(* family keep a block, fill it in update() and hash it whenever it is     *)
(* full; finally() pads copies of the block and of the digest.  The hash   *)
(* of a block stands for itself: a digest is the sequence of the bytes     *)
(* that went into it, whole blocks one after the other.                    *)
(***************************************************************************)
EXTENDS Endian

CONSTANTS
  Types,      \* bound: the subclasses
  Data,       \* bound: what one call of update() may pass
  MaxLength,  \* bound: how long the message gets: 64 bits count its bits
  Garbage,    \* bound: bytes an uninitialised block may hold
  None        \* no answer yet

\* size: how many bytes of a block are filled; field: how many the length takes
\* (none in a sponge); order: their byte order; first: the byte after the
\* message; output: how many bits finally() returns; extends: whether a sponge
\* squeezes as long as it takes.
Kind == [size : Nat, field : Nat, order : {"LE", "BE"}, first : Byte, output : Nat,
         extends : BOOLEAN]

ASSUME DigestAssumption ==
  /\ \A t \in Types : /\ t \in Kind
                      /\ t.size > 0 /\ t.field <= t.size
                      /\ t.field \in {0, 8, 16}
                      /\ t.field > 0 => ~ t.extends
                      /\ t.field = 0 => t.first < 128
                      /\ ~ t.extends => t.output % 8 = 0 /\ t.output \div 8 <= t.size
  /\ Data \subseteq Seq(Byte)
  /\ MaxLength \in Nat /\ (MaxLength \div 16777216) \div 16777216 < 8192
  /\ Garbage \subseteq Byte

VARIABLES
  type,       \* the subclass of the object
  block, position, digest, length,   \* its members
  log,        \* history: the bytes passed to update()
  pc, left,   \* update(): the bytes not yet copied
  blk, pos, dig,                     \* finally(): its copies
  turn, out,  \* SHAKE::finally(): permutations after the last block, bytes taken
  answer      \* what finally() returned, until the next call

object == <<block, position, digest, length>>
final == <<blk, pos, dig, turn, out>>
vars == <<type, object, log, pc, left, final, answer>>

size == type.size
IsSponge == type.field = 0

Init ==
  /\ type \in Types
  /\ \E g \in (IF IsSponge THEN {0} ELSE Garbage) : block = [i \in 1 .. size |-> g]
  /\ position = 0 /\ digest = <<>> /\ length = 0
  /\ log = <<>> /\ pc = "ready" /\ left = <<>>
  /\ blk = <<>> /\ pos = 0 /\ dig = <<>> /\ turn = 0 /\ out = <<>>
  /\ answer = None

\* Memory::copy and Memory::fill over part of a block.
Copied(b, at, bytes, n) ==
  [i \in 1 .. size |-> IF at < i /\ i <= at + n THEN bytes[i - at] ELSE b[i]]
Cleared(b, at) == [i \in 1 .. size |-> IF i <= at THEN b[i] ELSE 0]

\* Appendix32 and Appendix64: the length in bits takes the end of the block.
LengthField ==
  LET bytes == IF type.order = "LE" THEN SaveAsLEndian(length, 8)
               ELSE SaveAsBEndian(length, 8)
  IN  IF type.field = 16 THEN SaveAsBEndian(0, 8) \o bytes ELSE bytes

\* What finally() returns: the bytes that went into the digest, and of the
\* digest after how many more permutations which bytes, and how many bits.
Returned(absorbed, bytes) == [absorbed |-> absorbed, out |-> bytes]
Bytes(bits) == bits \div 8 + (IF bits % 8 > 0 THEN 1 ELSE 0)
Whole(n) == [i \in 1 .. n |-> <<0, i - 1, 8>>]

-------------------------------------------------------------------------------
\* How many bytes fit.
Fits == IF Len(left) < size - position THEN Len(left) ELSE size - position

(***************************************************************************)
(* Faulty variants.                                                        *)
(***************************************************************************)
Appendix_Above ==                     \* room for the length is asked once too much
  /\ pc = "append"
  /\ IF size - pos <= type.field
     THEN /\ blk' = Cleared(blk, pos)
          /\ pos' = 0
          /\ UNCHANGED <<pc, answer>>
     ELSE /\ blk' = Copied(Cleared(blk, pos), size - type.field, LengthField, type.field)
          /\ pos' = size + type.field - 8
          /\ answer' = Returned(dig \o blk', Whole(Bytes(type.output)))
          /\ pc' = "ready"
  /\ dig' = dig \o blk'
  /\ UNCHANGED <<type, object, log, left, turn, out>>

Squeeze_Again ==                      \* the first block is taken over and over
  /\ pc = "squeeze" /\ Len(out) < Bytes(type.output)
  /\ LET n == IF Bytes(type.output) - Len(out) < size THEN Bytes(type.output) - Len(out)
              ELSE size
     IN  out' = out \o [i \in 1 .. n |-> <<0, i - 1, 8>>]
  /\ turn' = turn + 1
  /\ UNCHANGED <<type, object, log, pc, left, blk, pos, dig, answer>>

-------------------------------------------------------------------------------
(***************************************************************************)
(* update().                                                               *)
(***************************************************************************)
Update(data) ==
  /\ pc = "ready"
  /\ Len(log) + Len(data) <= MaxLength
  /\ length' = length + 8 * Len(data)
  /\ log' = log \o data /\ left' = data
  /\ pc' = "update"
  /\ answer' = None
  /\ UNCHANGED <<type, block, position, digest, final>>

\* One turn of the loop.
Copy ==
  /\ pc = "update" /\ left # <<>>
  /\ block' = Copied(block, position, left, Fits)
  /\ left' = SubSeq(left, Fits + 1, Len(left))
  /\ IF position + Fits >= size
     THEN position' = 0 /\ digest' = digest \o block'
     ELSE position' = position + Fits /\ UNCHANGED digest
  /\ UNCHANGED <<type, length, log, pc, final, answer>>

Updated ==
  /\ pc = "update" /\ left = <<>>
  /\ pc' = "ready"
  /\ UNCHANGED <<type, object, log, left, final, answer>>

(***************************************************************************)
(* finally(), on copies.                                                   *)
(***************************************************************************)
Finally ==
  /\ pc = "ready" /\ ~ (type.extends /\ type.output = 0)
  /\ dig' = digest
  /\ blk' = [block EXCEPT ![position + 1] = type.first]
  /\ pos' = position + 1
  /\ turn' = 0 /\ out' = <<>>
  /\ answer' = None
  /\ pc' = IF IsSponge THEN "pad" ELSE "append"
  /\ UNCHANGED <<type, object, log, left>>

\* SHAKE: no output takes no work.
FinallyEmpty ==
  /\ pc = "ready" /\ type.extends /\ type.output = 0
  /\ answer' = Returned(<<>>, <<>>)
  /\ UNCHANGED <<type, object, log, pc, left, final>>

\* One turn of the loop: appendix() and computation().
Appendix ==
  /\ pc = "append"
  /\ IF size - pos < type.field
     THEN /\ blk' = Cleared(blk, pos)
          /\ pos' = 0
          /\ UNCHANGED <<pc, answer>>
     ELSE /\ blk' = Copied(Cleared(blk, pos), size - type.field, LengthField, type.field)
          /\ pos' = size + type.field - 8
          /\ answer' = Returned(dig \o blk', Whole(Bytes(type.output)))
          /\ pc' = "ready"
  /\ dig' = dig \o blk'
  /\ UNCHANGED <<type, object, log, left, turn, out>>

\* SHA3 and SHAKE: PAD101 sets the last bit of the block.
Pad101 ==
  /\ pc = "pad"
  /\ blk' = [Cleared(blk, pos) EXCEPT ![size] = (@ % 128) + 128]
  /\ dig' = dig \o blk'
  /\ IF type.extends
     THEN pc' = "squeeze" /\ UNCHANGED answer
     ELSE pc' = "ready" /\ answer' = Returned(dig', Whole(Bytes(type.output)))
  /\ UNCHANGED <<type, object, log, left, pos, turn, out>>

\* SHAKE: a block of the output, and the next permutation.
Squeeze ==
  /\ pc = "squeeze" /\ Len(out) < Bytes(type.output)
  /\ LET n == IF Bytes(type.output) - Len(out) < size THEN Bytes(type.output) - Len(out)
              ELSE size
     IN  out' = out \o [i \in 1 .. n |-> <<turn, i - 1, 8>>]
  /\ turn' = turn + 1
  /\ UNCHANGED <<type, object, log, pc, left, blk, pos, dig, answer>>

\* SHAKE: the last byte loses the bits that were not asked for.
Squeezed ==
  /\ pc = "squeeze" /\ Len(out) = Bytes(type.output)
  /\ out' = [out EXCEPT ![Len(out)][3] = 8 - ((8 - (type.output % 8)) % 8)]
  /\ answer' = Returned(dig, out')
  /\ pc' = "ready"
  /\ UNCHANGED <<type, object, log, left, blk, pos, dig, turn>>

Step == Copy \/ Updated \/ Appendix \/ Pad101 \/ Squeeze \/ Squeezed
Next == (\E data \in Data : Update(data)) \/ Finally \/ FinallyEmpty \/ Step

Spec == Init /\ [][Next]_vars
-------------------------------------------------------------------------------
(***************************************************************************)
(* Properties.                                                             *)
(***************************************************************************)
ObjectType ==
  /\ type \in Types
  /\ block \in [1 .. size -> Byte] /\ position \in 0 .. size - 1
  /\ digest \in Seq(Byte) /\ length \in Nat
  /\ log \in Seq(Byte) /\ left \in Seq(Byte)
  /\ pc \in {"ready", "update", "append", "pad", "squeeze"}

FinalType ==
  /\ pc \in {"append", "pad"} => blk \in [1 .. size -> Byte] /\ pos <= size
  /\ pos \in Nat /\ dig \in Seq(Byte)
  /\ pc = "append" => ~ IsSponge
  /\ pc \in {"pad", "squeeze"} => IsSponge
  /\ turn \in Nat /\ out \in Seq(Nat \X Nat \X (0 .. 8))

TypeOK == ObjectType /\ FinalType

InBlocks(q) == \E n \in 0 .. Len(q) : Len(q) = n * size

Zeros(n) == [i \in 1 .. n |-> 0]

\* What was hashed for a message m is m, padded as the standards say.  RFC 1321
\* and RFC 3174: a 1 bit, as few zeros as make the whole a multiple of the block,
\* and the length of m in bits in the last 8 or 16 bytes.
Padded(p, m) ==
  LET f == SubSeq(p, Len(p) - type.field + 1, Len(p))
      bits == SubSeq(f, type.field - 7, type.field)
  IN  /\ Len(p) >= type.field
      /\ \E k \in 0 .. size - 1 : p = m \o <<type.first>> \o Zeros(k) \o f
      /\ \A i \in 1 .. type.field - 8 : f[i] = 0
      /\ 8 * Len(m) = IF type.order = "LE" THEN GetAsLEndian(bits) ELSE GetAsBEndian(bits)

\* Keccak: the suffix, zeros, and a 1 bit that ends the block.
Padded101(p, m) ==
  \/ \E k \in 0 .. size - 2 : p = m \o <<type.first>> \o Zeros(k) \o <<128>>
  \/ p = m \o <<type.first + 128>>

\* However a message is cut into calls of update(), and whatever was asked of the
\* object before, finally() hashes the message padded by the standard, in whole
\* blocks.
HashesPadded ==
  answer # None /\ answer.out # <<>> =>
    /\ InBlocks(answer.absorbed)
    /\ IF IsSponge THEN Padded101(answer.absorbed, log) ELSE Padded(answer.absorbed, log)

\* Byte i of the output is byte i of the squeezed blocks, in order, and the last
\* one has as many bits as are left.
OutputInOrder ==
  answer # None =>
    /\ Len(answer.out) = Bytes(type.output)
    /\ \A i \in DOMAIN answer.out :
         answer.out[i] = <<(i - 1) \div size, (i - 1) % size,
                           IF 8 * i <= type.output THEN 8 ELSE type.output % 8>>

(***************************************************************************)
(* The inductive invariant: digest, block and what is left to copy are the *)
(* message, and finally()'s copies are the message with its padding so far.*)
(***************************************************************************)
Buffered ==
  /\ Len(log) = Len(digest) + position + Len(left) /\ Len(log) <= MaxLength
  /\ \A i \in 1 .. Len(digest) : digest[i] = log[i]
  /\ \A i \in 1 .. position : block[i] = log[Len(digest) + i]
  /\ \A i \in 1 .. Len(left) : left[i] = log[Len(digest) + position + i]
  /\ length = 8 * Len(log)
  /\ pc # "update" => left = <<>>

Padding ==
  /\ pc \in {"append", "pad"} =>
       /\ Len(log) < Len(dig) + pos
       /\ \/ Len(dig) + pos = Len(log) + 1 /\ pos > 0
          \/ pos = 0 /\ Len(dig) <= Len(log) + type.field /\ pc = "append"
       /\ \A i \in 1 .. Len(dig) :
            dig[i] = IF i <= Len(log) THEN log[i] ELSE IF i = Len(log) + 1 THEN type.first ELSE 0
       /\ \A i \in 1 .. pos :
            blk[i] = IF Len(dig) + i <= Len(log) THEN log[Len(dig) + i] ELSE type.first
  /\ pc = "squeeze" => Padded101(dig, log)

DigestInv ==
  /\ TypeOK /\ Buffered /\ Padding /\ InBlocks(digest) /\ InBlocks(dig)
  /\ HashesPadded

\* What SHAKE has squeezed so far: whole blocks, or all that was asked for.
Squeezing ==
  /\ pc = "pad" => turn = 0 /\ out = <<>>
  /\ pc \in {"pad", "squeeze"} /\ type.extends => type.output > 0
  /\ pc = "squeeze" =>
       /\ type.extends /\ Len(out) <= Bytes(type.output)
       /\ Len(out) < Bytes(type.output) => Len(out) = size * turn
       /\ \A i \in 1 .. Len(out) : out[i] = <<(i - 1) \div size, (i - 1) % size, 8>>

OutputInv == Squeezing /\ OutputInOrder

===============================================================================
