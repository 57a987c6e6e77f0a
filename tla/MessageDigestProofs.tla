------------------------- MODULE MessageDigestProofs -------------------------
(***************************************************************************)
(* Proofs about Endian and MessageDigest, for any subclass whose length    *)
(* field fits its block, any messages and any way to cut them into calls.  *)
(***************************************************************************)
EXTENDS MessageDigest, DataLemmas, SequenceTheorems, TLAPS

(***************************************************************************)
(* Byte order.                                                             *)
(***************************************************************************)
LEMMA OctetType ==
  ASSUME NEW x \in Nat, NEW i \in 0 .. 7
  PROVE  Octet(x, i) \in Byte
<1> DEFINE high == IF i < 3 THEN x
                   ELSE IF i < 6 THEN x \div 16777216
                   ELSE (x \div 16777216) \div 16777216
           q == high \div <<1, 256, 65536>>[(i % 3) + 1]
<1>1. x \div 16777216 \in Nat
  BY Split24
<1>2. (x \div 16777216) \div 16777216 \in Nat
  BY <1>1, Split24
<1>3. high \in Nat
  BY <1>1, <1>2, SMT
<1> HIDE DEF high
<1>4. high \div 1 \in Nat /\ high \div 256 \in Nat /\ high \div 65536 \in Nat
  BY <1>3, SMT
<1>5. i % 3 \in {0, 1, 2}
  OBVIOUS
<1>6. q \in Nat
  BY <1>4, <1>5, SMT
<1> HIDE DEF q
<1>7. q % 256 \in 0 .. 255
  BY <1>6, Shift8
<1> QED
  BY <1>7, SMT DEF Octet, Byte, q, high

\* The octets of a number, from the last to the first.
LEMMA Octets ==
  ASSUME NEW x \in Nat
  PROVE  LET middle == x \div 16777216
             high == middle \div 16777216
         IN  /\ Octet(x, 0) = x % 256 /\ Octet(x, 1) = (x \div 256) % 256
             /\ Octet(x, 2) = (x \div 65536) % 256
             /\ Octet(x, 3) = middle % 256 /\ Octet(x, 4) = (middle \div 256) % 256
             /\ Octet(x, 5) = (middle \div 65536) % 256
             /\ Octet(x, 6) = high % 256 /\ Octet(x, 7) = (high \div 256) % 256
<1> DEFINE middle == x \div 16777216
           high == middle \div 16777216
<1>1. middle \in Nat
  BY Split24
<1>2. high \in Nat
  BY <1>1, Split24
<1>3. x \div 1 = x /\ middle \div 1 = middle /\ high \div 1 = high
  BY <1>1, <1>2, SMT
<1> HIDE DEF middle, high
<1>4. Octet(x, 0) = x % 256
  BY <1>3, SMT DEF Octet
<1>5. Octet(x, 1) = (x \div 256) % 256
  BY SMT DEF Octet
<1>6. Octet(x, 2) = (x \div 65536) % 256
  BY SMT DEF Octet
<1>7. Octet(x, 3) = middle % 256
  BY <1>3, SMT DEF Octet, middle
<1>8. Octet(x, 4) = (middle \div 256) % 256
  BY SMT DEF Octet, middle
<1>9. Octet(x, 5) = (middle \div 65536) % 256
  BY SMT DEF Octet, middle
<1>10. Octet(x, 6) = high % 256
  BY <1>3, SMT DEF Octet, middle, high
<1>11. Octet(x, 7) = (high \div 256) % 256
  BY SMT DEF Octet, middle, high
<1> QED
  BY <1>4, <1>5, <1>6, <1>7, <1>8, <1>9, <1>10, <1>11, SMT DEF middle, high

\* Eight bytes saved in either order read back as the number they were.
THEOREM SaveReadBack ==
  ASSUME NEW x \in Nat, In64Bits(x)
  PROVE  /\ SaveAsBEndian(x, 8) \in Seq(Byte) /\ Len(SaveAsBEndian(x, 8)) = 8
         /\ SaveAsLEndian(x, 8) \in Seq(Byte) /\ Len(SaveAsLEndian(x, 8)) = 8
         /\ GetAsBEndian(SaveAsBEndian(x, 8)) = x
         /\ GetAsLEndian(SaveAsLEndian(x, 8)) = x
<1> DEFINE middle == x \div 16777216
           high == middle \div 16777216
<1>1. \A i \in 0 .. 7 : Octet(x, i) \in Byte
  BY OctetType, SMT
<1>2. SaveAsBEndian(x, 8) \in Seq(Byte) /\ Len(SaveAsBEndian(x, 8)) = 8
  <2>1. \A i \in 1 .. 8 : 8 - i \in 0 .. 7
    OBVIOUS
  <2> QED
    BY <1>1, <2>1, SMT DEF SaveAsBEndian
<1>3. SaveAsLEndian(x, 8) \in Seq(Byte) /\ Len(SaveAsLEndian(x, 8)) = 8
  <2>1. \A i \in 1 .. 8 : i - 1 \in 0 .. 7
    OBVIOUS
  <2> QED
    BY <1>1, <2>1, SMT DEF SaveAsLEndian
<1>4. x = (((((((Octet(x, 7) * 256 + Octet(x, 6)) * 256 + Octet(x, 5)) * 256
            + Octet(x, 4)) * 256 + Octet(x, 3)) * 256 + Octet(x, 2)) * 256
            + Octet(x, 1)) * 256 + Octet(x, 0))
  <2>1. x = (((((((((high \div 256) % 256) * 256 + (high % 256)) * 256
                + ((middle \div 65536) % 256)) * 256
                + ((middle \div 256) % 256)) * 256 + (middle % 256)) * 256
                + ((x \div 65536) % 256)) * 256
                + ((x \div 256) % 256)) * 256 + (x % 256))
    BY Split64
  <2>2. /\ Octet(x, 0) = x % 256 /\ Octet(x, 1) = (x \div 256) % 256
        /\ Octet(x, 2) = (x \div 65536) % 256
        /\ Octet(x, 3) = middle % 256 /\ Octet(x, 4) = (middle \div 256) % 256
        /\ Octet(x, 5) = (middle \div 65536) % 256
        /\ Octet(x, 6) = high % 256 /\ Octet(x, 7) = (high \div 256) % 256
    BY Octets
  <2> HIDE DEF middle, high
  <2> QED
    BY <2>1, <2>2
<1>5. GetAsBEndian(SaveAsBEndian(x, 8)) = x
  BY <1>4, SMT DEF GetAsBEndian, SaveAsBEndian
<1>6. GetAsLEndian(SaveAsLEndian(x, 8)) = x
  BY <1>4, SMT DEF GetAsLEndian, SaveAsLEndian
<1> QED
  BY <1>2, <1>3, <1>5, <1>6, SMT

(***************************************************************************)
(* Blocks.                                                                 *)
(***************************************************************************)
LEMMA TypeFacts ==
  ASSUME ObjectType
  PROVE  /\ size \in Nat /\ size > 0 /\ type.field \in {0, 8, 16} /\ type.field <= size
         /\ type.first \in Byte /\ type.output \in Nat /\ type.order \in {"LE", "BE"}
<1>1. type \in Kind /\ type.size > 0 /\ type.field <= type.size /\ type.field \in {0, 8, 16}
  BY DigestAssumption DEF ObjectType
<1> QED
  BY <1>1 DEF Kind, size

\* A block is a sequence of its size.
LEMMA BlockIsSeq ==
  ASSUME size \in Nat, NEW b \in [1 .. size -> Byte]
  PROVE  b \in Seq(Byte) /\ Len(b) = size
<1>1. b \in Seq(Byte)
  BY SeqDef, Zenon
<1> QED
  BY <1>1

LEMMA ByteZero == 0 \in Byte
  BY DEF Byte

LEMMA ClearedType ==
  ASSUME size \in Nat, NEW b \in [1 .. size -> Byte], NEW at \in Nat
  PROVE  Cleared(b, at) \in [1 .. size -> Byte]
  BY ByteZero DEF Cleared

LEMMA CopiedType ==
  ASSUME size \in Nat, NEW b \in [1 .. size -> Byte], NEW at \in Nat,
         NEW q \in Seq(Byte), NEW n \in Nat, n <= Len(q)
  PROVE  Copied(b, at, q, n) \in [1 .. size -> Byte]
<1>1. \A i \in 1 .. size : at < i /\ i <= at + n => q[i - at] \in Byte
  <2> SUFFICES ASSUME NEW i \in 1 .. size, at < i, i <= at + n
               PROVE  q[i - at] \in Byte
    OBVIOUS
  <2>1. i - at \in 1 .. Len(q)
    OBVIOUS
  <2> QED
    BY <2>1
<1> QED
  BY <1>1 DEF Copied

\* One more block makes one more block.
LEMMA MoreBlocks ==
  ASSUME size \in Nat, size > 0, NEW q \in Seq(Byte), NEW b \in [1 .. size -> Byte], InBlocks(q)
  PROVE  /\ q \o b \in Seq(Byte) /\ Len(q \o b) = Len(q) + size /\ InBlocks(q \o b)
         /\ \A i \in 1 .. Len(q) : (q \o b)[i] = q[i]
         /\ \A i \in 1 .. size : (q \o b)[Len(q) + i] = b[i]
<1>1. b \in Seq(Byte) /\ Len(b) = size
  BY BlockIsSeq
<1>2. q \o b \in Seq(Byte) /\ Len(q \o b) = Len(q) + size
  BY <1>1
<1>3. /\ \A i \in 1 .. Len(q) : (q \o b)[i] = q[i]
      /\ \A i \in 1 .. size : (q \o b)[Len(q) + i] = b[i]
  BY <1>1
<1>4. PICK n \in 0 .. Len(q) : Len(q) = n * size
  BY DEF InBlocks
<1>5. n + 1 \in 0 .. Len(q) + size /\ (n + 1) * size = n * size + size
  BY <1>4
<1>6. InBlocks(q \o b)
  BY <1>2, <1>4, <1>5 DEF InBlocks
<1> QED
  BY <1>2, <1>3, <1>6

(***************************************************************************)
(* The steps.                                                              *)
(***************************************************************************)
LEMMA Initially == Init => DigestInv
<1> SUFFICES ASSUME Init PROVE DigestInv
  OBVIOUS
<1>1. type \in Kind /\ size \in Nat /\ size > 0
  BY DigestAssumption DEF Init, Kind, size
<1>2. block \in [1 .. size -> Byte]
  BY DigestAssumption, ByteZero DEF Init
<1>3. TypeOK
  BY <1>1, <1>2 DEF Init, TypeOK, ObjectType, FinalType
<1>4. Buffered /\ Padding
  BY DigestAssumption DEF Init, Buffered, Padding
<1>5. InBlocks(digest) /\ InBlocks(dig)
  BY <1>1 DEF Init, InBlocks
<1>6. HashesPadded
  BY DEF Init, HashesPadded
<1> QED
  BY <1>3, <1>4, <1>5, <1>6 DEF DigestInv

LEMMA UpdateStep ==
  ASSUME DigestInv, NEW data \in Data, Update(data)
  PROVE  DigestInv'
<1>0. ObjectType /\ FinalType /\ Buffered /\ data \in Seq(Byte)
  BY DigestAssumption DEF DigestInv, TypeOK
<1>1. size' = size
  BY DEF Update, size
<1>2. left = <<>>
  BY <1>0 DEF Update, Buffered
<1>3. ObjectType'
  BY <1>0, <1>1 DEF Update, ObjectType
<1>4. FinalType'
  BY <1>0, <1>1 DEF Update, FinalType, final
<1>5. Buffered'
  <2>1. /\ log' \in Seq(Byte) /\ Len(log') = Len(log) + Len(data)
        /\ \A i \in 1 .. Len(log) : log'[i] = log[i]
        /\ \A i \in 1 .. Len(data) : log'[Len(log) + i] = data[i]
    BY <1>0 DEF Update, ObjectType
  <2>2. Len(log) = Len(digest) + position
    BY <1>0, <1>2 DEF Buffered, ObjectType
  <2>3. length' = 8 * Len(log')
    BY <1>0, <2>1 DEF Update, Buffered, ObjectType
  <2>4. digest \in Seq(Byte) /\ position \in Nat
    BY <1>0, TypeFacts DEF ObjectType
  <2>5. /\ \A i \in 1 .. Len(digest) : digest[i] = log'[i]
        /\ \A i \in 1 .. position : block[i] = log'[Len(digest) + i]
        /\ \A i \in 1 .. Len(data) : data[i] = log'[Len(digest) + position + i]
    <3>1. \A i \in 1 .. Len(digest) : i \in 1 .. Len(log)
      BY <2>2, <2>4
    <3>2. \A i \in 1 .. position : Len(digest) + i \in 1 .. Len(log)
      BY <2>2, <2>4
    <3>3. /\ \A i \in 1 .. Len(digest) : digest[i] = log[i]
          /\ \A i \in 1 .. position : block[i] = log[Len(digest) + i]
      BY <1>0 DEF Buffered
    <3>4. \A i \in 1 .. Len(data) : Len(digest) + position + i = Len(log) + i
      BY <2>2, <2>4
    <3>5. \A i \in 1 .. Len(data) : data[i] = log'[Len(digest) + position + i]
      BY <2>1, <3>4
    <3> QED
      BY <2>1, <3>1, <3>2, <3>3, <3>5
  <2>6. Len(log') <= MaxLength /\ Len(log') = Len(digest) + position + Len(data)
    BY <2>1, <2>2 DEF Update
  <2> QED
    BY <2>3, <2>5, <2>6 DEF Update, Buffered
<1>6. Padding'
  BY DEF Update, Padding
<1>7. InBlocks(digest)' /\ InBlocks(dig)'
  BY <1>1 DEF DigestInv, Update, InBlocks, final
<1>8. HashesPadded'
  BY DEF Update, HashesPadded
<1> QED
  BY <1>3, <1>4, <1>5, <1>6, <1>7, <1>8 DEF DigestInv, TypeOK

LEMMA FitsFacts ==
  ASSUME ObjectType
  PROVE  /\ Fits \in Nat /\ Fits <= Len(left) /\ position + Fits <= size
         /\ position + Fits < size => Fits = Len(left)
  BY TypeFacts DEF ObjectType, Fits

LEMMA CopyStep ==
  ASSUME DigestInv, Copy
  PROVE  DigestInv'
<1>0. ObjectType /\ FinalType /\ Buffered /\ InBlocks(digest)
  BY DEF DigestInv, TypeOK
<1>1. size' = size /\ size \in Nat /\ size > 0
  BY <1>0, TypeFacts DEF Copy, size
<1>2. /\ Fits \in Nat /\ Fits <= Len(left) /\ position + Fits <= size
      /\ position \in Nat /\ left \in Seq(Byte) /\ digest \in Seq(Byte)
      /\ log \in Seq(Byte)
  BY <1>0, <1>1, FitsFacts DEF ObjectType
<1>3. block' \in [1 .. size -> Byte]
  BY <1>0, <1>1, <1>2, CopiedType DEF Copy, ObjectType
<1>4. /\ left' \in Seq(Byte) /\ Len(left') = Len(left) - Fits
      /\ \A i \in 1 .. Len(left') : left'[i] = left[Fits + i]
  BY <1>2 DEF Copy
<1>5. \A i \in 1 .. position + Fits : block'[i] = log[Len(digest) + i]
  <2> SUFFICES ASSUME NEW i \in 1 .. position + Fits
               PROVE  block'[i] = log[Len(digest) + i]
    OBVIOUS
  <2>1. i \in 1 .. size
    BY <1>1, <1>2
  <2>2. CASE i <= position
    <3>1. block'[i] = block[i]
      BY <1>2, <2>1, <2>2 DEF Copy, Copied
    <3> QED
      BY <1>0, <1>2, <2>2, <3>1, SMTT(30) DEF Buffered
  <2>3. CASE position < i
    <3>1. block'[i] = left[i - position]
      BY <1>2, <2>1, <2>3 DEF Copy, Copied
    <3>2. i - position \in 1 .. Len(left)
      BY <1>2, <2>3
    <3>3. left[i - position] = log[Len(digest) + position + (i - position)]
      BY <1>0, <3>2 DEF Buffered
    <3>4. Len(digest) + position + (i - position) = Len(digest) + i
      BY <1>2
    <3> QED
      BY <3>1, <3>3, <3>4
  <2> QED
    BY <1>2, <2>2, <2>3
<1>6. \A i \in 1 .. Len(left') : left'[i] = log[Len(digest) + position + Fits + i]
  <2> SUFFICES ASSUME NEW i \in 1 .. Len(left')
               PROVE  left'[i] = log[Len(digest) + position + Fits + i]
    OBVIOUS
  <2>1. Fits + i \in 1 .. Len(left)
    BY <1>2, <1>4
  <2>2. left[Fits + i] = log[Len(digest) + position + (Fits + i)]
    BY <1>0, <2>1 DEF Buffered
  <2>3. Len(digest) + position + (Fits + i) = Len(digest) + position + Fits + i
    BY <1>2
  <2> QED
    BY <1>4, <2>2, <2>3
<1>7. FinalType' /\ Padding' /\ InBlocks(dig)'
  BY <1>0, <1>1 DEF Copy, FinalType, Padding, final, DigestInv, InBlocks
<1>8. HashesPadded'
  BY <1>1 DEF DigestInv, Copy, HashesPadded, Padded, Padded101, InBlocks, IsSponge, Zeros
<1>9. Len(log) = Len(digest) + position + Len(left) /\ Len(log) <= MaxLength
      /\ length = 8 * Len(log) /\ \A i \in 1 .. Len(digest) : digest[i] = log[i]
  BY <1>0 DEF Buffered
<1>10. CASE position + Fits < size
  <2>1. position' = position + Fits /\ digest' = digest
    BY <1>2, <1>1, <1>10 DEF Copy
  <2>2. ObjectType'
    BY <1>0, <1>1, <1>2, <1>3, <1>4, <1>10, <2>1 DEF Copy, ObjectType
  <2>3. Buffered'
    <3>1. Len(log) = Len(digest) + (position + Fits) + Len(left')
      BY <1>2, <1>4, <1>9
    <3> QED
      <4>1. UNCHANGED <<log, length, pc>> /\ pc = "update"
        BY DEF Copy
      <4>2. \A i \in 1 .. Len(left') : left'[i] = log'[Len(digest') + position' + i]
        <5>1. \A i \in 1 .. Len(left') :
                Len(digest') + position' + i = Len(digest) + position + Fits + i
          BY <1>2, <2>1
        <5> QED
          BY <1>6, <4>1, <5>1
      <4>3. \A i \in 1 .. position' : block'[i] = log'[Len(digest') + i]
        BY <1>5, <2>1, <4>1
      <4> QED
        BY <1>9, <2>1, <3>1, <4>1, <4>2, <4>3 DEF Buffered
  <2>4. InBlocks(digest)'
    BY <1>0, <1>1, <2>1 DEF InBlocks
  <2> QED
    BY <1>7, <1>8, <2>2, <2>3, <2>4 DEF DigestInv, TypeOK
<1>11. CASE position + Fits = size
  <2>1. position' = 0 /\ digest' = digest \o block'
    BY <1>1, <1>2, <1>11 DEF Copy
  <2>2. /\ digest' \in Seq(Byte) /\ Len(digest') = Len(digest) + size
        /\ InBlocks(digest \o block')
        /\ \A i \in 1 .. Len(digest) : digest'[i] = digest[i]
        /\ \A i \in 1 .. size : digest'[Len(digest) + i] = block'[i]
    BY <1>0, <1>1, <1>2, <1>3, <2>1, MoreBlocks
  <2>3. ObjectType'
    BY <1>0, <1>1, <1>2, <1>3, <1>4, <2>1, <2>2 DEF Copy, ObjectType
  <2>4. \A i \in 1 .. Len(digest') : digest'[i] = log[i]
    <3> SUFFICES ASSUME NEW i \in 1 .. Len(digest')
                 PROVE  digest'[i] = log[i]
      OBVIOUS
    <3>1. CASE i <= Len(digest)
      BY <1>2, <1>9, <2>2, <3>1
    <3>2. CASE Len(digest) < i
      <4>1. i - Len(digest) \in 1 .. size /\ Len(digest) + (i - Len(digest)) = i
        BY <1>1, <1>2, <2>2, <3>2
      <4>2. digest'[Len(digest) + (i - Len(digest))] = block'[i - Len(digest)]
        BY <2>2, <4>1
      <4>3. block'[i - Len(digest)] = log[Len(digest) + (i - Len(digest))]
        BY <1>5, <1>11, <4>1
      <4> QED
        BY <4>1, <4>2, <4>3
    <3> QED
      BY <1>2, <3>1, <3>2
  <2>5. Buffered'
    <3>1. Len(log) = Len(digest') + 0 + Len(left')
      BY <1>2, <1>4, <1>9, <1>11, <2>2
    <3>2. \A i \in 1 .. Len(left') : left'[i] = log[Len(digest') + 0 + i]
      <4>1. Len(digest') = Len(digest) + position + Fits
        <5>1. Len(digest') = Len(digest) + size
          BY <2>2
        <5>2. Len(digest) \in Nat /\ position \in Nat /\ Fits \in Nat
          BY <1>2
        <5> QED
          BY <1>11, <5>1, <5>2
      <4>2. \A i \in 1 .. Len(left') :
              Len(digest') + 0 + i = Len(digest) + position + Fits + i
        BY <1>2, <1>4, <4>1
      <4> QED
        BY <1>6, <4>2
    <3> QED
      <4>1. UNCHANGED <<log, length, pc>> /\ pc = "update"
        BY DEF Copy
      <4>2. \A i \in 1 .. position' : block'[i] = log'[Len(digest') + i]
        BY <2>1
      <4> QED
        BY <1>9, <2>1, <2>4, <3>1, <3>2, <4>1, <4>2 DEF Buffered
  <2>6. InBlocks(digest)'
    BY <1>1, <2>1, <2>2 DEF InBlocks
  <2> QED
    BY <1>7, <1>8, <2>3, <2>5, <2>6 DEF DigestInv, TypeOK
<1> QED
  BY <1>1, <1>2, <1>10, <1>11

LEMMA UpdatedStep ==
  ASSUME DigestInv, Updated
  PROVE  DigestInv'
<1>1. size' = size
  BY DEF Updated, size
<1>2. ObjectType' /\ FinalType'
  BY <1>1 DEF DigestInv, TypeOK, Updated, ObjectType, FinalType, object, final
<1>3. Buffered' /\ Padding'
  BY DEF DigestInv, Updated, Buffered, Padding, object, final
<1>4. InBlocks(digest)' /\ InBlocks(dig)'
  BY <1>1 DEF DigestInv, Updated, InBlocks, object, final
<1>5. HashesPadded'
  BY <1>1 DEF DigestInv, Updated, HashesPadded, Padded, Padded101, InBlocks, IsSponge, Zeros
<1> QED
  BY <1>2, <1>3, <1>4, <1>5 DEF DigestInv, TypeOK

\* What finally() leaves of the object.
LEMMA FinalLeaves ==
  ASSUME DigestInv, UNCHANGED <<type, object, log, left>>,
         pc # "update", pc' # "update",
         pc' \in {"ready", "append", "pad", "squeeze"}
  PROVE  ObjectType' /\ Buffered' /\ InBlocks(digest)' /\ size' = size
<1>1. size' = size
  BY DEF size
<1>2. ObjectType'
  BY <1>1 DEF DigestInv, TypeOK, ObjectType, object
<1>3. Buffered'
  BY DEF DigestInv, Buffered, object
<1>4. InBlocks(digest)'
  BY <1>1 DEF DigestInv, InBlocks, object
<1> QED
  BY <1>1, <1>2, <1>3, <1>4

LEMMA FinallyStep ==
  ASSUME DigestInv, Finally
  PROVE  DigestInv'
<1>0. ObjectType /\ FinalType /\ Buffered /\ InBlocks(digest) /\ left = <<>>
  BY DEF DigestInv, TypeOK, Buffered, Finally
<1>1. ObjectType' /\ Buffered' /\ InBlocks(digest)' /\ size' = size
  BY FinalLeaves DEF Finally
<1>2. /\ size \in Nat /\ type.first \in Byte /\ position \in Nat /\ position + 1 <= size
      /\ digest \in Seq(Byte)
  BY <1>0, TypeFacts DEF ObjectType
<1>3. blk' \in [1 .. size -> Byte]
  BY <1>0, <1>2 DEF Finally, ObjectType
<1>4. FinalType'
  BY <1>0, <1>1, <1>2, <1>3 DEF Finally, FinalType, IsSponge
<1>5. Len(log) = Len(digest) + position
  BY <1>0, <1>2 DEF Buffered
<1>6. Padding'
  <2>1. /\ dig' = digest /\ pos' = position + 1 /\ log' = log /\ type' = type
        /\ blk' = [block EXCEPT ![position + 1] = type.first]
    BY DEF Finally
  <2>2. Len(log) < Len(dig') + pos' /\ Len(dig') + pos' = Len(log) + 1 /\ pos' > 0
    BY <1>2, <1>5, <2>1
  <2>3. \A i \in 1 .. Len(digest) : i <= Len(log) /\ digest[i] = log[i]
    BY <1>0, <1>2, <1>5 DEF Buffered
  <2>4. \A i \in 1 .. pos' :
          blk'[i] = IF Len(digest) + i <= Len(log) THEN log[Len(digest) + i] ELSE type.first
    <3> SUFFICES ASSUME NEW i \in 1 .. pos'
                 PROVE  blk'[i] = IF Len(digest) + i <= Len(log) THEN log[Len(digest) + i]
                                  ELSE type.first
      OBVIOUS
    <3>1. CASE i = position + 1
      BY <1>0, <1>2, <1>5, <2>1, <3>1 DEF ObjectType
    <3>2. CASE i <= position
      <4>1. blk'[i] = block[i]
        BY <1>0, <1>2, <2>1, <3>2 DEF ObjectType
      <4> QED
        BY <1>0, <1>2, <1>5, <3>2, <4>1 DEF Buffered
    <3> QED
      BY <1>2, <2>1, <3>1, <3>2
  <2>5. pc' # "squeeze"
    BY DEF Finally
  <2> QED
    BY <2>1, <2>2, <2>3, <2>4, <2>5 DEF Padding
<1>7. InBlocks(dig)'
  BY <1>0, <1>1 DEF Finally, InBlocks
<1>8. HashesPadded'
  BY DEF Finally, HashesPadded
<1> QED
  BY <1>1, <1>4, <1>6, <1>7, <1>8 DEF DigestInv, TypeOK

LEMMA FinallyEmptyStep ==
  ASSUME DigestInv, FinallyEmpty
  PROVE  DigestInv'
<1>1. ObjectType' /\ Buffered' /\ InBlocks(digest)' /\ size' = size
  BY FinalLeaves DEF FinallyEmpty
<1>2. FinalType' /\ Padding' /\ InBlocks(dig)'
  BY <1>1 DEF FinallyEmpty, DigestInv, TypeOK, FinalType, Padding, InBlocks, final
<1>3. HashesPadded'
  BY DEF FinallyEmpty, HashesPadded, Returned
<1> QED
  BY <1>1, <1>2, <1>3 DEF DigestInv, TypeOK

\* What finally() has answered stays true of the message.
LEMMA AnswerStays ==
  ASSUME DigestInv, UNCHANGED <<type, log, answer>>
  PROVE  HashesPadded'
  BY DEF DigestInv, HashesPadded, Padded, Padded101, InBlocks, IsSponge, Zeros, size

Out == Nat \X Nat \X (0 .. 8)

LEMMA SqueezeStep ==
  ASSUME DigestInv, Squeeze
  PROVE  DigestInv'
<1>0. ObjectType /\ FinalType /\ Padding /\ InBlocks(dig)
  BY DEF DigestInv, TypeOK
<1>1. ObjectType' /\ Buffered' /\ InBlocks(digest)' /\ size' = size
  BY FinalLeaves DEF Squeeze
<1> DEFINE n == IF Bytes(type.output) - Len(out) < size THEN Bytes(type.output) - Len(out)
                ELSE size
           more == [i \in 1 .. n |-> <<turn, i - 1, 8>>]
<1>2. size \in Nat /\ Bytes(type.output) \in Nat /\ Len(out) \in Nat /\ turn \in Nat
  <2>1. type.output \in Nat
    BY <1>0, TypeFacts
  <2>2. type.output \div 8 \in Nat
    BY <2>1
  <2> QED
    BY <1>0, <2>2, TypeFacts DEF FinalType, Bytes
<1>3. n \in Nat
  BY <1>2 DEF Squeeze
<1> HIDE DEF n
<1>4. \A i \in 1 .. n : <<turn, i - 1, 8>> \in Out
  BY <1>2, <1>3 DEF Out
<1>5. more \in Seq(Out)
  BY <1>3, <1>4
<1>6. out \in Seq(Out)
  BY <1>0 DEF FinalType, Out
<1> HIDE DEF more
<1>7. out' = out \o more
  BY DEF Squeeze, more, n
<1>8. out' \in Seq(Out)
  BY <1>5, <1>6, <1>7
<1>9. FinalType'
  <2>1. UNCHANGED <<type, pc, pos, dig>> /\ pc = "squeeze" /\ turn' = turn + 1
    BY DEF Squeeze
  <2> QED
    BY <1>0, <1>1, <1>2, <1>8, <2>1 DEF FinalType, Out, IsSponge
<1>10. Padding' /\ InBlocks(dig)'
  BY <1>0, <1>1 DEF Squeeze, Padding, InBlocks, Padded101, Zeros, object
<1>11. HashesPadded'
  BY AnswerStays DEF Squeeze
<1> QED
  BY <1>1, <1>9, <1>10, <1>11 DEF DigestInv, TypeOK

LEMMA SqueezedStep ==
  ASSUME DigestInv, Squeezed
  PROVE  DigestInv'
<1>0. ObjectType /\ FinalType /\ Padding /\ InBlocks(dig)
  BY DEF DigestInv, TypeOK
<1>1. ObjectType' /\ Buffered' /\ InBlocks(digest)' /\ size' = size
  BY FinalLeaves DEF Squeezed
<1> DEFINE bits == 8 - ((8 - (type.output % 8)) % 8)
<1>2. bits \in 0 .. 8
  BY <1>0, TypeFacts
<1> HIDE DEF bits
<1>3. out \in Seq(Out)
  BY <1>0 DEF FinalType, Out
<1>4. out' = [out EXCEPT ![Len(out)] = [out[Len(out)] EXCEPT ![3] = bits]]
  BY DEF Squeezed, bits
<1>5. out' \in Seq(Out)
  <2>1. CASE out = <<>>
    <3>1. out' = <<>>
      BY <1>4, <2>1
    <3> QED
      BY <3>1
  <2>2. CASE out # <<>>
    <3>1. out[Len(out)] \in Out /\ Len(out) \in 1 .. Len(out)
      BY <1>3, <2>2
    <3>2. [out[Len(out)] EXCEPT ![3] = bits] \in Out
      BY <1>2, <3>1 DEF Out
    <3> QED
      BY <1>3, <1>4, <3>1, <3>2
  <2> QED
    BY <2>1, <2>2
<1>6. FinalType'
  BY <1>0, <1>1, <1>5 DEF Squeezed, FinalType, Out
<1>7. Padding' /\ InBlocks(dig)'
  BY <1>0, <1>1 DEF Squeezed, Padding, InBlocks
<1>8. HashesPadded'
  <2>1. answer'.absorbed = dig /\ Padded101(dig, log) /\ InBlocks(dig)
    BY <1>0 DEF Squeezed, Returned, Padding
  <2>2. UNCHANGED <<type, log>>
    BY DEF Squeezed
  <2>3. IsSponge
    BY <1>0 DEF Squeezed, FinalType
  <2> QED
    BY <1>1, <2>1, <2>2, <2>3 DEF HashesPadded, Padded101, InBlocks, IsSponge, Zeros
<1> QED
  BY <1>1, <1>6, <1>7, <1>8 DEF DigestInv, TypeOK

\* A block that is cleared after the copied bytes continues the padding.
LEMMA ClearedPads ==
  ASSUME DigestInv, pc \in {"append", "pad"}, NEW b \in [1 .. size -> Byte],
         NEW upto \in 0 .. size, pos <= upto,
         \A i \in 1 .. upto : b[i] = Cleared(blk, pos)[i]
  PROVE  \A i \in 1 .. Len(dig) + upto :
           (dig \o b)[i] = IF i <= Len(log) THEN log[i]
                           ELSE IF i = Len(log) + 1 THEN type.first ELSE 0
<1>0. /\ ObjectType /\ size \in Nat /\ size > 0 /\ dig \in Seq(Byte) /\ pos \in 0 .. size
      /\ InBlocks(dig) /\ log \in Seq(Byte)
  BY TypeFacts DEF DigestInv, TypeOK, FinalType, ObjectType
<1>1. /\ \A i \in 1 .. Len(dig) : (dig \o b)[i] = dig[i]
      /\ \A i \in 1 .. size : (dig \o b)[Len(dig) + i] = b[i]
  BY <1>0, MoreBlocks
<1>2. /\ Len(log) < Len(dig) + pos
      /\ \A i \in 1 .. Len(dig) :
           dig[i] = IF i <= Len(log) THEN log[i] ELSE IF i = Len(log) + 1 THEN type.first ELSE 0
      /\ \A i \in 1 .. pos :
           blk[i] = IF Len(dig) + i <= Len(log) THEN log[Len(dig) + i] ELSE type.first
      /\ pos > 0 => Len(dig) + pos = Len(log) + 1
  BY <1>0 DEF DigestInv, Padding
<1> SUFFICES ASSUME NEW i \in 1 .. Len(dig) + upto
             PROVE  (dig \o b)[i] = IF i <= Len(log) THEN log[i]
                                    ELSE IF i = Len(log) + 1 THEN type.first ELSE 0
  OBVIOUS
<1>3. CASE i <= Len(dig)
  BY <1>0, <1>1, <1>2, <1>3
<1>4. CASE Len(dig) < i
  <2> DEFINE j == i - Len(dig)
  <2>1. j \in 1 .. upto /\ j \in 1 .. size /\ Len(dig) + j = i
    BY <1>0, <1>4
  <2>2. (dig \o b)[i] = b[j]
    BY <1>1, <2>1
  <2>3. b[j] = Cleared(blk, pos)[j]
    BY <2>1
  <2>4. CASE j <= pos
    <3>1. b[j] = blk[j]
      BY <2>1, <2>3, <2>4 DEF Cleared
    <3>2. Len(dig) + j <= Len(log) + 1
      BY <1>0, <1>2, <2>1, <2>4
    <3>3. j \in 1 .. pos
      BY <1>0, <2>1, <2>4
    <3>4. blk[j] = IF Len(dig) + j <= Len(log) THEN log[Len(dig) + j] ELSE type.first
      BY <1>2, <3>3
    <3> HIDE DEF j
    <3> QED
      BY <1>0, <2>1, <2>2, <3>1, <3>2, <3>4
  <2>5. CASE pos < j
    <3>1. b[j] = 0
      BY <1>0, <2>1, <2>3, <2>5 DEF Cleared
    <3>2. i > Len(log) + 1
      BY <1>0, <1>2, <2>1, <2>5
    <3> QED
      BY <1>0, <2>2, <3>1, <3>2
  <2> QED
    BY <1>0, <2>1, <2>4, <2>5
<1> QED
  BY <1>0, <1>3, <1>4

\* What is in a sequence joined of two.
LEMMA Joined ==
  ASSUME NEW q \in Seq(Byte), NEW r \in Seq(Byte)
  PROVE  /\ q \o r \in Seq(Byte) /\ Len(q \o r) = Len(q) + Len(r)
         /\ \A i \in 1 .. Len(q) : (q \o r)[i] = q[i]
         /\ \A i \in 1 .. Len(r) : (q \o r)[Len(q) + i] = r[i]
  OBVIOUS

\* A sequence that starts with the message, its end mark and zeros is these,
\* followed by its tail.
LEMMA Assemble ==
  ASSUME NEW m \in Seq(Byte), NEW x \in Byte, NEW p \in Seq(Byte), NEW k \in Nat,
         NEW t \in Seq(Byte), Len(p) = Len(m) + 1 + k + Len(t),
         \A i \in 1 .. Len(m) + 1 + k :
           p[i] = IF i <= Len(m) THEN m[i] ELSE IF i = Len(m) + 1 THEN x ELSE 0,
         \A i \in 1 .. Len(t) : p[Len(m) + 1 + k + i] = t[i]
  PROVE  p = m \o <<x>> \o Zeros(k) \o t
<1> DEFINE z == Zeros(k)
           a == m \o <<x>>
           c == a \o z
           q == c \o t
<1>1. z \in Seq(Byte) /\ Len(z) = k /\ \A i \in 1 .. k : z[i] = 0
  BY ByteZero DEF Zeros
<1> HIDE DEF z
<1>2. /\ a \in Seq(Byte) /\ Len(a) = Len(m) + 1 /\ a[Len(m) + 1] = x
      /\ \A i \in 1 .. Len(m) : a[i] = m[i]
  OBVIOUS
<1> HIDE DEF a
<1>3. /\ c \in Seq(Byte) /\ Len(c) = Len(m) + 1 + k
      /\ \A i \in 1 .. Len(a) : c[i] = a[i]
      /\ \A i \in 1 .. k : c[Len(a) + i] = z[i]
  <2>1. /\ c \in Seq(Byte) /\ Len(c) = Len(a) + Len(z)
        /\ \A i \in 1 .. Len(a) : c[i] = a[i]
        /\ \A i \in 1 .. Len(z) : c[Len(a) + i] = z[i]
    BY <1>1, <1>2, Joined
  <2> HIDE DEF c
  <2> QED
    BY <1>1, <1>2, <2>1
<1>4. \A i \in 1 .. Len(m) + 1 + k :
        c[i] = IF i <= Len(m) THEN m[i] ELSE IF i = Len(m) + 1 THEN x ELSE 0
  <2> SUFFICES ASSUME NEW i \in 1 .. Len(m) + 1 + k
               PROVE  c[i] = IF i <= Len(m) THEN m[i] ELSE IF i = Len(m) + 1 THEN x ELSE 0
    OBVIOUS
  <2>1. CASE i <= Len(m) + 1
    <3>1. i \in 1 .. Len(a) /\ c[i] = a[i]
      BY <1>2, <1>3, <2>1
    <3> QED
      BY <1>2, <2>1, <3>1
  <2>2. CASE i > Len(m) + 1
    <3>1. i - Len(a) \in 1 .. k /\ Len(a) + (i - Len(a)) = i
      BY <1>2, <2>2
    <3>2. c[Len(a) + (i - Len(a))] = z[i - Len(a)] /\ z[i - Len(a)] = 0
      BY <1>1, <1>3, <3>1
    <3>3. c[i] = 0
      BY <3>1, <3>2
    <3> QED
      BY <2>2, <3>3
  <2>3. i <= Len(m) + 1 \/ i > Len(m) + 1
    OBVIOUS
  <2> QED
    BY <2>1, <2>2, <2>3
<1> HIDE DEF c
<1>5. /\ q \in Seq(Byte) /\ Len(q) = Len(p)
      /\ \A i \in 1 .. Len(c) : q[i] = c[i]
      /\ \A i \in 1 .. Len(t) : q[Len(c) + i] = t[i]
  <2>1. /\ q \in Seq(Byte) /\ Len(q) = Len(c) + Len(t)
        /\ \A i \in 1 .. Len(c) : q[i] = c[i]
        /\ \A i \in 1 .. Len(t) : q[Len(c) + i] = t[i]
    BY <1>3, Joined
  <2> HIDE DEF q
  <2> QED
    BY <1>3, <2>1
<1> HIDE DEF q
<1>6. ASSUME NEW i \in 1 .. Len(p)
      PROVE  p[i] = q[i]
  <2>1. CASE i <= Len(m) + 1 + k
    <3>1. i \in 1 .. Len(c) /\ i \in 1 .. Len(m) + 1 + k
      BY <1>3, <2>1
    <3> QED
      BY <1>4, <1>5, <3>1
  <2>2. CASE i > Len(m) + 1 + k
    <3>1. i - Len(c) \in 1 .. Len(t) /\ Len(c) + (i - Len(c)) = i
      <4>1. Len(c) \in Nat /\ Len(t) \in Nat /\ i \in Nat
        BY <1>3
      <4>2. Len(c) < i /\ i <= Len(c) + Len(t)
        BY <1>3, <2>2
      <4> QED
        BY <4>1, <4>2
    <3>2. q[Len(c) + (i - Len(c))] = t[i - Len(c)]
      BY <1>5, <3>1
    <3>3. p[Len(m) + 1 + k + (i - Len(c))] = t[i - Len(c)]
      BY <3>1
    <3>4. Len(m) + 1 + k + (i - Len(c)) = i
      BY <1>3
    <3> QED
      BY <3>1, <3>2, <3>3, <3>4
  <2> QED
    BY <2>1, <2>2
<1>7. p = q
  BY <1>5, <1>6, SeqEqual
<1> QED
  BY <1>7 DEF q, c, a, z

LEMMA Pad101Step ==
  ASSUME DigestInv, Pad101
  PROVE  DigestInv'
<1>0. /\ ObjectType /\ FinalType /\ Padding /\ InBlocks(dig) /\ pc = "pad" /\ IsSponge
      /\ log \in Seq(Byte) /\ dig \in Seq(Byte) /\ pos \in 0 .. size
      /\ blk \in [1 .. size -> Byte]
  BY DEF DigestInv, TypeOK, Pad101, FinalType, ObjectType
<1>1. ObjectType' /\ Buffered' /\ InBlocks(digest)' /\ size' = size
  BY FinalLeaves DEF Pad101
<1>2. size \in Nat /\ size > 0 /\ type.first \in Byte
  BY <1>0, TypeFacts
<1> DEFINE clear == Cleared(blk, pos)
<1>3. clear \in [1 .. size -> Byte]
  BY <1>0, <1>2, ClearedType
<1>4. /\ blk' = [clear EXCEPT ![size] = (@ % 128) + 128]
      /\ dig' = dig \o blk' /\ UNCHANGED <<type, log, pos, turn, out>>
  BY DEF Pad101
<1> HIDE DEF clear
<1>5. blk' \in [1 .. size -> Byte]
  <2>1. clear[size] \in 0 .. 255
    BY <1>2, <1>3 DEF Byte
  <2>2. (clear[size] % 128) + 128 \in Byte
    BY <2>1 DEF Byte
  <2> QED
    BY <1>2, <1>3, <1>4, <2>2
<1>6. /\ dig' \in Seq(Byte) /\ Len(dig') = Len(dig) + size /\ InBlocks(dig \o blk')
      /\ dig'[Len(dig) + size] = blk'[size]
  <2>1. /\ dig \o blk' \in Seq(Byte) /\ Len(dig \o blk') = Len(dig) + size
        /\ InBlocks(dig \o blk')
        /\ \A i \in 1 .. size : (dig \o blk')[Len(dig) + i] = blk'[i]
    BY <1>0, <1>2, <1>5, MoreBlocks
  <2>2. size \in 1 .. size
    BY <1>2
  <2> QED
    BY <1>4, <2>1, <2>2
<1>7. /\ pos > 0 /\ Len(dig) + pos = Len(log) + 1
      /\ \A i \in 1 .. pos :
           blk[i] = IF Len(dig) + i <= Len(log) THEN log[Len(dig) + i] ELSE type.first
  BY <1>0 DEF Padding
<1>8. \A i \in 1 .. size - 1 : blk'[i] = Cleared(blk, pos)[i]
  BY <1>2, <1>3, <1>4 DEF clear
<1>9. Padded101(dig', log)
  <2>1. CASE pos < size
    <3>1. size - 1 \in 0 .. size /\ pos <= size - 1
      BY <1>0, <1>2, <2>1
    <3>2. \A i \in 1 .. Len(dig) + (size - 1) :
            (dig \o blk')[i] = IF i <= Len(log) THEN log[i]
                               ELSE IF i = Len(log) + 1 THEN type.first ELSE 0
      BY <1>0, <1>5, <1>8, <3>1, ClearedPads
    <3>3. clear[size] = 0
      BY <1>0, <1>2, <2>1 DEF Cleared, clear
    <3>4. blk'[size] = 128
      BY <1>2, <1>3, <1>4, <3>3
    <3> DEFINE k == size - 1 - pos
               t == <<128>>
    <3>5. /\ k \in Nat /\ k \in 0 .. size - 2 /\ t \in Seq(Byte) /\ Len(t) = 1 /\ t[1] = 128
          /\ Len(log) + 1 + k = Len(dig) + (size - 1)
          /\ Len(log) + 1 + k + 1 = Len(dig) + size
      BY <1>0, <1>2, <1>7, <2>1 DEF Byte
    <3> HIDE DEF k, t
    <3>6. /\ Len(dig') = Len(log) + 1 + k + Len(t)
          /\ \A i \in 1 .. Len(t) : dig'[Len(log) + 1 + k + i] = t[i]
      BY <1>6, <3>4, <3>5
    <3>7. \A i \in 1 .. Len(log) + 1 + k :
            dig'[i] = IF i <= Len(log) THEN log[i]
                      ELSE IF i = Len(log) + 1 THEN type.first ELSE 0
      BY <1>4, <3>2, <3>5
    <3> DEFINE p == dig'
               x == type.first
    <3>a. k \in Nat /\ t \in Seq(Byte) /\ log \in Seq(Byte) /\ x \in Byte /\ p \in Seq(Byte)
      BY <1>0, <1>2, <1>6, <3>5
    <3>b. Len(p) = Len(log) + 1 + k + Len(t)
      BY <3>6
    <3>c. \A i \in 1 .. Len(log) + 1 + k :
            p[i] = IF i <= Len(log) THEN log[i] ELSE IF i = Len(log) + 1 THEN x ELSE 0
      BY <3>7
    <3>d. \A i \in 1 .. Len(t) : p[Len(log) + 1 + k + i] = t[i]
      BY <3>6
    <3> HIDE DEF p, x
    <3>e. p = log \o <<x>> \o Zeros(k) \o t
      BY <3>a, <3>b, <3>c, <3>d, Assemble, ZenonT(30)
    <3>8. dig' = log \o <<type.first>> \o Zeros(k) \o t
      BY <3>e DEF p, x
    <3> QED
      BY <3>5, <3>8 DEF Padded101, t
  <2>2. CASE pos = size
    <3>1. clear[size] = type.first /\ Len(log) + 1 = Len(dig) + size
      BY <1>0, <1>2, <1>7, <2>2 DEF Cleared, clear
    <3>2. type.first < 128
      BY <1>0, DigestAssumption DEF ObjectType, IsSponge
    <3>3. blk'[size] = type.first + 128
      <4>1. type.first \in 0 .. 127
        BY <1>2, <3>2 DEF Byte
      <4>2. (type.first % 128) + 128 = type.first + 128
        BY <4>1
      <4>3. blk'[size] = (clear[size] % 128) + 128
        BY <1>2, <1>3, <1>4
      <4> QED
        BY <3>1, <4>2, <4>3
    <3>4. \A i \in 1 .. Len(log) : dig'[i] = log[i]
      <4>1. \A i \in 1 .. Len(dig) : dig'[i] = dig[i]
        BY <1>0, <1>2, <1>4, <1>5, MoreBlocks
      <4>2. \A i \in 1 .. size : dig'[Len(dig) + i] = blk'[i]
        BY <1>0, <1>2, <1>4, <1>5, MoreBlocks
      <4>3. ASSUME NEW i \in 1 .. Len(log), Len(dig) < i
            PROVE  dig'[i] = log[i]
        <5> DEFINE j == i - Len(dig)
        <5>1. j \in 1 .. size - 1 /\ j \in 1 .. size /\ j \in 1 .. pos /\ Len(dig) + j = i
          BY <1>0, <1>2, <2>2, <3>1, <4>3
        <5>2. blk'[j] = blk[j]
          <6>1. blk'[j] = Cleared(blk, pos)[j]
            BY <1>8, <5>1
          <6>2. j \in 1 .. size /\ j <= pos
            BY <1>0, <5>1
          <6> HIDE DEF j
          <6> QED
            BY <6>1, <6>2 DEF Cleared
        <5>3. blk[j] = IF Len(dig) + j <= Len(log) THEN log[Len(dig) + j] ELSE type.first
          BY <1>7, <5>1
        <5>4. dig'[Len(dig) + j] = blk'[j]
          BY <4>2, <5>1
        <5> HIDE DEF j
        <5> QED
          BY <5>1, <5>2, <5>3, <5>4
      <4>4. \A i \in 1 .. Len(log) : i <= Len(dig) => dig'[i] = log[i]
        BY <1>0, <4>1 DEF Padding
      <4> QED
        BY <1>0, <4>3, <4>4
    <3> DEFINE q == log \o <<type.first + 128>>
    <3>5. type.first + 128 \in Byte
      BY <1>2, <3>2 DEF Byte
    <3>6. /\ q \in Seq(Byte) /\ Len(q) = Len(log) + 1 /\ q[Len(log) + 1] = type.first + 128
          /\ \A i \in 1 .. Len(log) : q[i] = log[i]
      BY <1>0, <3>5
    <3> HIDE DEF q
    <3>7. dig'[Len(log) + 1] = type.first + 128 /\ Len(dig') = Len(log) + 1
      BY <1>6, <3>1, <3>3
    <3>8. \A i \in 1 .. Len(dig') : dig'[i] = q[i]
      BY <1>0, <3>4, <3>6, <3>7
    <3>9. dig' = q
      BY <1>6, <3>6, <3>7, <3>8, SeqEqual
    <3> QED
      BY <3>9 DEF Padded101, q
  <2> QED
    BY <1>0, <1>2, <2>1, <2>2
<1>10. FinalType'
  BY <1>0, <1>1, <1>4, <1>5, <1>6 DEF Pad101, FinalType, IsSponge
<1>11. pc' \in {"squeeze", "ready"}
  BY DEF Pad101
<1>12. Padded101(dig, log)'
  BY <1>1, <1>4, <1>9 DEF Padded101, Zeros
<1>13. Padding'
  BY <1>11, <1>12 DEF Padding
<1>14. InBlocks(dig)'
  BY <1>1, <1>4, <1>6 DEF InBlocks
<1>15. HashesPadded'
  <2>1. CASE type.extends
    BY <2>1, AnswerStays DEF Pad101
  <2>2. CASE ~ type.extends
    <3>1. answer'.absorbed = dig'
      BY <2>2 DEF Pad101, Returned
    <3>2. IsSponge'
      BY <1>0, <1>4 DEF IsSponge
    <3> QED
      BY <1>12, <1>14, <3>1, <3>2 DEF HashesPadded, Padded101, InBlocks
  <2> QED
    BY <2>1, <2>2
<1> QED
  BY <1>1, <1>10, <1>13, <1>14, <1>15 DEF DigestInv, TypeOK

\* A message short enough that 64 bits count its bits.
LEMMA LengthBound ==
  ASSUME NEW n \in Nat, n <= MaxLength
  PROVE  In64Bits(8 * n)
<1> DEFINE q == MaxLength \div 16777216
           r == q \div 16777216
           p == (8 * n) \div 16777216
<1>1. MaxLength \in Nat /\ r < 8192
  BY DigestAssumption
<1>2. q \in Nat /\ MaxLength < (q + 1) * 16777216
  BY <1>1, SMT
<1>3. r \in Nat /\ q < (r + 1) * 16777216
  BY <1>2, SMT
<1>4. p \in Nat /\ p * 16777216 <= 8 * n
  BY SMT
<1> HIDE DEF r, q, p
<1>5. p < 8 * (q + 1)
  BY <1>1, <1>2, <1>4, SMT
<1>6. p < 65536 * 16777216
  BY <1>1, <1>2, <1>3, <1>4, <1>5, SMT
<1>7. p \div 16777216 < 65536
  BY <1>4, <1>6, SMT
<1> QED
  BY <1>7, SMT DEF In64Bits, p

\* No bytes but zeros lay out a zero.
LEMMA ZeroBytes ==
  /\ SaveAsBEndian(0, 8) \in Seq(Byte) /\ Len(SaveAsBEndian(0, 8)) = 8
  /\ \A i \in 1 .. 8 : SaveAsBEndian(0, 8)[i] = 0
<1>1. In64Bits(0)
  BY SMT DEF In64Bits
<1>2. SaveAsBEndian(0, 8) \in Seq(Byte) /\ Len(SaveAsBEndian(0, 8)) = 8
  BY <1>1, SaveReadBack
<1>3. 0 \div 16777216 = 0
  BY SMT
<1>4. /\ Octet(0, 0) = 0 /\ Octet(0, 1) = 0 /\ Octet(0, 2) = 0 /\ Octet(0, 3) = 0
      /\ Octet(0, 4) = 0 /\ Octet(0, 5) = 0 /\ Octet(0, 6) = 0 /\ Octet(0, 7) = 0
  BY <1>3, Octets, SMT
<1>5. \A i \in 0 .. 7 : Octet(0, i) = 0
  BY <1>4
<1>6. \A i \in 1 .. 8 : SaveAsBEndian(0, 8)[i] = Octet(0, 8 - i)
  BY DEF SaveAsBEndian
<1> QED
  BY <1>2, <1>5, <1>6

\* The end of a sequence joined of two.
LEMMA TailOf ==
  ASSUME NEW q \in Seq(Byte), NEW r \in Seq(Byte), NEW n \in Nat, Len(r) = n
  PROVE  SubSeq(q \o r, Len(q \o r) - n + 1, Len(q \o r)) = r
<1> DEFINE p == q \o r
           t == SubSeq(p, Len(p) - n + 1, Len(p))
<1>1. /\ p \in Seq(Byte) /\ Len(p) = Len(q) + n /\ Len(q) \in Nat
      /\ \A i \in 1 .. n : p[Len(q) + i] = r[i]
  <2>1. /\ p \in Seq(Byte) /\ Len(p) = Len(q) + Len(r)
        /\ \A i \in 1 .. Len(r) : p[Len(q) + i] = r[i]
    BY Joined
  <2> HIDE DEF p
  <2> QED
    BY <2>1
<1> HIDE DEF p
<1>2. /\ t \in Seq(Byte) /\ Len(t) = n
      /\ \A i \in 1 .. n : t[i] = p[(Len(p) - n + 1) + i - 1]
  <2>1. Len(p) - n + 1 = Len(q) + 1 /\ Len(q) + 1 \in Int /\ Len(p) \in Int
    BY <1>1
  <2>2. \A i \in Len(q) + 1 .. Len(p) : p[i] \in Byte
    BY <1>1
  <2>3. /\ SubSeq(p, Len(q) + 1, Len(p)) \in Seq(Byte)
        /\ Len(SubSeq(p, Len(q) + 1, Len(p)))
             = IF Len(q) + 1 <= Len(p) THEN Len(p) - (Len(q) + 1) + 1 ELSE 0
        /\ \A i \in 1 .. Len(p) - (Len(q) + 1) + 1 :
             SubSeq(p, Len(q) + 1, Len(p))[i] = p[Len(q) + 1 + i - 1]
    BY <2>1, <2>2, SubSeqProperties
  <2> QED
    BY <1>1, <2>1, <2>3
<1> HIDE DEF t
<1>3. ASSUME NEW i \in 1 .. n
      PROVE  t[i] = r[i]
  <2>1. (Len(p) - n + 1) + i - 1 = Len(q) + i
    BY <1>1
  <2> QED
    BY <1>1, <1>2, <2>1
<1>4. t = r
  BY <1>2, <1>3, SeqEqual
<1> QED
  BY <1>4 DEF t, p

\* The last eight of a sequence.
LEMMA LastEight ==
  ASSUME NEW q \in Seq(Byte), NEW n \in Nat, 8 <= n, Len(q) = n
  PROVE  \A i \in 1 .. 8 : SubSeq(q, n - 7, n)[i] = q[n - 8 + i]
<1> SUFFICES ASSUME NEW i \in 1 .. 8
             PROVE  SubSeq(q, n - 7, n)[i] = q[n - 8 + i]
  OBVIOUS
<1>1. i \in 1 .. n - (n - 7) + 1 /\ (n - 7) + i - 1 = n - 8 + i
  OBVIOUS
<1>2. \A j \in n - 7 .. n : q[j] \in Byte
  OBVIOUS
<1>3. SubSeq(q, n - 7, n)[i] = q[(n - 7) + i - 1]
  BY <1>1, <1>2, SubSeqProperties
<1> QED
  BY <1>1, <1>3

\* What is read back depends on the eight bytes alone.
LEMMA SameBytes ==
  ASSUME NEW q, NEW r, \A i \in 1 .. 8 : q[i] = r[i]
  PROVE  GetAsLEndian(q) = GetAsLEndian(r) /\ GetAsBEndian(q) = GetAsBEndian(r)
<1>1. /\ q[1] = r[1] /\ q[2] = r[2] /\ q[3] = r[3] /\ q[4] = r[4]
      /\ q[5] = r[5] /\ q[6] = r[6] /\ q[7] = r[7] /\ q[8] = r[8]
  OBVIOUS
<1>2. GetAsLEndian(q) = GetAsLEndian(r)
  BY <1>1, SMT DEF GetAsLEndian
<1>3. GetAsBEndian(q) = GetAsBEndian(r)
  BY <1>1, SMT DEF GetAsBEndian
<1> QED
  BY <1>2, <1>3

\* The field that ends the padding: the length in bits in its last eight bytes.
LEMMA LengthFieldFacts ==
  ASSUME ObjectType, Buffered, ~ IsSponge
  PROVE  LET f == LengthField
             bits == SubSeq(f, type.field - 7, type.field)
         IN  /\ f \in Seq(Byte) /\ Len(f) = type.field
             /\ \A i \in 1 .. type.field - 8 : f[i] = 0
             /\ 8 * Len(log) = IF type.order = "LE" THEN GetAsLEndian(bits)
                               ELSE GetAsBEndian(bits)
<1> DEFINE bytes == IF type.order = "LE" THEN SaveAsLEndian(length, 8)
                    ELSE SaveAsBEndian(length, 8)
           z == SaveAsBEndian(0, 8)
           f == LengthField
           bits == SubSeq(f, type.field - 7, type.field)
<1>1. /\ length \in Nat /\ In64Bits(length) /\ length = 8 * Len(log)
      /\ type.field \in {8, 16}
  <2>1. length = 8 * Len(log) /\ Len(log) \in Nat /\ Len(log) <= MaxLength /\ length \in Nat
    BY DEF Buffered, ObjectType
  <2>2. In64Bits(8 * Len(log))
    BY <2>1, LengthBound
  <2>3. type.field \in {0, 8, 16} /\ type.field # 0
    BY TypeFacts DEF IsSponge
  <2> HIDE DEF f, bytes, bits, z
  <2> QED
    BY <2>1, <2>2, <2>3
<1>2. /\ bytes \in Seq(Byte) /\ Len(bytes) = 8
      /\ length = IF type.order = "LE" THEN GetAsLEndian(bytes) ELSE GetAsBEndian(bytes)
  BY <1>1, SaveReadBack
<1>3. f = IF type.field = 16 THEN z \o bytes ELSE bytes
  BY DEF LengthField
<1>4. z \in Seq(Byte) /\ Len(z) = 8 /\ \A i \in 1 .. 8 : z[i] = 0
  BY ZeroBytes
<1> HIDE DEF f, bytes, z
<1>5. /\ f \in Seq(Byte) /\ Len(f) = type.field
      /\ \A i \in 1 .. type.field - 8 : f[i] = 0
      /\ \A i \in 1 .. 8 : f[type.field - 8 + i] = bytes[i]
  <2>1. CASE type.field = 8
    BY <1>2, <1>3, <2>1
  <2>2. CASE type.field = 16
    <3>1. /\ f \in Seq(Byte) /\ Len(f) = Len(z) + Len(bytes)
          /\ \A i \in 1 .. Len(z) : f[i] = z[i]
          /\ \A i \in 1 .. Len(bytes) : f[Len(z) + i] = bytes[i]
      BY <1>2, <1>3, <1>4, <2>2, Joined, ZenonT(30)
    <3>2. type.field - 8 = Len(z) /\ Len(z) + Len(bytes) = type.field
      BY <1>2, <1>4, <2>2
    <3> QED
      BY <1>2, <1>4, <3>1, <3>2
  <2> QED
    BY <1>1, <2>1, <2>2
<1>6. \A i \in 1 .. 8 : bits[i] = bytes[i]
  <2>1. type.field \in Nat /\ 8 <= type.field
    BY <1>1
  <2>2. \A i \in 1 .. 8 : bits[i] = f[type.field - 8 + i]
    BY <1>5, <2>1, LastEight, Zenon
  <2> HIDE DEF bits
  <2> SUFFICES ASSUME NEW i \in 1 .. 8
               PROVE  bits[i] = bytes[i]
    OBVIOUS
  <2>3. bits[i] = f[type.field - 8 + i] /\ f[type.field - 8 + i] = bytes[i]
    BY <1>5, <2>2
  <2> QED
    BY <2>3
<1> HIDE DEF bits
<1>7. GetAsLEndian(bits) = GetAsLEndian(bytes) /\ GetAsBEndian(bits) = GetAsBEndian(bytes)
  BY <1>6, SameBytes
<1>8. 8 * Len(log) = IF type.order = "LE" THEN GetAsLEndian(bits) ELSE GetAsBEndian(bits)
  BY <1>1, <1>2, <1>7, Zenon
<1> QED
  BY <1>5, <1>8 DEF f, bits

\* One turn of the loop of finally(): appendix() and computation().
LEMMA AppendixStep ==
  ASSUME DigestInv, Appendix
  PROVE  DigestInv'
<1>0. /\ ObjectType /\ FinalType /\ Buffered /\ Padding /\ InBlocks(dig)
      /\ pc = "append" /\ ~ IsSponge
      /\ log \in Seq(Byte) /\ dig \in Seq(Byte) /\ pos \in 0 .. size
      /\ blk \in [1 .. size -> Byte]
  BY DEF DigestInv, TypeOK, Appendix, FinalType, ObjectType
<1>1. ObjectType' /\ Buffered' /\ InBlocks(digest)' /\ size' = size
  BY FinalLeaves DEF Appendix
<1>2. /\ size \in Nat /\ size > 0 /\ type.first \in Byte
      /\ type.field \in {8, 16} /\ type.field \in Nat /\ type.field <= size
  BY <1>0, TypeFacts DEF IsSponge
<1> DEFINE clear == Cleared(blk, pos)
<1>3. clear \in [1 .. size -> Byte]
  BY <1>0, <1>2, ClearedType
<1>4. /\ Len(log) < Len(dig) + pos
      /\ \/ Len(dig) + pos = Len(log) + 1 /\ pos > 0
         \/ pos = 0 /\ Len(dig) <= Len(log) + type.field
      /\ Len(log) \in Nat /\ Len(dig) \in Nat
  BY <1>0 DEF Padding
<1>5. UNCHANGED <<type, log, turn, out>> /\ dig' = dig \o blk'
  BY DEF Appendix
<1>6. CASE size - pos < type.field
  <2>1. blk' = clear /\ pos' = 0 /\ pc' = "append" /\ answer' = answer
    BY <1>0, <1>6 DEF Appendix
  <2> HIDE DEF clear
  <2>2. /\ dig' \in Seq(Byte) /\ Len(dig') = Len(dig) + size /\ InBlocks(dig \o blk')
    BY <1>0, <1>2, <1>3, <1>5, <2>1, MoreBlocks
  <2>3. \A i \in 1 .. size : blk'[i] = Cleared(blk, pos)[i]
    BY <2>1 DEF clear
  <2>4. \A i \in 1 .. Len(dig) + size :
          (dig \o blk')[i] = IF i <= Len(log) THEN log[i]
                             ELSE IF i = Len(log) + 1 THEN type.first ELSE 0
    <3>1. size \in 0 .. size /\ pos <= size
      BY <1>0, <1>2
    <3>2. blk' \in [1 .. size -> Byte]
      BY <1>3, <2>1
    <3> QED
      BY <1>0, <2>3, <3>1, <3>2, ClearedPads
  <2>5. FinalType'
    BY <1>0, <1>1, <1>2, <1>3, <1>5, <2>1, <2>2 DEF FinalType, IsSponge
  <2>6. Len(log) < Len(dig') /\ Len(dig') <= Len(log) + type.field
    BY <1>0, <1>2, <1>4, <1>6, <2>2
  <2>7. Padding'
    <3>1. /\ Len(log') < Len(dig') + pos'
          /\ pos' = 0 /\ Len(dig') <= Len(log') + type'.field /\ pc' = "append"
      BY <1>5, <2>1, <2>2, <2>6
    <3>2. \A i \in 1 .. Len(dig') :
            dig'[i] = IF i <= Len(log') THEN log'[i]
                      ELSE IF i = Len(log') + 1 THEN type'.first ELSE 0
      BY <1>5, <2>2, <2>4
    <3>3. 1 .. pos' = {}
      BY <2>1
    <3> QED
      BY <3>1, <3>2, <3>3 DEF Padding
  <2>8. InBlocks(dig)'
    BY <1>1, <1>5, <2>2 DEF InBlocks
  <2>9. HashesPadded'
    BY <1>5, <2>1, AnswerStays
  <2> QED
    BY <1>1, <2>5, <2>7, <2>8, <2>9 DEF DigestInv, TypeOK
<1>7. CASE ~ (size - pos < type.field)
  <2> DEFINE f == LengthField
             at == size - type.field
             k == Len(dig) + at - Len(log) - 1
  <2>1. /\ blk' = Copied(clear, at, f, type.field) /\ pos' = size + type.field - 8 /\ pc' = "ready"
        /\ answer' = Returned(dig', Whole(Bytes(type.output)))
    BY <1>5, <1>7 DEF Appendix
  <2>2. /\ f \in Seq(Byte) /\ Len(f) = type.field
        /\ \A i \in 1 .. type.field - 8 : f[i] = 0
        /\ 8 * Len(log) = IF type.order = "LE"
                          THEN GetAsLEndian(SubSeq(f, type.field - 7, type.field))
                          ELSE GetAsBEndian(SubSeq(f, type.field - 7, type.field))
    BY <1>0, LengthFieldFacts, Zenon
  <2> HIDE DEF clear, f
  <2>3. /\ at \in Nat /\ at \in 0 .. size /\ pos <= at /\ at + type.field = size
        /\ k \in Nat /\ k \in 0 .. size - 1
        /\ Len(log) + 1 + k = Len(dig) + at
        /\ Len(log) + 1 + k + type.field = Len(dig) + size
    <3>1. /\ at \in Nat /\ at \in 0 .. size /\ pos <= at /\ at + type.field = size
          /\ at < size /\ pos \in Nat
      <4>1. pos \in Nat /\ pos <= size
        BY <1>0, <1>2
      <4>2. type.field > 0
        BY <1>2
      <4>3. ~ (size - pos < type.field)
        BY <1>7
      <4> QED
        BY <1>2, <4>1, <4>2, <4>3
    <3>2. Len(log) + 1 <= Len(dig) + at /\ Len(dig) + at <= Len(log) + size
      BY <1>2, <1>4, <3>1, SMTT(30)
    <3> HIDE DEF at
    <3> QED
      BY <1>2, <1>4, <3>1, <3>2, SMTT(30)
  <2> HIDE DEF at, k
  <2>4. blk' \in [1 .. size -> Byte]
    <3>1. type.field <= Len(f)
      BY <1>2, <2>2
    <3> QED
      BY <1>2, <1>3, <2>1, <2>2, <2>3, <3>1, CopiedType
  <2>5. /\ \A i \in 1 .. at : blk'[i] = clear[i]
        /\ \A i \in 1 .. type.field : blk'[at + i] = f[i]
    <3>1. ASSUME NEW i \in 1 .. at
          PROVE  blk'[i] = clear[i]
      <4>1. i \in 1 .. size /\ ~ (at < i)
        BY <1>2, <2>3
      <4> QED
        BY <2>1, <4>1 DEF Copied
    <3>2. ASSUME NEW i \in 1 .. type.field
          PROVE  blk'[at + i] = f[i]
      <4>1. at + i \in 1 .. size /\ at < at + i /\ at + i <= at + type.field /\ (at + i) - at = i
        BY <1>2, <2>3
      <4>2. blk'[at + i] = f[(at + i) - at]
        BY <2>1, <4>1 DEF Copied
      <4> QED
        BY <4>1, <4>2
    <3> QED
      BY <3>1, <3>2
  <2>6. /\ dig' \in Seq(Byte) /\ Len(dig') = Len(dig) + size /\ InBlocks(dig \o blk')
        /\ \A i \in 1 .. size : dig'[Len(dig) + i] = blk'[i]
    BY <1>0, <1>2, <1>5, <2>4, MoreBlocks
  <2>7. \A i \in 1 .. Len(dig) + at :
          (dig \o blk')[i] = IF i <= Len(log) THEN log[i]
                             ELSE IF i = Len(log) + 1 THEN type.first ELSE 0
    BY <1>0, <2>3, <2>4, <2>5, ClearedPads DEF clear
  <2> DEFINE p == dig'
             x == type.first
  <2>8. p = log \o <<x>> \o Zeros(k) \o f
    <3>1. k \in Nat /\ f \in Seq(Byte) /\ log \in Seq(Byte) /\ x \in Byte /\ p \in Seq(Byte)
      BY <1>0, <1>2, <2>2, <2>3, <2>6
    <3>2. Len(p) = Len(log) + 1 + k + Len(f)
      BY <2>2, <2>3, <2>6
    <3>3. \A i \in 1 .. Len(log) + 1 + k :
            p[i] = IF i <= Len(log) THEN log[i] ELSE IF i = Len(log) + 1 THEN x ELSE 0
      BY <1>5, <2>3, <2>7
    <3>4. \A i \in 1 .. Len(f) : p[Len(log) + 1 + k + i] = f[i]
      <4>1. ASSUME NEW i \in 1 .. type.field
            PROVE  p[Len(log) + 1 + k + i] = f[i]
        <5>1. at + i \in 1 .. size /\ Len(log) + 1 + k + i = Len(dig) + (at + i)
          BY <1>2, <1>4, <2>3, SMTT(30)
        <5>2. dig'[Len(dig) + (at + i)] = blk'[at + i]
          BY <2>6, <5>1
        <5> QED
          BY <2>5, <5>1, <5>2
      <4> QED
        BY <2>2, <4>1
    <3> HIDE DEF p, x
    <3> QED
      BY <3>1, <3>2, <3>3, <3>4, Assemble, ZenonT(30)
  <2>9. SubSeq(p, Len(p) - type.field + 1, Len(p)) = f
    <3> DEFINE g == log \o <<x>> \o Zeros(k)
    <3>1. g \in Seq(Byte)
      BY <1>0, <1>2, <2>3, ByteZero DEF Zeros
    <3>2. p = g \o f
      BY <2>8
    <3> HIDE DEF g, p
    <3>3. Len(p) = Len(g) + type.field /\ Len(g) \in Nat
      BY <2>2, <3>1, <3>2
    <3> QED
      BY <1>2, <2>2, <3>1, <3>2, <3>3, TailOf
  <2>10. Padded(dig', log)
    <3>1. Len(p) >= type.field
      BY <1>2, <1>4, <2>6
    <3> HIDE DEF p, x
    <3>2. \E n \in 0 .. size - 1 : p = log \o <<x>> \o Zeros(n) \o f
      BY <2>3, <2>8
    <3>3. Padded(p, log)
      BY <2>2, <2>9, <3>1, <3>2, Zenon DEF Padded, x
    <3> QED
      BY <3>3 DEF p
  <2>11. FinalType'
    <3>1. pos' \in Nat
      BY <1>2, <2>1
    <3> QED
      BY <1>0, <1>1, <1>5, <2>1, <2>6, <3>1 DEF FinalType, IsSponge
  <2>12. Padding'
    BY <2>1 DEF Padding
  <2>13. InBlocks(dig)'
    BY <1>1, <1>5, <2>6 DEF InBlocks
  <2>14. HashesPadded'
    <3>1. answer'.absorbed = dig'
      BY <2>1 DEF Returned
    <3>2. ~ IsSponge'
      BY <1>0, <1>5 DEF IsSponge
    <3>3. Padded(dig, log)'
      BY <1>1, <1>5, <2>10 DEF Padded, Zeros
    <3> QED
      BY <2>13, <3>1, <3>2, <3>3 DEF HashesPadded, Padded, InBlocks
  <2> QED
    BY <1>1, <2>11, <2>12, <2>13, <2>14 DEF DigestInv, TypeOK
<1> QED
  BY <1>6, <1>7

LEMMA StutterStep ==
  ASSUME DigestInv, UNCHANGED vars
  PROVE  DigestInv'
<1>1. UNCHANGED <<type, block, position, digest, length, log, pc, left, blk, pos, dig, turn, out,
                  answer>>
  BY DEF vars, object, final
<1>2. size' = size
  BY <1>1 DEF size
<1>3. ObjectType'
  BY <1>1, <1>2 DEF DigestInv, TypeOK, ObjectType
<1>4. FinalType'
  BY <1>1, <1>2 DEF DigestInv, TypeOK, FinalType, IsSponge
<1>5. Buffered'
  BY <1>1 DEF DigestInv, Buffered
<1>6. InBlocks(digest)' /\ InBlocks(dig)' /\ Padding'
  BY <1>1, <1>2 DEF DigestInv, InBlocks, Padding, Padded101, Zeros
<1>7. HashesPadded'
  BY <1>1, AnswerStays
<1> QED
  BY <1>3, <1>4, <1>5, <1>6, <1>7 DEF DigestInv, TypeOK

-------------------------------------------------------------------------------
\* The digest, the block and what update() has still to copy are the message,
\* and finally()'s copies are the message and its padding so far, whatever the
\* calls, the block's size and what the memory of the object held.
THEOREM DigestInvariance == Spec => []DigestInv
<1>1. DigestInv /\ [Next]_vars => DigestInv'
  <2> SUFFICES ASSUME DigestInv, [Next]_vars
               PROVE  DigestInv'
    OBVIOUS
  <2>1. CASE \E data \in Data : Update(data)
    BY <2>1, UpdateStep
  <2>2. CASE Finally
    BY <2>2, FinallyStep
  <2>3. CASE FinallyEmpty
    BY <2>3, FinallyEmptyStep
  <2>4. CASE Copy
    BY <2>4, CopyStep
  <2>5. CASE Updated
    BY <2>5, UpdatedStep
  <2>6. CASE Appendix
    BY <2>6, AppendixStep
  <2>7. CASE Pad101
    BY <2>7, Pad101Step
  <2>8. CASE Squeeze
    BY <2>8, SqueezeStep
  <2>9. CASE Squeezed
    BY <2>9, SqueezedStep
  <2>10. CASE UNCHANGED vars
    BY <2>10, StutterStep
  <2> QED
    BY <2>1, <2>2, <2>3, <2>4, <2>5, <2>6, <2>7, <2>8, <2>9, <2>10 DEF Next, Step
<1> QED
  BY <1>1, Initially, PTL DEF Spec

\* Every variable keeps its type: no call writes beyond the block or leaves the
\* position at its end.
THEOREM TypeCorrect == Spec => []TypeOK
<1>1. DigestInv => TypeOK
  BY DEF DigestInv
<1> QED
  BY <1>1, DigestInvariance, PTL

\* finally() hashes the message, padded as the standard of its class says, in
\* whole blocks.
THEOREM PaddingCorrect == Spec => []HashesPadded
<1>1. DigestInv => HashesPadded
  BY DEF DigestInv
<1> QED
  BY <1>1, DigestInvariance, PTL

(***************************************************************************)
(* What finally() returns.                                                 *)
(***************************************************************************)
\* A number of bits in bytes.
LEMMA BytesOf ==
  ASSUME NEW o \in Nat
  PROVE  /\ Bytes(o) \in Nat /\ 8 * Bytes(o) >= o /\ 8 * Bytes(o) < o + 8
         /\ o % 8 = 0 => Bytes(o) = o \div 8 /\ 8 * Bytes(o) = o
         /\ o % 8 > 0 => 8 * (Bytes(o) - 1) + (o % 8) = o
<1> DEFINE q == o \div 8
           r == o % 8
           b == Bytes(o)
<1>1. q \in Nat /\ r \in 0 .. 7 /\ o = 8 * q + r
  BY SMT
<1>2. b = q + (IF r > 0 THEN 1 ELSE 0)
  BY DEF Bytes
<1> HIDE DEF q, r, b
<1>3. r = 0 => b = q /\ 8 * b = o
  BY <1>1, <1>2
<1>4. r > 0 => b = q + 1 /\ 8 * (b - 1) + r = o
  BY <1>1, <1>2
<1>5. b \in Nat /\ 8 * b >= o /\ 8 * b < o + 8
  BY <1>1, <1>3, <1>4
<1>6. (r = 0 => b = q /\ 8 * b = o) /\ (r > 0 => 8 * (b - 1) + r = o)
  BY <1>3, <1>4
<1> QED
  BY <1>5, <1>6, Zenon DEF q, r, b

\* The bytes of a digest that is taken whole are in its first block.
LEMMA WholeInOrder ==
  ASSUME ObjectType, ~ type.extends, NEW i \in 1 .. Bytes(type.output)
  PROVE  /\ Len(Whole(Bytes(type.output))) = Bytes(type.output)
         /\ Whole(Bytes(type.output))[i] =
              <<(i - 1) \div size, (i - 1) % size,
                IF 8 * i <= type.output THEN 8 ELSE type.output % 8>>
<1>1. /\ type.output \in Nat /\ size \in Nat /\ size > 0
      /\ type.output % 8 = 0 /\ type.output \div 8 <= size
  BY TypeFacts, DigestAssumption DEF ObjectType, size
<1>2. Bytes(type.output) = type.output \div 8 /\ 8 * Bytes(type.output) = type.output
  BY <1>1, BytesOf
<1>3. i - 1 \in 0 .. size - 1 /\ 8 * i <= type.output /\ Bytes(type.output) \in Nat
  BY <1>1, <1>2
<1>4. i - 1 = size * 0 + (i - 1)
  BY <1>1, <1>3
<1>5. (i - 1) \div size = 0 /\ (i - 1) % size = i - 1
  BY <1>1, <1>3, <1>4, Quotient
<1> QED
  BY <1>3, <1>5 DEF Whole

LEMMA WholeAnswer ==
  ASSUME ObjectType, ~ type.extends, NEW a,
         answer' = Returned(a, Whole(Bytes(type.output))), type' = type
  PROVE  OutputInOrder'
<1>1. Bytes(type.output) \in Nat
  BY TypeFacts, BytesOf
<1>2. answer'.out = Whole(Bytes(type.output))
  BY DEF Returned
<1>3. DOMAIN answer'.out = 1 .. Bytes(type.output) /\ Len(answer'.out) = Bytes(type.output)
  BY <1>1, <1>2 DEF Whole
<1>4. \A i \in 1 .. Bytes(type.output) :
        answer'.out[i] = <<(i - 1) \div size, (i - 1) % size,
                           IF 8 * i <= type.output THEN 8 ELSE type.output % 8>>
  BY <1>2, WholeInOrder
<1>5. size' = size
  BY DEF size
<1> QED
  BY <1>3, <1>4, <1>5 DEF OutputInOrder

LEMMA SqueezeInOrder ==
  ASSUME DigestInv, OutputInv, Squeeze
  PROVE  OutputInv'
<1> DEFINE o == Bytes(type.output)
           n == IF o - Len(out) < size THEN o - Len(out) ELSE size
           more == [i \in 1 .. n |-> <<turn, i - 1, 8>>]
<1>1. /\ out \in Seq(Out) /\ turn \in Nat /\ size \in Nat /\ size > 0
      /\ o \in Nat /\ size' = size /\ type' = type /\ answer' = answer /\ pc' = "squeeze"
      /\ pc = "squeeze"
  BY TypeFacts, BytesOf DEF DigestInv, TypeOK, FinalType, Squeeze, size, Out
<1>2. /\ Len(out) \in Nat /\ Len(out) < o /\ Len(out) = size * turn /\ type.extends
      /\ type.output > 0
      /\ \A i \in 1 .. Len(out) : out[i] = <<(i - 1) \div size, (i - 1) % size, 8>>
  <2>1. Len(out) \in Nat /\ Len(out) < o
    BY <1>1 DEF Squeeze
  <2> HIDE DEF n, more
  <2>2. /\ Len(out) < o => Len(out) = size * turn
        /\ type.extends /\ type.output > 0
        /\ \A i \in 1 .. Len(out) : out[i] = <<(i - 1) \div size, (i - 1) % size, 8>>
    BY <1>1 DEF OutputInv, Squeezing
  <2> QED
    BY <2>1, <2>2
<1>3. n \in Nat /\ Len(out) + n <= o /\ n <= size /\ (Len(out) + n < o => n = size)
  BY <1>1, <1>2
<1>4. out' = out \o more /\ turn' = turn + 1
  BY DEF Squeeze
<1> HIDE DEF o, n
<1>5. /\ more \in Seq(Out) /\ Len(more) = n
      /\ \A i \in 1 .. n : more[i] = <<turn, i - 1, 8>>
  <2>1. \A i \in 1 .. n : <<turn, i - 1, 8>> \in Out
    BY <1>1, <1>3 DEF Out
  <2> QED
    BY <1>3, <2>1
<1> HIDE DEF more
<1>6. /\ Len(out') = Len(out) + n
      /\ \A i \in 1 .. Len(out) : out'[i] = out[i]
      /\ \A i \in 1 .. n : out'[Len(out) + i] = more[i]
  BY <1>1, <1>4, <1>5
<1>7. ASSUME NEW i \in 1 .. Len(out')
      PROVE  out'[i] = <<(i - 1) \div size, (i - 1) % size, 8>>
  <2>1. CASE i <= Len(out)
    BY <1>2, <1>3, <1>6, <2>1
  <2>2. CASE i > Len(out)
    <3>1. /\ i - Len(out) \in 1 .. n /\ Len(out) + (i - Len(out)) = i
          /\ i - 1 \in Nat /\ i - 1 - Len(out) \in 0 .. size - 1
          /\ i - 1 = size * turn + (i - 1 - Len(out))
      BY <1>1, <1>2, <1>3, <1>6, <2>2
    <3>2. (i - 1) \div size = turn /\ (i - 1) % size = i - 1 - Len(out)
      BY <1>1, <3>1, Quotient
    <3>3. out'[i] = more[i - Len(out)] /\ more[i - Len(out)] = <<turn, i - Len(out) - 1, 8>>
      BY <1>5, <1>6, <3>1
    <3>4. i - Len(out) - 1 = i - 1 - Len(out)
      BY <1>2, <3>1
    <3> QED
      BY <3>2, <3>3, <3>4
  <2> QED
    BY <1>2, <1>3, <1>6, <2>1, <2>2
<1>8. size * (turn + 1) = size * turn + size
  BY <1>1
<1>9. Len(out') <= o /\ (Len(out') < o => Len(out') = size * turn')
  BY <1>1, <1>2, <1>3, <1>4, <1>6, <1>8
<1>10. Squeezing'
  BY <1>1, <1>2, <1>7, <1>9 DEF Squeezing, o
<1>11. OutputInOrder'
  BY <1>1 DEF OutputInv, OutputInOrder
<1> QED
  BY <1>10, <1>11 DEF OutputInv

LEMMA SqueezedInOrder ==
  ASSUME DigestInv, OutputInv, Squeezed
  PROVE  OutputInv'
<1> DEFINE o == type.output
           n == Len(out)
           last == 8 - ((8 - (o % 8)) % 8)
<1>1. /\ out \in Seq(Out) /\ size \in Nat /\ size > 0
      /\ o \in Nat /\ size' = size /\ type' = type /\ pc' = "ready" /\ pc = "squeeze"
  BY TypeFacts DEF DigestInv, TypeOK, FinalType, Squeezed, size, Out
<1>2. /\ n \in Nat /\ n = Bytes(o) /\ o > 0
      /\ \A i \in 1 .. n : out[i] = <<(i - 1) \div size, (i - 1) % size, 8>>
  BY <1>1 DEF OutputInv, Squeezing, Squeezed
<1>3. /\ n > 0 /\ 8 * n >= o /\ 8 * n < o + 8
      /\ o % 8 = 0 => 8 * n = o
      /\ o % 8 > 0 => 8 * (n - 1) + (o % 8) = o
  <2> HIDE DEF n
  <2>1. /\ 8 * n >= o /\ 8 * n < o + 8
        /\ o % 8 = 0 => 8 * n = o
        /\ o % 8 > 0 => 8 * (n - 1) + (o % 8) = o
    BY <1>1, <1>2, BytesOf, Zenon
  <2>2. n > 0
    BY <1>1, <1>2, <2>1
  <2> QED
    BY <2>1, <2>2
<1>4. out' = [out EXCEPT ![n] = [out[n] EXCEPT ![3] = last]] /\ answer' = Returned(dig, out')
  BY DEF Squeezed
<1>5. last = IF 8 * n <= o THEN 8 ELSE o % 8
  <2> DEFINE r == o % 8
  <2> HIDE DEF n
  <2>1. /\ r \in 0 .. 7
        /\ r = 0 => 8 * n = o
        /\ r > 0 => 8 * (n - 1) + r = o
    BY <1>1, <1>3
  <2> HIDE DEF r
  <2>2. 8 - ((8 - r) % 8) = IF r = 0 THEN 8 ELSE r
    BY <2>1
  <2>3. 8 * n <= o <=> r = 0
    <3>1. n \in Nat /\ o \in Nat /\ 8 * n >= o
      BY <1>1, <1>2, <1>3
    <3> QED
      BY <2>1, <3>1
  <2> QED
    BY <2>2, <2>3 DEF r
<1> HIDE DEF last, n
<1>6. /\ DOMAIN out' = 1 .. n /\ Len(out') = n
      /\ \A i \in 1 .. n - 1 : out'[i] = out[i]
      /\ out'[n] = [out[n] EXCEPT ![3] = last]
  <2>1. n = Len(out) /\ DOMAIN out = 1 .. n
    BY <1>1, <1>2 DEF n
  <2>2. n \in 1 .. n
    BY <1>2, <1>3
  <2> QED
    BY <1>4, <2>1, <2>2
<1>7. out'[n] = <<(n - 1) \div size, (n - 1) % size, last>>
  BY <1>2, <1>3, <1>6
<1>8. ASSUME NEW i \in 1 .. n
      PROVE  out'[i] = <<(i - 1) \div size, (i - 1) % size,
                         IF 8 * i <= o THEN 8 ELSE o % 8>>
  <2>1. CASE i = n
    BY <1>5, <1>7, <2>1
  <2>2. CASE i < n
    <3>1. 8 * i <= o /\ i \in 1 .. n - 1
      BY <1>1, <1>2, <1>3, <2>2
    <3>2. out'[i] = <<(i - 1) \div size, (i - 1) % size, 8>>
      BY <1>2, <1>6, <3>1
    <3> QED
      BY <3>1, <3>2
  <2> QED
    BY <1>2, <2>1, <2>2
<1>9. OutputInOrder'
  <2>1. answer'.out = out'
    BY <1>4 DEF Returned
  <2> QED
    BY <1>1, <1>2, <1>6, <1>8, <2>1 DEF OutputInOrder
<1>10. Squeezing'
  BY <1>1 DEF Squeezing
<1> QED
  BY <1>9, <1>10 DEF OutputInv

\* What finally() returns has the length of the digest, and its bytes are those of
\* the squeezed blocks, in order and cut at the last bit (SHAKE.cpp, SHA3.cpp).
THEOREM OutputCorrect == Spec => []OutputInOrder
<1>1. Init => OutputInv
  BY DEF Init, OutputInv, Squeezing, OutputInOrder
<1>2. DigestInv /\ OutputInv /\ [Next]_vars => OutputInv'
  <2> SUFFICES ASSUME DigestInv, OutputInv, [Next]_vars
               PROVE  OutputInv'
    OBVIOUS
  <2>0. ObjectType /\ FinalType
    BY DEF DigestInv, TypeOK
  <2>1. CASE \E data \in Data : Update(data)
    BY <2>1 DEF Update, OutputInv, Squeezing, OutputInOrder
  <2>2. CASE Finally
    <3>1. type.output \in Nat
      BY <2>0, TypeFacts
    <3> QED
      BY <2>2, <3>1 DEF Finally, OutputInv, Squeezing, OutputInOrder, IsSponge
  <2>3. CASE FinallyEmpty
    <3>1. Bytes(type.output) = 0
      BY <2>3 DEF FinallyEmpty, Bytes
    <3> QED
      BY <2>3, <3>1 DEF FinallyEmpty, Returned, final, OutputInv, Squeezing, OutputInOrder, size
  <2>4. CASE Copy
    BY <2>4 DEF Copy, final, OutputInv, Squeezing, OutputInOrder, size
  <2>5. CASE Updated
    BY <2>5 DEF Updated, final, OutputInv, Squeezing, OutputInOrder, size
  <2>6. CASE Appendix
    <3>1. ~ type.extends
      <4>1. ~ IsSponge
        BY <2>0, <2>6 DEF Appendix, FinalType
      <4>2. type.field \in {8, 16} /\ type \in Types
        BY <2>0, <4>1, TypeFacts DEF IsSponge, ObjectType
      <4> QED
        BY <4>2, DigestAssumption
    <3>2. Squeezing'
      BY <2>6 DEF Appendix, Squeezing
    <3>3. CASE size - pos < type.field
      BY <2>6, <3>2, <3>3 DEF Appendix, OutputInv, OutputInOrder, size
    <3>4. CASE ~ (size - pos < type.field)
      <4>1. answer' = Returned(dig \o blk', Whole(Bytes(type.output))) /\ type' = type
        BY <2>6, <3>4 DEF Appendix
      <4> QED
        BY <2>0, <3>1, <3>2, <4>1, WholeAnswer DEF OutputInv
    <3> QED
      BY <3>3, <3>4
  <2>7. CASE Pad101
    <3>1. CASE type.extends
      <4>1. /\ pc' = "squeeze" /\ pc = "pad" /\ UNCHANGED <<type, out, turn, answer>>
        BY <2>7, <3>1 DEF Pad101
      <4>2. /\ size' = size /\ size \in Nat /\ Bytes(type.output) \in Nat /\ type.output > 0
            /\ turn = 0 /\ out = <<>>
        BY <2>0, <3>1, <4>1, TypeFacts, BytesOf DEF size, OutputInv, Squeezing
      <4>3. Squeezing'
        BY <3>1, <4>1, <4>2 DEF Squeezing
      <4> QED
        BY <4>1, <4>2, <4>3 DEF OutputInv, OutputInOrder
    <3>2. CASE ~ type.extends
      <4>1. answer' = Returned(dig', Whole(Bytes(type.output))) /\ type' = type /\ pc' = "ready"
        BY <2>7, <3>2 DEF Pad101
      <4> QED
        BY <2>0, <3>2, <4>1, WholeAnswer DEF OutputInv, Squeezing
    <3> QED
      BY <3>1, <3>2
  <2>8. CASE Squeeze
    BY <2>8, SqueezeInOrder
  <2>9. CASE Squeezed
    BY <2>9, SqueezedInOrder
  <2>10. CASE UNCHANGED vars
    BY <2>10 DEF vars, final, OutputInv, Squeezing, OutputInOrder, size
  <2> QED
    BY <2>1, <2>2, <2>3, <2>4, <2>5, <2>6, <2>7, <2>8, <2>9, <2>10 DEF Next, Step
<1>3. OutputInv => OutputInOrder
  BY DEF OutputInv
<1> QED
  BY <1>1, <1>2, <1>3, DigestInvariance, PTL DEF Spec
===============================================================================
