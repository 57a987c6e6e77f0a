--------------------------- MODULE WebSocketProofs ---------------------------
(***************************************************************************)
(* Proofs about WebSocketFrame and WebSocket, for any threads, messages,   *)
(* masks and segments, and about Http, for any messages and deliveries.    *)
(***************************************************************************)
EXTENDS WebSocket, Http, DataLemmas, SequenceTheorems, FiniteSetTheorems, TLAPS

(***************************************************************************)
(* The frame format: what is read back is what was written.                *)
(***************************************************************************)
\* The opcode, the reserved bits and FIN come back from the first byte.
THEOREM HeadReadBack ==
  ASSUME NEW m \in Message
  PROVE  LET b == Prefix(m)[1]
         IN  FIN(b) = m.FIN /\ RSV(b) = m.RSV /\ OPC(b) = m.OPC
<1> DEFINE b == m.FIN * 128 + (m.RSV % 8) * 16 + (m.OPC % 16)
<1>1. Prefix(m)[1] = b
  BY DEF Prefix, Extended, Message
<1>2. m.FIN \in {0, 1} /\ m.RSV \in 0 .. 7 /\ m.OPC \in 0 .. 15
  BY DEF Message
<1>3. FIN(b) = m.FIN /\ RSV(b) = m.RSV /\ OPC(b) = m.OPC
  BY <1>2 DEF FIN, RSV, OPC
<1> QED
  BY <1>1, <1>3

\* The receiver reads the extended length exactly when the sender wrote one,
\* and gets the length the sender had, for all of its three forms.
THEOREM LengthReadBack ==
  ASSUME NEW n \in Nat, In64Bits(n), NEW k \in {0, 1}
  PROVE  LET byte == k * 128 + Length7(n)
         IN  /\ Len(Extended(n)) = Announced(byte)
             /\ Length(byte, Extended(n)) = n
             /\ MASK(byte) = k
<1> DEFINE byte == k * 128 + Length7(n)
           e == Extended(n)
<1>0. MASK(byte) = k
  BY DEF MASK, Length7
<1>1. CASE n < 126
  <2>1. byte % 128 = n /\ Announced(byte) = 0
    BY <1>1 DEF Length7, Announced
  <2>2. Len(e) = 0
    BY <1>1 DEF Extended, Extension
  <2> QED
    BY <1>0, <2>1, <2>2 DEF Length
<1>2. CASE 126 <= n /\ n < 65536
  <2>1. byte % 128 = 126 /\ Announced(byte) = 2
    BY <1>2 DEF Length7, Announced
  <2>2. e = <<(n \div 256) % 256, n % 256>>
    <3>1. Extension(n) = 2
      BY <1>2 DEF Extension
    <3>2. e = Extended2(n)
      BY <3>1 DEF Extended
    <3> QED
      BY <3>2 DEF Extended2
  <2>3. (n \div 256) % 256 = n \div 256 /\ n = (n \div 256) * 256 + (n % 256)
    BY <1>2, Shift8
  <2>4. Length2(e) = n
    BY <2>2, <2>3 DEF Length2
  <2> QED
    BY <1>0, <2>1, <2>2, <2>4 DEF Length
<1>3. CASE 65536 <= n
  <2> DEFINE middle == n \div 16777216
             high == middle \div 16777216
  <2>1. byte % 128 = 127 /\ Announced(byte) = 8
    BY <1>3 DEF Length7, Announced
  <2>2. e = <<(high \div 256) % 256, high % 256, (middle \div 65536) % 256,
              (middle \div 256) % 256, middle % 256, (n \div 65536) % 256,
              (n \div 256) % 256, n % 256>>
    <3>1. Extension(n) = 8
      BY <1>3 DEF Extension
    <3>2. e = Extended8(n)
      BY <3>1 DEF Extended
    <3> QED
      BY <3>2 DEF Extended8
  <2>3. n = (((((((((high \div 256) % 256) * 256 + (high % 256)) * 256
                + ((middle \div 65536) % 256)) * 256
                + ((middle \div 256) % 256)) * 256 + (middle % 256)) * 256
                + ((n \div 65536) % 256)) * 256
                + ((n \div 256) % 256)) * 256 + (n % 256))
    BY Split64
  <2> HIDE DEF middle, high
  <2>9. Length8(e) = n
    BY <2>2, <2>3 DEF Length8
  <2> QED
    BY <1>0, <2>1, <2>2, <2>9 DEF Length
<1> QED
  BY <1>1, <1>2, <1>3

\* Masking a payload twice with one key gives the payload back.
THEOREM MaskReadBack ==
  ASSUME NEW c \in Seq(Byte), NEW k \in [1 .. 4 -> Byte]
  PROVE  /\ Masked(c, k) \in Seq(Byte)
         /\ Len(Masked(c, k)) = Len(c)
         /\ Masked(Masked(c, k), k) = c
<1>1. \A i \in DOMAIN c : ((i - 1) % 4) + 1 \in 1 .. 4
  OBVIOUS
<1>2. \A i \in DOMAIN c : c[i] \in Byte /\ k[((i - 1) % 4) + 1] \in Byte
  BY <1>1
<1>3. /\ Masked(c, k) \in Seq(Byte)
      /\ Len(Masked(c, k)) = Len(c)
      /\ \A i \in DOMAIN c : Masked(c, k)[i] = XorByte(c[i], k[((i - 1) % 4) + 1])
  BY <1>2, XorAssumption, SMTT(30) DEF Masked
<1>4. \A i \in DOMAIN c : XorByte(XorByte(c[i], k[((i - 1) % 4) + 1]), k[((i - 1) % 4) + 1]) = c[i]
  BY <1>2, XorAssumption
<1> QED
  BY <1>3, <1>4 DEF Masked
(***************************************************************************)
(* The connection.                                                         *)
(***************************************************************************)
\* The two bytes at the head of a frame are bytes.
LEMMA HeadByte ==
  ASSUME NEW x \in {0, 1}, NEW y \in 0 .. 7, NEW z \in 0 .. 15
  PROVE  x * 128 + (y % 8) * 16 + (z % 16) \in Byte
  BY DEF Byte
LEMMA SizeByte ==
  ASSUME NEW x \in {0, 1}, NEW n \in Nat
  PROVE  x * 128 + Length7(n) \in Byte
  BY DEF Byte, Length7

LEMMA ByteOf ==
  ASSUME NEW n \in Nat
  PROVE  n % 256 \in Byte /\ n \div 256 \in Nat /\ n \div 65536 \in Nat
  BY SMT DEF Byte
LEMMA Above24 ==
  ASSUME NEW n \in Nat
  PROVE  n \div 16777216 \in Nat
  BY SMT

LEMMA ExtendedType ==
  ASSUME NEW n \in Nat
  PROVE  Extended(n) \in Seq(Byte)
<1>1. Extended2(n) \in Seq(Byte)
  <2>1. (n \div 256) % 256 \in Byte /\ n % 256 \in Byte
    BY ByteOf
  <2> QED
    BY <2>1 DEF Extended2
<1>2. Extended8(n) \in Seq(Byte)
  <2> DEFINE middle == n \div 16777216
             high == middle \div 16777216
  <2>1. middle \in Nat
    BY Above24
  <2>2. high \in Nat
    BY <2>1, Above24
  <2> HIDE DEF middle, high
  <2>3. (high \div 256) % 256 \in Byte /\ high % 256 \in Byte
    BY <2>2, ByteOf
  <2>4. /\ (middle \div 65536) % 256 \in Byte /\ (middle \div 256) % 256 \in Byte
        /\ middle % 256 \in Byte
    BY <2>1, ByteOf
  <2>5. /\ (n \div 65536) % 256 \in Byte /\ (n \div 256) % 256 \in Byte
        /\ n % 256 \in Byte
    BY ByteOf
  <2>6. Extended8(n) = <<(high \div 256) % 256, high % 256, (middle \div 65536) % 256,
              (middle \div 256) % 256, middle % 256, (n \div 65536) % 256,
              (n \div 256) % 256, n % 256>>
    BY DEF Extended8, middle, high
  <2> QED
    BY <2>3, <2>4, <2>5, <2>6
<1> QED
  BY <1>1, <1>2 DEF Extended

\* What frame() writes before a payload are bytes.
LEMMA PrefixType ==
  ASSUME NEW m \in Message
  PROVE  Prefix(m) \in Seq(Byte)
<1>1. m.FIN \in {0, 1} /\ m.RSV \in 0 .. 7 /\ m.MSK \in {0, 1} /\ m.OPC \in 0 .. 15
  BY DEF Message
<1>2. Len(m.context) \in Nat
  BY DEF Message
<1>3. Extended(Len(m.context)) \in Seq(Byte)
  BY <1>2, ExtendedType
<1>4. m.FIN * 128 + (m.RSV % 8) * 16 + (m.OPC % 16) \in Byte
  BY <1>1, HeadByte
<1>5. m.MSK * 128 + Length7(Len(m.context)) \in Byte
  BY <1>1, <1>2, SizeByte
<1> QED
  BY <1>3, <1>4, <1>5 DEF Prefix

LEMMA ByteIsNat ==
  ASSUME NEW x \in Byte
  PROVE  x \in Nat
  BY DEF Byte
LEMMA ItemType ==
  ASSUME NEW q \in Seq(Byte), NEW i \in Nat, 1 <= i, i <= Len(q)
  PROVE  q[i] \in Nat
<1>1. q[i] \in Byte
  OBVIOUS
<1> QED
  BY <1>1, ByteIsNat
LEMMA Length2Type ==
  ASSUME NEW q \in Seq(Byte), Len(q) >= 2
  PROVE  Length2(q) \in Nat
<1>1. q[1] \in Nat
  BY ItemType
<1>2. q[2] \in Nat
  BY ItemType
<1> QED
  BY <1>1, <1>2 DEF Length2
LEMMA TwoBytes ==
  ASSUME NEW x \in Nat, NEW y \in Nat
  PROVE  x * 256 + y \in Nat
  OBVIOUS
LEMMA Length8Type ==
  ASSUME NEW q \in Seq(Byte), Len(q) >= 8
  PROVE  Length8(q) \in Nat
<1>1. /\ q[1] \in Nat /\ q[2] \in Nat /\ q[3] \in Nat /\ q[4] \in Nat
      /\ q[5] \in Nat /\ q[6] \in Nat /\ q[7] \in Nat /\ q[8] \in Nat
  <2>1. q[1] \in Nat
    BY ItemType
  <2>2. q[2] \in Nat
    BY ItemType
  <2>3. q[3] \in Nat
    BY ItemType
  <2>4. q[4] \in Nat
    BY ItemType
  <2>5. q[5] \in Nat
    BY ItemType
  <2>6. q[6] \in Nat
    BY ItemType
  <2>7. q[7] \in Nat
    BY ItemType
  <2>8. q[8] \in Nat
    BY ItemType
  <2> QED
    BY <2>1, <2>2, <2>3, <2>4, <2>5, <2>6, <2>7, <2>8
<1> DEFINE c2 == q[1] * 256 + q[2]
           c3 == c2 * 256 + q[3]
           c4 == c3 * 256 + q[4]
           c5 == c4 * 256 + q[5]
           c6 == c5 * 256 + q[6]
           c7 == c6 * 256 + q[7]
           c8 == c7 * 256 + q[8]
<1>2. c2 \in Nat
  BY <1>1, TwoBytes
<1> HIDE DEF c2
<1>3. c3 \in Nat
  BY <1>1, <1>2, TwoBytes
<1> HIDE DEF c3
<1>4. c4 \in Nat
  BY <1>1, <1>3, TwoBytes
<1> HIDE DEF c4
<1>5. c5 \in Nat
  BY <1>1, <1>4, TwoBytes
<1> HIDE DEF c5
<1>6. c6 \in Nat
  BY <1>1, <1>5, TwoBytes
<1> HIDE DEF c6
<1>7. c7 \in Nat
  BY <1>1, <1>6, TwoBytes
<1> HIDE DEF c7
<1>8. c8 \in Nat
  BY <1>1, <1>7, TwoBytes
<1> QED
  BY <1>8 DEF Length8, c2, c3, c4, c5, c6, c7

LEMMA Bit7 ==
  ASSUME NEW byte \in Byte
  PROVE  (byte \div 128) % 2 \in {0, 1} /\ byte % 128 \in Nat
  BY DEF Byte

\* The length read back is a number, whatever the bytes.
LEMMA LengthType ==
  ASSUME NEW x \in Byte, NEW q \in Seq(Byte), Len(q) = Announced(x)
  PROVE  Length(x, q) \in Nat /\ MASK(x) \in {0, 1} /\ Announced(x) \in Nat
<1>1. MASK(x) \in {0, 1}
  BY Bit7 DEF MASK
<1>2. Announced(x) \in {0, 2, 8}
  BY DEF Announced
<1>4. CASE Announced(x) = 0
  <2>1. Length(x, q) = x % 128
    BY <1>4 DEF Length
  <2> QED
    BY <1>1, <1>4, <2>1, Bit7
<1>5. CASE Announced(x) = 2
  <2>0. Len(q) >= 2
    BY <1>5
  <2>1. Length2(q) \in Nat
    BY <2>0, Length2Type
  <2> QED
    BY <1>1, <1>5, <2>1 DEF Length
<1>6. CASE Announced(x) = 8
  <2>0. Len(q) >= 8
    BY <1>6
  <2>1. Length8(q) \in Nat
    BY <2>0, Length8Type
  <2> QED
    BY <1>1, <1>6, <2>1 DEF Length
<1> QED
  BY <1>1, <1>2, <1>4, <1>5, <1>6

LEMMA Initially == Init => WebSocketInv
<1> SUFFICES ASSUME Init PROVE WebSocketInv
  OBVIOUS
<1>1. Blank \in Message /\ NoKey \in [1 .. 4 -> Byte] /\ Fresh \in Received
  BY DEF Blank, Message, NoKey, Byte, Fresh, Received, OPC_BINARY
<1>2. SendingType
  BY <1>1, SocketAssumption DEF Init, SendingType
<1>3. ReceivingType
  BY <1>1 DEF Init, ReceivingType
<1>4. Sending /\ Closing
  BY DEF Init, Sending, Closing, Midway
<1>5. Receiving
  BY DEF Init, Receiving
<1> QED
  BY <1>2, <1>3, <1>4, <1>5 DEF WebSocketInv, TypeOK

\* The receiver's part stays as it is while it does nothing and bytes are added.
LEMMA ReceiverRests ==
  ASSUME WebSocketInv, UNCHANGED receiving,
         stream' \in Seq(Byte), Len(stream) <= Len(stream')
  PROVE  ReceivingType' /\ Receiving'
<1>1. ReceivingType'
  BY DEF WebSocketInv, TypeOK, SendingType, ReceivingType, receiving
<1>2. Receiving'
  BY DEF WebSocketInv, Receiving, receiving
<1> QED
  BY <1>1, <1>2

\* The senders' part stays as it is while the receiver works.
LEMMA SenderRests ==
  ASSUME WebSocketInv, UNCHANGED <<sending, stream, link, sock>>
  PROVE  SendingType' /\ Sending' /\ Closing'
<1> USE DEF WebSocketInv, sending
<1>1. SendingType'
  BY DEF TypeOK, SendingType
<1>2. Sending'
  BY DEF Sending, Midway, Current
<1>3. Closing'
  BY DEF Closing, Midway
<1> QED
  BY <1>1, <1>2, <1>3

\* Only the holder of the lock is in send().
LEMMA Alone ==
  ASSUME WebSocketInv, NEW s \in Senders, spc[s] # "idle"
  PROVE  \A t \in Senders : t # s => spc[t] = "idle" /\ ~ Midway(t)
  BY DEF WebSocketInv, Sending, Midway

\* A thread in send() has a message, and a frame of it while it is in frame().
LEMMA CurrentType ==
  ASSUME WebSocketInv, NEW s \in Senders, spc[s] # "idle"
  PROVE  /\ todo[s] \in Seq(Seq(Message)) /\ todo[s] # <<>>
         /\ Head(todo[s]) \in Seq(Message) /\ Tail(todo[s]) \in Seq(Seq(Message))
         /\ Head(todo[s]) # <<>> =>
              Current(s) \in Message /\ Tail(Head(todo[s])) \in Seq(Message)
<1>1. todo[s] \in Seq(Seq(Message))
  BY DEF WebSocketInv, TypeOK, SendingType
<1>2. todo[s] # <<>>
  BY DEF WebSocketInv, Sending
<1> DEFINE S == Seq(Message)
<1> HIDE DEF S
<1>3. todo[s] \in Seq(S)
  BY <1>1 DEF S
<1>4. Head(todo[s]) \in S /\ Tail(todo[s]) \in Seq(S)
  BY <1>2, <1>3
<1>5. Head(todo[s]) \in Seq(Message) /\ Tail(todo[s]) \in Seq(Seq(Message))
  BY <1>4 DEF S
<1> QED
  BY <1>1, <1>2, <1>5 DEF Current

\* An exception leaves the lock and no frame that is underway.
LEMMA ThrowStep ==
  ASSUME WebSocketInv, NEW s \in Senders, spc[s] # "idle", Throw(s),
         UNCHANGED <<stream, link>>, sock' \in {sock, "closed"},
         Midway(s) => sock' = "closed"
  PROVE  SendingType' /\ Sending' /\ Closing'
<1>0. /\ SendingType /\ Sending /\ Closing
      /\ \A t \in Senders : t # s => spc[t] = "idle" /\ ~ Midway(t)
  BY Alone DEF WebSocketInv, TypeOK
<1>1. \A t \in Senders : spc'[t] = "idle" /\ ~ Midway(t)' /\ out'[t] = <<>>
  BY <1>0 DEF Throw, SendingType, Sending, Midway
<1>2. SendingType'
  <2>1. todo' \in [Senders -> Seq(Seq(Message))]
    BY <1>0 DEF Throw, SendingType
  <2>2. /\ spc' \in [Senders -> {"idle", "send", "prefix", "mask", "payload"}]
        /\ out' \in [Senders -> Seq(Byte)]
    BY <1>0 DEF Throw, SendingType
  <2>3. holder' \in Senders \cup {Nobody}
    BY <1>0 DEF Throw, SendingType
  <2> QED
    BY <1>0, <2>1, <2>2, <2>3 DEF Throw, SendingType
<1>3. Sending'
  BY <1>1 DEF Sending
<1>4. Closing'
  <2>1. UNCHANGED <<frames, starts, opening, stream>>
    BY DEF Throw
  <2>2. ASSUME NEW i \in DOMAIN frames, frames[i].OPC = OPC_CLOSE
        PROVE  \/ /\ sock' = "closed"
                  /\ \A j \in DOMAIN frames : i < j => starts[j] = Len(stream)
               \/ i = Len(frames) /\ ~ opening
    <3>1. CASE sock = "closed" /\ \A j \in DOMAIN frames : i < j => starts[j] = Len(stream)
      BY <3>1
    <3>2. CASE i = Len(frames) /\ ~ opening
      BY <3>2
    <3>3. CASE i = Len(frames) /\ \E t \in Senders : Midway(t)
      <4>1. sock' = "closed"
        BY <3>3, <1>0
      <4>2. \A j \in DOMAIN frames : ~ (i < j)
        BY <3>3, <1>0 DEF SendingType
      <4> QED
        BY <4>1, <4>2
    <3> QED
      BY <1>0, <2>2, <3>1, <3>2, <3>3 DEF Closing
  <2> QED
    BY <1>1, <2>1, <2>2 DEF Closing
<1> QED
  BY <1>2, <1>3, <1>4

LEMMA LockStep ==
  ASSUME WebSocketInv, NEW s \in Senders, Lock(s)
  PROVE  WebSocketInv'
<1>0. SendingType /\ Sending /\ Closing /\ ReceivingType
  BY DEF WebSocketInv, TypeOK
<1>1. ReceivingType' /\ Receiving'
  BY <1>0, ReceiverRests DEF Lock, SendingType
<1>2. SendingType'
  BY <1>0 DEF Lock, SendingType
<1>3. \A t \in Senders : spc[t] = "idle"
  BY <1>0, SocketAssumption DEF Lock, Sending
<1>4. \A t \in Senders : ~ Midway(t) /\ ~ Midway(t)'
  BY <1>0, <1>3 DEF Lock, Midway, SendingType
<1>5. Sending'
  BY <1>0, <1>3, <1>4 DEF Lock, Sending, SendingType
<1>6. Closing'
  BY <1>0, <1>4 DEF Lock, Closing
<1> QED
  BY <1>1, <1>2, <1>5, <1>6 DEF WebSocketInv, TypeOK

LEMMA UnlockStep ==
  ASSUME WebSocketInv, NEW s \in Senders, Unlock(s)
  PROVE  WebSocketInv'
<1>0. /\ SendingType /\ Sending /\ Closing
      /\ \A t \in Senders : t # s => spc[t] = "idle" /\ ~ Midway(t)
  BY Alone DEF WebSocketInv, TypeOK, Unlock
<1>1. ReceivingType' /\ Receiving'
  BY <1>0, ReceiverRests DEF Unlock, SendingType
<1>2. SendingType'
  <2>1. Tail(todo[s]) \in Seq(Seq(Message))
    BY CurrentType DEF Unlock
  <2>2. todo' \in [Senders -> Seq(Seq(Message))]
    BY <1>0, <2>1 DEF Unlock, SendingType
  <2> QED
    BY <1>0, <2>2 DEF Unlock, SendingType
<1>3. \A t \in Senders : spc'[t] = "idle" /\ ~ Midway(t)' /\ ~ Midway(t)
  BY <1>0 DEF Unlock, Midway, SendingType
<1>4. Sending'
  BY <1>0, <1>3 DEF Unlock, Sending
<1>5. Closing'
  BY <1>0, <1>3 DEF Unlock, Closing
<1> QED
  BY <1>1, <1>2, <1>4, <1>5 DEF WebSocketInv, TypeOK

LEMMA BeginStep ==
  ASSUME WebSocketInv, NEW s \in Senders, Begin(s)
  PROVE  WebSocketInv'
<1>0. /\ SendingType /\ Sending /\ Closing /\ spc[s] = "send"
      /\ \A t \in Senders : t # s => spc[t] = "idle" /\ ~ Midway(t)
  BY Alone DEF WebSocketInv, TypeOK, Begin
<1>1. ReceivingType' /\ Receiving'
  BY <1>0, ReceiverRests DEF Begin, SendingType
<1>2. Current(s) \in Message /\ Head(todo[s]) # <<>>
  BY <1>0, CurrentType DEF Begin
<1>3. ~ Midway(s)
  BY <1>0 DEF Midway
<1>4. CASE ~ opening
  <2>1. SendingType' /\ Sending' /\ Closing'
    BY <1>0, <1>3, <1>4, ThrowStep DEF Begin
  <2> QED
    BY <1>1, <2>1 DEF WebSocketInv, TypeOK
<1>5. CASE opening
  <2>1. /\ frames' = Append(frames, Current(s)) /\ starts' = Append(starts, Len(stream))
        /\ out' = [out EXCEPT ![s] = Prefix(Current(s))]
        /\ spc' = [spc EXCEPT ![s] = "prefix"]
        /\ UNCHANGED <<todo, key, holder, opening, stream, link, sock>>
    BY <1>5 DEF Begin
  <2>2. frames' \in Seq(Message) /\ starts' \in Seq(Nat) /\ Len(starts') = Len(frames')
    BY <1>0, <1>2, <2>1 DEF SendingType
  <2>3. SendingType'
    BY <1>0, <1>2, <2>1, <2>2, PrefixType DEF SendingType
  <2>4. Sending'
    <3>1. frames'[Len(frames')] = Current(s) /\ frames' # <<>>
      <4>1. frames \in Seq(Message)
        BY <1>0 DEF SendingType
      <4>2. Len(frames') = Len(frames) + 1 /\ frames'[Len(frames) + 1] = Current(s)
        BY <1>2, <2>1, <4>1
      <4>3. frames' # <<>>
        BY <1>2, <2>1, <4>1
      <4> QED
        BY <4>2, <4>3
    <3>2. Current(s)' = Current(s)
      BY <2>1 DEF Current
    <3> QED
      BY <1>0, <1>2, <2>1, <3>1, <3>2 DEF Sending, Midway, SendingType
  <2>5. Midway(s)'
    BY <1>0, <2>1 DEF Midway, SendingType
  <2>6. \A t \in Senders : ~ Midway(t)
    BY <1>0, <1>3
  <2>7. ASSUME NEW i \in DOMAIN frames, frames[i].OPC = OPC_CLOSE
        PROVE  sock = "closed" /\ \A j \in DOMAIN frames : i < j => starts[j] = Len(stream)
    BY <1>0, <1>5, <2>6, <2>7 DEF Closing
  <2>8. /\ DOMAIN frames' = DOMAIN frames \cup {Len(frames) + 1}
        /\ \A i \in DOMAIN frames : frames'[i] = frames[i] /\ starts'[i] = starts[i]
        /\ starts'[Len(frames) + 1] = Len(stream) /\ Len(frames') = Len(frames) + 1
    BY <1>0, <1>2, <2>1 DEF SendingType
  <2>9. Closing'
    BY <1>5, <2>1, <2>5, <2>7, <2>8 DEF Closing
  <2> QED
    BY <1>1, <2>3, <2>4, <2>9 DEF WebSocketInv, TypeOK
<1> QED
  BY <1>4, <1>5

LEMMA WriteStep ==
  ASSUME WebSocketInv, NEW s \in Senders, Write(s)
  PROVE  WebSocketInv'
<1>0. /\ SendingType /\ Sending /\ Closing /\ Midway(s) /\ spc[s] # "idle"
      /\ \A t \in Senders : t # s => spc[t] = "idle" /\ ~ Midway(t)
  <2>1. SendingType /\ Sending /\ Closing
    BY DEF WebSocketInv, TypeOK
  <2>2. Midway(s) /\ spc[s] # "idle"
    BY <2>1 DEF Write, Sending, Midway
  <2> QED
    BY <2>1, <2>2, Alone
<1>1. PICK n \in Segments :
        /\ n <= Len(out[s])
        /\ stream' = stream \o SubSeq(out[s], 1, n)
        /\ out' = [out EXCEPT ![s] = SubSeq(@, n + 1, Len(@))]
  BY DEF Write
<1>2. n \in Nat \ {0} /\ out[s] \in Seq(Byte) /\ stream \in Seq(Byte)
  BY <1>0, SocketAssumption DEF SendingType
<1>3. SubSeq(out[s], 1, n) \in Seq(Byte) /\ SubSeq(out[s], n + 1, Len(out[s])) \in Seq(Byte)
  BY <1>1, <1>2
<1>4. stream' \in Seq(Byte) /\ Len(stream') >= Len(stream)
  BY <1>1, <1>2, <1>3
<1>5. ReceivingType' /\ Receiving'
  BY <1>4, ReceiverRests DEF Write
<1>6. out' \in [Senders -> Seq(Byte)]
  BY <1>0, <1>1, <1>3 DEF SendingType
<1>7. SendingType'
  BY <1>0, <1>4, <1>6 DEF Write, SendingType
<1>8. UNCHANGED <<todo, spc, holder, opening, frames, starts, sock>> /\ sock = "open"
  BY DEF Write
<1>9. \A t \in Senders : (Midway(t)' <=> Midway(t)) /\ Current(t)' = Current(t)
  BY <1>8 DEF Midway, Current
<1>10. \A t \in Senders : t # s => out'[t] = out[t]
  BY <1>0, <1>1 DEF SendingType
<1>11. Sending'
  BY <1>0, <1>8, <1>9, <1>10 DEF Sending
<1>12. Closing'
  BY <1>0, <1>8, <1>9 DEF Closing
<1> QED
  BY <1>5, <1>7, <1>11, <1>12 DEF WebSocketInv, TypeOK

LEMMA WriteFailsStep ==
  ASSUME WebSocketInv, NEW s \in Senders, WriteFails(s)
  PROVE  WebSocketInv'
<1>0. /\ SendingType /\ Sending /\ Closing /\ Midway(s) /\ spc[s] # "idle"
      /\ \A t \in Senders : t # s => spc[t] = "idle" /\ ~ Midway(t)
  <2>1. SendingType /\ Sending /\ Closing
    BY DEF WebSocketInv, TypeOK
  <2>2. Midway(s) /\ spc[s] # "idle"
    BY <2>1 DEF WriteFails, Sending, Midway
  <2> QED
    BY <2>1, <2>2, Alone
<1>1. ReceivingType' /\ Receiving'
  BY <1>0, ReceiverRests DEF WriteFails, SendingType
<1>2. SendingType' /\ Sending' /\ Closing'
  BY <1>0, ThrowStep DEF WriteFails
<1> QED
  BY <1>1, <1>2 DEF WebSocketInv, TypeOK

\* A mask is four bytes.
LEMMA KeyIsSeq ==
  ASSUME NEW k \in [1 .. 4 -> Byte]
  PROVE  k \in Seq(Byte) /\ Len(k) = 4
<1>1. k \in Seq(Byte)
  BY 4 \in Nat, SeqDef, Zenon
<1> QED
  BY <1>1
LEMMA NoKeyType == NoKey \in [1 .. 4 -> Byte]
  BY DEF NoKey, Byte

\* What each stage of frame() leaves for the next to be proved of.
LEMMA StageStep ==
  ASSUME WebSocketInv, NEW s \in Senders, Midway(s), Midway(s)',
         NEW stage \in {"mask", "payload"}, spc' = [spc EXCEPT ![s] = stage],
         NEW o \in Seq(Byte), out' = [out EXCEPT ![s] = o],
         key' \in [1 .. 4 -> Byte],
         UNCHANGED <<todo, holder, opening, frames, starts, stream, link, sock, receiving>>
  PROVE  WebSocketInv'
<1>0. /\ SendingType /\ Sending /\ Closing /\ spc[s] # "idle"
      /\ \A t \in Senders : t # s => spc[t] = "idle" /\ ~ Midway(t)
  <2>1. spc[s] # "idle"
    BY DEF Midway
  <2> QED
    BY <2>1, Alone DEF WebSocketInv, TypeOK
<1>1. ReceivingType' /\ Receiving'
  BY <1>0, ReceiverRests DEF SendingType
<1>2. SendingType'
  BY <1>0 DEF SendingType
<1>3. \A t \in Senders : (Midway(t)' <=> Midway(t)) /\ Current(t)' = Current(t)
  <2>1. \A t \in Senders : t # s => spc'[t] = spc[t]
    BY <1>0 DEF SendingType
  <2> QED
    BY <2>1 DEF Midway, Current
<1>4. \A t \in Senders : t # s => out'[t] = out[t] /\ spc'[t] = spc[t]
  BY <1>0 DEF SendingType
<1>5. Sending'
  BY <1>0, <1>3, <1>4 DEF Sending
<1>6. Closing'
  BY <1>0, <1>3 DEF Closing
<1> QED
  BY <1>1, <1>2, <1>5, <1>6 DEF WebSocketInv, TypeOK

LEMMA SendMaskStep ==
  ASSUME WebSocketInv, NEW s \in Senders, SendMask(s)
  PROVE  WebSocketInv'
<1>0. /\ SendingType /\ Sending /\ Closing /\ Midway(s) /\ spc[s] # "idle"
      /\ \A t \in Senders : t # s => spc[t] = "idle" /\ ~ Midway(t)
  <2>1. SendingType /\ Sending /\ Closing
    BY DEF WebSocketInv, TypeOK
  <2>2. Midway(s) /\ spc[s] # "idle"
    BY <2>1 DEF SendMask, Sending, Midway
  <2> QED
    BY <2>1, <2>2, Alone
<1>1. spc' = [spc EXCEPT ![s] = "mask"] /\ Midway(s)'
  BY <1>0 DEF SendMask, Midway, SendingType
<1>2. CASE Current(s).MSK = 1
  <2>1. PICK k \in Keys : key' = k /\ out' = [out EXCEPT ![s] = k]
    BY <1>2 DEF SendMask
  <2>2. k \in [1 .. 4 -> Byte] /\ k \in Seq(Byte)
    BY SocketAssumption, KeyIsSeq
  <2> QED
    BY <1>0, <1>1, <2>1, <2>2, StageStep DEF SendMask
<1>3. CASE Current(s).MSK # 1
  <2>1. key' = NoKey /\ out' = [out EXCEPT ![s] = <<>>]
    BY <1>0, <1>3 DEF SendMask, SendingType
  <2>2. key' \in [1 .. 4 -> Byte] /\ <<>> \in Seq(Byte)
    BY <2>1, NoKeyType
  <2> QED
    BY <1>0, <1>1, <2>1, <2>2, StageStep DEF SendMask
<1> QED
  BY <1>2, <1>3

LEMMA SendPayloadStep ==
  ASSUME WebSocketInv, NEW s \in Senders, SendPayload(s)
  PROVE  WebSocketInv'
<1>0. /\ SendingType /\ Sending /\ Closing /\ Midway(s) /\ spc[s] # "idle"
      /\ \A t \in Senders : t # s => spc[t] = "idle" /\ ~ Midway(t)
  <2>1. SendingType /\ Sending /\ Closing
    BY DEF WebSocketInv, TypeOK
  <2>2. Midway(s) /\ spc[s] # "idle"
    BY <2>1 DEF SendPayload, Sending, Midway
  <2> QED
    BY <2>1, <2>2, Alone
<1>1. spc' = [spc EXCEPT ![s] = "payload"] /\ Midway(s)'
  BY <1>0 DEF SendPayload, Midway, SendingType
<1>2. Current(s).context \in Seq(Byte) /\ key \in [1 .. 4 -> Byte]
  <2>1. Current(s) \in Message
    BY <1>0, CurrentType DEF Sending
  <2> QED
    BY <1>0, <2>1 DEF Message, SendingType
<1>3. Masked(Current(s).context, key) \in Seq(Byte)
  BY <1>2, MaskReadBack
<1> QED
  BY <1>0, <1>1, <1>2, <1>3, StageStep DEF SendPayload

LEMMA SentStep ==
  ASSUME WebSocketInv, NEW s \in Senders, Sent(s)
  PROVE  WebSocketInv'
<1>0. /\ SendingType /\ Sending /\ Closing /\ Midway(s) /\ spc[s] # "idle"
      /\ \A t \in Senders : t # s => spc[t] = "idle" /\ ~ Midway(t)
  <2>1. SendingType /\ Sending /\ Closing
    BY DEF WebSocketInv, TypeOK
  <2>2. Midway(s) /\ spc[s] # "idle"
    BY <2>1 DEF Sent, Sending, Midway
  <2> QED
    BY <2>1, <2>2, Alone
<1>1. ReceivingType' /\ Receiving'
  BY <1>0, ReceiverRests DEF Sent, SendingType
<1>2. /\ Head(todo[s]) # <<>> /\ Tail(Head(todo[s])) \in Seq(Message)
      /\ Tail(todo[s]) \in Seq(Seq(Message)) /\ Current(s) = frames[Len(frames)]
  BY <1>0, CurrentType DEF Sending
<1>3. /\ <<Tail(Head(todo[s]))>> \o Tail(todo[s]) \in Seq(Seq(Message))
      /\ <<Tail(Head(todo[s]))>> \o Tail(todo[s]) # <<>>
  <2> DEFINE S == Seq(Message)
             h == Tail(Head(todo[s]))
             r == Tail(todo[s])
  <2>1. h \in S /\ r \in Seq(S)
    BY <1>2
  <2> HIDE DEF S, h, r
  <2>2. <<h>> \o r \in Seq(S) /\ <<h>> \o r # <<>>
    BY <2>1
  <2> QED
    BY <2>2 DEF S, h, r
<1>4. todo' \in [Senders -> Seq(Seq(Message))] /\ todo'[s] # <<>>
  BY <1>0, <1>3 DEF Sent, SendingType
<1>5. opening' \in BOOLEAN
  BY <1>0 DEF Sent, SendingType
<1>6. SendingType'
  BY <1>0, <1>4, <1>5 DEF Sent, SendingType
<1>7. /\ spc'[s] = "send" /\ \A t \in Senders : t # s => spc'[t] = "idle"
      /\ \A t \in Senders : ~ Midway(t)'
  BY <1>0 DEF Sent, SendingType, Midway
<1>8. Sending'
  BY <1>0, <1>4, <1>7 DEF Sent, Sending
<1>9. opening
  BY <1>0 DEF Closing, SendingType
<1>10. frames[Len(frames)].OPC = OPC_CLOSE => ~ opening'
  BY <1>2 DEF Sent
<1>11. UNCHANGED <<frames, starts, stream, sock>>
  BY DEF Sent
<1>12. Closing'
  BY <1>0, <1>7, <1>10, <1>11 DEF Closing
<1> QED
  BY <1>1, <1>6, <1>8, <1>12 DEF WebSocketInv, TypeOK

LEMMA LinkStep ==
  ASSUME WebSocketInv, Reset \/ Close
  PROVE  WebSocketInv'
<1>0. SendingType /\ Sending /\ Closing
  BY DEF WebSocketInv, TypeOK
<1>1. ReceivingType' /\ Receiving'
  BY <1>0, ReceiverRests DEF Reset, Close, SendingType
<1>2. UNCHANGED sending /\ UNCHANGED stream /\ sock' \in {sock, "closed"}
      /\ link' \in {"up", "ended", "reset"}
  BY <1>0 DEF Reset, Close, SendingType
<1>3. SendingType'
  BY <1>0, <1>2 DEF SendingType, sending
<1>4. Sending'
  BY <1>0, <1>2 DEF Sending, Midway, Current, sending
<1>5. Closing'
  BY <1>0, <1>2 DEF Closing, Midway, sending
<1> QED
  BY <1>1, <1>3, <1>4, <1>5 DEF WebSocketInv, TypeOK

\* What a receiver's step leaves to be proved.
LEMMA ReceiverStep ==
  ASSUME WebSocketInv, UNCHANGED <<sending, stream, link, sock>>,
         ReceivingType', Receiving'
  PROVE  WebSocketInv'
  BY SenderRests DEF WebSocketInv, TypeOK

LEMMA ReadStep ==
  ASSUME WebSocketInv, Read
  PROVE  WebSocketInv'
<1>0. ReceivingType /\ Receiving /\ stream \in Seq(Byte)
  BY DEF WebSocketInv, TypeOK, SendingType
<1>1. PICK n \in Segments :
        /\ n <= want /\ rd + n <= Len(stream)
        /\ buf' = buf \o SubSeq(stream, rd + 1, rd + n)
        /\ rd' = rd + n
        /\ want' = want - n
  BY DEF Read
<1>2. n \in Nat /\ n > 0 /\ rd \in Nat /\ want \in Nat /\ buf \in Seq(Byte)
  BY <1>0, SocketAssumption DEF ReceivingType
<1>3. /\ SubSeq(stream, rd + 1, rd + n) \in Seq(Byte)
      /\ Len(SubSeq(stream, rd + 1, rd + n)) = n
  BY <1>0, <1>1, <1>2
<1>4. /\ buf' \in Seq(Byte) /\ want' \in Nat /\ Len(buf') + want' = Len(buf) + want
      /\ Len(buf') > 0 /\ (Len(buf) > 0 => buf'[1] = buf[1])
  BY <1>1, <1>2, <1>3
<1>5. rd' \in 0 .. Len(stream)'
  BY <1>1, <1>2, <1>0 DEF Read
<1>6. ReceivingType'
  BY <1>0, <1>4, <1>5 DEF Read, ReceivingType
<1>7. Receiving'
  BY <1>0, <1>4 DEF Read, Receiving
<1> QED
  BY <1>6, <1>7, ReceiverStep DEF Read

LEMMA ReadFailsStep ==
  ASSUME WebSocketInv, ReadFails
  PROVE  WebSocketInv'
<1>1. ReceivingType'
  BY DEF WebSocketInv, TypeOK, ReadFails, ReceivingType
<1>2. Receiving'
  BY DEF WebSocketInv, ReadFails, Receiving
<1> QED
  BY <1>1, <1>2, ReceiverStep DEF ReadFails

\* The fields of the first byte, and the message that starts a frame.
LEMMA HeadType ==
  ASSUME NEW x \in Byte
  PROVE  FIN(x) \in {0, 1} /\ RSV(x) \in 0 .. 7 /\ OPC(x) \in 0 .. 15
  BY DEF Byte, FIN, RSV, OPC
LEMMA BlankType == Blank \in Message
  BY DEF Blank, Message, OPC_BINARY

LEMMA GotHeadStep ==
  ASSUME WebSocketInv, GotHead
  PROVE  WebSocketInv'
<1>0. ReceivingType /\ Receiving
  BY DEF WebSocketInv, TypeOK
<1>1. Len(buf) = 1 /\ buf \in Seq(Byte)
  BY <1>0 DEF GotHead, Receiving, ReceivingType
<1>2. buf[1] \in Byte
  BY <1>1
<1>3. frame' \in Message
  <2>1. FIN(buf[1]) \in {0, 1} /\ RSV(buf[1]) \in 0 .. 7 /\ OPC(buf[1]) \in 0 .. 15
    BY <1>2, HeadType
  <2> HIDE DEF FIN, RSV, OPC
  <2> QED
    BY <2>1, BlankType DEF GotHead, Message
<1>4. ReceivingType'
  BY <1>0, <1>3 DEF GotHead, Await, ReceivingType
<1>5. Receiving'
  BY DEF GotHead, Await, Receiving
<1> QED
  BY <1>4, <1>5, ReceiverStep DEF GotHead

LEMMA GotSizeStep ==
  ASSUME WebSocketInv, GotSize
  PROVE  WebSocketInv'
<1>0. ReceivingType /\ Receiving
  BY DEF WebSocketInv, TypeOK
<1>1. Len(buf) = 1 /\ buf \in Seq(Byte)
  BY <1>0 DEF GotSize, Receiving, ReceivingType
<1>2. Announced(buf[1]) \in Nat
  BY DEF Announced
<1>3. ReceivingType'
  BY <1>0, <1>2 DEF GotSize, Await, ReceivingType
<1>4. Receiving'
  BY <1>1, <1>2 DEF GotSize, Await, Receiving
<1> QED
  BY <1>3, <1>4, ReceiverStep DEF GotSize

LEMMA GotWideStep ==
  ASSUME WebSocketInv, GotWide
  PROVE  WebSocketInv'
<1>0. ReceivingType /\ Receiving
  BY DEF WebSocketInv, TypeOK
<1>1. buf \in Seq(Byte) /\ Len(buf) > 0 /\ Len(buf) = 1 + Announced(buf[1])
  <2>1. Len(buf) + want = 1 + Announced(buf[1]) /\ Len(buf) > 0 /\ want = 0
    BY <1>0 DEF GotWide, Receiving
  <2>2. buf \in Seq(Byte)
    BY <1>0 DEF ReceivingType
  <2> QED
    BY <2>1, <2>2
<1>2. buf[1] \in Byte /\ Tail(buf) \in Seq(Byte) /\ Len(Tail(buf)) = Len(buf) - 1
  BY <1>1
<1>3. Announced(buf[1]) \in Nat
  BY DEF Announced
<1>4. Len(Tail(buf)) = Announced(buf[1])
  BY <1>1, <1>2, <1>3
<1>5. Length(buf[1], Tail(buf)) \in Nat /\ MASK(buf[1]) \in {0, 1}
  BY <1>2, <1>4, LengthType
<1>6. header' \in [length : Nat, key : [1 .. 4 -> Byte]] /\ 4 * MASK(buf[1]) \in {0, 4}
  BY <1>5, NoKeyType DEF GotWide
<1>7. ReceivingType'
  BY <1>0, <1>6 DEF GotWide, Await, ReceivingType
<1>8. Receiving'
  BY <1>6 DEF GotWide, Await, Receiving
<1> QED
  BY <1>7, <1>8, ReceiverStep DEF GotWide

\* Four bytes are a mask.
LEMMA SeqIsKey ==
  ASSUME NEW q \in Seq(Byte), Len(q) = 4
  PROVE  q \in [1 .. 4 -> Byte]
<1>1. q \in [1 .. Len(q) -> Byte]
  BY LenProperties
<1> QED
  BY <1>1

LEMMA WithContext ==
  ASSUME NEW m \in Message, NEW c \in Seq(Byte)
  PROVE  [m EXCEPT !.context = c] \in Message
  BY DEF Message
LEMMA AsPong ==
  ASSUME NEW m \in Message
  PROVE  [m EXCEPT !.OPC = OPC_PONG] \in Message
  BY DEF Message, OPC_PONG

LEMMA GotKeyStep ==
  ASSUME WebSocketInv, GotKey
  PROVE  WebSocketInv'
<1>0. ReceivingType /\ Receiving
  BY DEF WebSocketInv, TypeOK
<1>1. buf \in Seq(Byte) /\ Len(buf) \in {0, 4} /\ header.length \in Nat
  BY <1>0 DEF GotKey, Receiving, ReceivingType
<1>2. (IF buf = <<>> THEN NoKey ELSE buf) \in [1 .. 4 -> Byte]
  BY <1>1, NoKeyType, SeqIsKey
<1>3. header' \in [length : Nat, key : [1 .. 4 -> Byte]] /\ header'.length = header.length
  BY <1>0, <1>2 DEF GotKey, ReceivingType
<1>4. ReceivingType'
  BY <1>0, <1>1, <1>3 DEF GotKey, Await, ReceivingType
<1>5. Receiving'
  BY <1>1, <1>3 DEF GotKey, Await, Receiving
<1> QED
  BY <1>4, <1>5, ReceiverStep DEF GotKey

LEMMA GotPayloadStep ==
  ASSUME WebSocketInv, GotPayload
  PROVE  WebSocketInv'
<1>0. ReceivingType /\ Receiving
  BY DEF WebSocketInv, TypeOK
<1> DEFINE f == [frame EXCEPT !.context = Masked(buf, header.key)]
<1>1. Masked(buf, header.key) \in Seq(Byte)
  BY <1>0, MaskReadBack DEF ReceivingType
<1>2. f \in Message /\ [f EXCEPT !.OPC = OPC_PONG] \in Message
  <2>1. frame \in Message
    BY <1>0 DEF ReceivingType
  <2>2. f \in Message
    BY <1>1, <2>1, WithContext
  <2> HIDE DEF f
  <2> QED
    BY <2>2, AsPong
<1>3. Joined(f) \in Received
  <2>1. /\ f.RSV \in 0 .. 255 /\ f.OPC \in 0 .. 255 /\ f.context \in Seq(Byte)
        /\ msg.RSV \in 0 .. 255 /\ msg.OPC \in 0 .. 255 /\ msg.context \in Seq(Byte)
    BY <1>0, <1>2, SMTT(30) DEF Message, Received, ReceivingType
  <2> HIDE DEF f
  <2>2. msg.context \o f.context \in Seq(Byte)
    BY <2>1
  <2> QED
    BY <2>1, <2>2 DEF Joined, Received
<1>4. Fresh \in Received
  BY DEF Fresh, Received
<1> HIDE DEF f
<1>5. /\ replies' \in Seq(Message) /\ control' \in Message
      /\ msg' \in Received /\ delivered' \in Seq(Received)
  <2>1. CASE (f.OPC \div 128) % 2 = 1
    <3>1. /\ replies' = (IF f.OPC = OPC_PING
                          THEN Append(replies, [f EXCEPT !.OPC = OPC_PONG]) ELSE replies)
          /\ control' = f /\ UNCHANGED <<msg, delivered>>
      BY <2>1 DEF GotPayload, f
    <3>2. replies \in Seq(Message) /\ msg \in Received /\ delivered \in Seq(Received)
      BY <1>0 DEF ReceivingType
    <3> DEFINE pong == [f EXCEPT !.OPC = OPC_PONG]
    <3>3. pong \in Message
      BY <1>2
    <3> HIDE DEF pong
    <3>4. Append(replies, pong) \in Seq(Message)
      BY <3>2, <3>3
    <3>5. replies' \in {Append(replies, pong), replies}
      BY <3>1 DEF pong
    <3> QED
      BY <1>2, <3>1, <3>2, <3>4, <3>5
  <2>2. CASE (f.OPC \div 128) % 2 # 1
    <3>1. /\ \/ delivered' = Append(delivered, Joined(f)) /\ msg' = Fresh
             \/ msg' = Joined(f) /\ UNCHANGED delivered
          /\ UNCHANGED <<replies, control>>
      BY <2>2 DEF GotPayload, f
    <3>2. /\ replies \in Seq(Message) /\ control \in Message
          /\ delivered \in Seq(Received)
      BY <1>0 DEF ReceivingType
    <3> QED
      BY <1>3, <1>4, <3>1, <3>2
  <2> QED
    BY <2>1, <2>2
<1>6. header' \in [length : Nat, key : [1 .. 4 -> Byte]] /\ frame' \in Message
  BY NoKeyType, BlankType DEF GotPayload
<1>7. ReceivingType'
  BY <1>0, <1>5, <1>6 DEF GotPayload, Await, ReceivingType
<1>8. Receiving'
  BY DEF GotPayload, Await, Receiving
<1> QED
  BY <1>7, <1>8, ReceiverStep DEF GotPayload

LEMMA Stutters ==
  ASSUME WebSocketInv, UNCHANGED vars
  PROVE  WebSocketInv'
<1>1. ReceivingType' /\ Receiving'
  BY ReceiverRests DEF vars, WebSocketInv, TypeOK, SendingType
<1> QED
  BY <1>1, ReceiverStep DEF vars

(***************************************************************************)
(* Theorems.                                                               *)
(***************************************************************************)
\* Whatever the threads send and however the connection is cut, the threads
\* keep out of each other's frames, a CLOSE is the last frame that reaches the
\* stream, and the receiver's buffer is what its part of the frame needs.
THEOREM WebSocketInvariance == Spec => []WebSocketInv
<1>1. Init => WebSocketInv
  BY Initially
<1>2. ASSUME WebSocketInv, [Next]_vars
      PROVE  WebSocketInv'
  <2>1. CASE Next
    <3>1. ASSUME NEW s \in Senders, Sender(s)
          PROVE  WebSocketInv'
      BY <1>2, <3>1, LockStep, BeginStep, WriteStep, WriteFailsStep, SendMaskStep,
         SendPayloadStep, SentStep, UnlockStep DEF Sender
    <3>2. CASE Receiver
      BY <1>2, <3>2, ReadStep, ReadFailsStep, GotHeadStep, GotSizeStep, GotWideStep,
         GotKeyStep, GotPayloadStep DEF Receiver
    <3>3. CASE Reset \/ Close
      BY <1>2, <3>3, LinkStep
    <3> QED
      BY <2>1, <3>1, <3>2, <3>3 DEF Next
  <2>2. CASE UNCHANGED vars
    BY <1>2, <2>2, Stutters
  <2> QED
    BY <1>2, <2>1, <2>2
<1> QED
  BY <1>1, <1>2, PTL DEF Spec

\* Every variable keeps its type.
THEOREM TypeCorrect == Spec => []TypeOK
<1>1. WebSocketInv => TypeOK
  BY DEF WebSocketInv
<1> QED
  BY <1>1, WebSocketInvariance, PTL

\* Not a byte is sent after a CLOSE frame: send() finds the WebSocket closed, or
\* the socket already is.
THEOREM CloseIsLast == Spec => []NothingAfterClose
<1>1. WebSocketInv => NothingAfterClose
  <2> SUFFICES ASSUME WebSocketInv, NEW i \in DOMAIN frames, NEW j \in DOMAIN frames,
                      i < j, frames[i].OPC = OPC_CLOSE
               PROVE  starts[j] = Len(stream)
    BY DEF NothingAfterClose
  <2>1. frames \in Seq(Message)
    BY DEF WebSocketInv, TypeOK, SendingType
  <2>2. i # Len(frames)
    BY <2>1
  <2> QED
    BY <2>2 DEF WebSocketInv, Closing
<1> QED
  BY <1>1, WebSocketInvariance, PTL

-------------------------------------------------------------------------------
(***************************************************************************)
(* The bytes of the stream.  Each frame begun has the bytes from where it  *)
(* starts to where the next one does: those of its encoding, from the      *)
(* first on, and all of them unless the stream ends with it.               *)
(***************************************************************************)
\* Frames whose length fits the QWORD that frame() writes.
Sized == {m \in Message : In64Bits(Len(m.context))}

\* The j-th byte of a frame sent with the mask k.
KeysOf(f) == IF f.MSK = 1 THEN [1 .. 4 -> Byte] ELSE {NoKey}
Ahead(f) == Len(Prefix(f))
FrameSize(f) == Ahead(f) + 4 * f.MSK + Len(f.context)
Octet(f, k, j) ==
  IF j <= Ahead(f) THEN Prefix(f)[j]
  ELSE IF j <= Ahead(f) + 4 * f.MSK THEN k[j - Ahead(f)]
  ELSE Masked(f.context, k)[j - Ahead(f) - 4 * f.MSK]

\* Where the frame after the c-th starts, or will.
Start(c) == IF c < Len(frames) THEN starts[c + 1] ELSE Len(stream)

Carried(i) ==
  /\ starts[i] <= Start(i) /\ Start(i) <= Len(stream)
  /\ Start(i) <= starts[i] + FrameSize(frames[i])
  /\ \E k \in KeysOf(frames[i]) :
       \A j \in 1 .. Start(i) - starts[i] : stream[starts[i] + j] = Octet(frames[i], k, j)
  /\ Start(i) < starts[i] + FrameSize(frames[i]) =>
       /\ Start(i) = Len(stream)
       /\ sock = "closed" \/ (i = Len(frames) /\ \E s \in Senders : Midway(s))

\* What a thread in frame() has written and has still to write.
Underway(s) ==
  Midway(s) =>
    \A f \in {frames[Len(frames)]}, w \in {Len(stream) - starts[Len(frames)]} :
      /\ w + Left(s) = FrameSize(f)
      /\ spc[s] # "prefix" => key \in KeysOf(f)
      /\ \A k \in KeysOf(f) : spc[s] = "prefix" \/ k = key =>
           /\ \A j \in 1 .. w : stream[starts[Len(frames)] + j] = Octet(f, k, j)
           /\ \A j \in 1 .. Len(out[s]) : out[s][j] = Octet(f, k, w + j)

\* The receiver has read c frames and is at its place in the next one.
Reading(c) ==
  /\ c \in 0 .. Len(frames)
  /\ c > 0 => Start(c) = starts[c] + FrameSize(frames[c])
  /\ rpc # "failed" =>
       /\ \A j \in 1 .. Len(buf) : buf[j] = stream[rd - Len(buf) + j]
       /\ rpc = "head" => rd = Start(c) + Len(buf)
       /\ rpc # "head" => c < Len(frames) /\ \A f \in {frames[c + 1]} :
            /\ frame.FIN = f.FIN /\ frame.RSV = f.RSV /\ frame.OPC = f.OPC
            /\ rpc \in {"size", "wide"} => rd = Start(c) + 1 + Len(buf)
            /\ rpc \in {"key", "payload"} => header.length = Len(f.context)
            /\ rpc = "key" => /\ rd = Start(c) + Ahead(f) + Len(buf)
                              /\ Len(buf) + want = 4 * f.MSK
            /\ rpc = "payload" =>
                 /\ rd = Start(c) + Ahead(f) + 4 * f.MSK + Len(buf)
                 /\ header.key \in KeysOf(f)
                 /\ \A j \in 1 .. 4 * f.MSK : header.key[j] = stream[Start(c) + Ahead(f) + j]

BytesInv ==
  /\ \A i \in DOMAIN frames : Carried(i)
  /\ \A s \in Senders : Underway(s)

SyncInv ==
  /\ WebSocketInv /\ BytesInv
  /\ \A s \in Senders : todo[s] \in Seq(Seq(Sized))
  /\ frames \in Seq(Sized)
  /\ \E c \in 0 .. Len(frames) : Reading(c)

\* Control frames come between messages, unless the socket is closed already.
Apart ==
  /\ \A s \in Senders : todo[s] \in Seq(Unmixed)
  /\ \A i \in DOMAIN frames : frames[i].OPC >= 8 =>
       /\ frames[i].FIN = 1
       /\ \/ i > 1 => frames[i - 1].FIN = 1
          \/ sock = "closed" /\ starts[i] = Len(stream)
  /\ frames # <<>> /\ sock = "open" /\ frames[Len(frames)].FIN = 0 =>
       \E s \in Senders : /\ spc[s] # "idle" /\ Head(todo[s]) # <<>>
                          /\ \A i \in DOMAIN Head(todo[s]) : Head(todo[s])[i].OPC < 8
  /\ ~ opening => frames # <<>> /\ frames[Len(frames)].OPC = OPC_CLOSE

\* What is delivered and joined are the messages of the c frames read.
Joins(c) ==
  \A g \in {Gathered(frames, c)} :
    /\ delivered = g.all
    /\ msg = IF g.open THEN g.part ELSE Fresh
    /\ g.open <=> c > 0 /\ frames[c].FIN = 0

ChannelInv ==
  /\ WebSocketInv /\ BytesInv /\ Apart
  /\ \A s \in Senders : todo[s] \in Seq(Seq(Sized))
  /\ frames \in Seq(Sized)
  /\ \E c \in 0 .. Len(frames) : Reading(c) /\ Joins(c)


\* The state that the lemmas below are about.
LEMMA Stands ==
  ASSUME WebSocketInv
  PROVE  /\ frames \in Seq(Message) /\ starts \in Seq(Nat) /\ Len(starts) = Len(frames)
         /\ Len(frames) \in Nat /\ DOMAIN frames = 1 .. Len(frames)
         /\ stream \in Seq(Byte) /\ Len(stream) \in Nat
         /\ rd \in 0 .. Len(stream) /\ buf \in Seq(Byte) /\ Len(buf) \in Nat /\ want \in Nat
  BY DEF WebSocketInv, TypeOK, SendingType, ReceivingType

\* What a frame is made of.
LEMMA FrameParts ==
  ASSUME NEW m \in Message
  PROVE  /\ Prefix(m) \in Seq(Byte) /\ Ahead(m) = 2 + Len(Extended(Len(m.context)))
         /\ Ahead(m) \in Nat /\ Ahead(m) >= 2 /\ Len(m.context) \in Nat /\ m.MSK \in {0, 1}
         /\ FrameSize(m) \in Nat /\ FrameSize(m) >= Ahead(m) + 4 * m.MSK
         /\ Prefix(m)[2] = m.MSK * 128 + Length7(Len(m.context))
         /\ \A j \in 1 .. Len(Extended(Len(m.context))) :
              Prefix(m)[j + 2] = Extended(Len(m.context))[j]
         /\ \E k : k \in KeysOf(m)
<1>1. m.MSK \in {0, 1} /\ m.context \in Seq(Byte) /\ Len(m.context) \in Nat
  BY DEF Message
<1> DEFINE e == Extended(Len(m.context))
           a == m.FIN * 128 + (m.RSV % 8) * 16 + (m.OPC % 16)
           b == m.MSK * 128 + Length7(Len(m.context))
<1>2. e \in Seq(Byte)
  BY <1>1, ExtendedType
<1>3. Prefix(m) = <<a, b>> \o e
  BY DEF Prefix
<1>4. Prefix(m) \in Seq(Byte)
  BY PrefixType
<1> HIDE DEF e, a, b
<1>5. /\ Len(Prefix(m)) = 2 + Len(e) /\ Prefix(m)[2] = b /\ Len(e) \in Nat
      /\ \A j \in 1 .. Len(e) : Prefix(m)[j + 2] = e[j]
  BY <1>2, <1>3
<1>6. \E k : k \in KeysOf(m)
  BY NoKeyType DEF KeysOf
<1> QED
  BY <1>1, <1>4, <1>5, <1>6 DEF e, b, Ahead, FrameSize

LEMMA OctetIs ==
  ASSUME NEW f, NEW k, NEW j
  PROVE  /\ j <= Ahead(f) => Octet(f, k, j) = Prefix(f)[j]
         /\ ~ (j <= Ahead(f)) /\ j <= Ahead(f) + 4 * f.MSK => Octet(f, k, j) = k[j - Ahead(f)]
         /\ ~ (j <= Ahead(f)) /\ ~ (j <= Ahead(f) + 4 * f.MSK) =>
              Octet(f, k, j) = Masked(f.context, k)[j - Ahead(f) - 4 * f.MSK]
  BY Zenon DEF Octet

\* The last frame begun has at least the bytes that its thread has written.
LEMMA UnderwayCarries ==
  \A r \in Senders : \A j \in {Len(frames)} :
    WebSocketInv /\ Midway(r) /\ Underway(r) /\ starts[j] <= Len(stream) => Carried(j)
<1> SUFFICES ASSUME NEW s \in Senders, WebSocketInv, Midway(s), Underway(s),
                    starts[Len(frames)] <= Len(stream)
             PROVE  Carried(Len(frames))
  OBVIOUS
<1> DEFINE n == Len(frames)
           f == frames[n]
           w == Len(stream) - starts[n]
<1>1. /\ n \in Nat \ {0} /\ f \in Message /\ starts[n] \in Nat /\ Len(stream) \in Nat
      /\ Start(n) = Len(stream)
  BY Stands DEF WebSocketInv, Sending, Start
<1>2. /\ w + Left(s) = FrameSize(f)
      /\ spc[s] # "prefix" => key \in KeysOf(f)
      /\ \A k \in KeysOf(f) : spc[s] = "prefix" \/ k = key =>
           \A j \in 1 .. w : stream[starts[n] + j] = Octet(f, k, j)
  BY DEF Underway
<1>3. Left(s) \in Nat
  <2>1. Current(s) = f /\ out[s] \in Seq(Byte) /\ Len(f.context) \in Nat /\ f.MSK \in {0, 1}
    BY <1>1, FrameParts DEF WebSocketInv, TypeOK, SendingType, Sending
  <2>2. Len(out[s]) \in Nat
    BY <2>1
  <2> HIDE DEF f
  <2> QED
    BY <2>1, <2>2 DEF Left
<1>4. \E k \in KeysOf(f) : \A j \in 1 .. w : stream[starts[n] + j] = Octet(f, k, j)
  <2>1. PICK k : k \in KeysOf(f) /\ (spc[s] = "prefix" \/ k = key)
    BY <1>1, <1>2, FrameParts
  <2> QED
    BY <1>2, <2>1
<1>5. FrameSize(f) \in Nat
  BY <1>1, FrameParts
<1> QED
  BY <1>1, <1>2, <1>3, <1>4, <1>5 DEF Carried

\* A frame keeps its bytes while others are begun.
LEMMA CarriedKept ==
  ASSUME WebSocketInv, NEW i \in DOMAIN frames, Carried(i),
         frames'[i] = frames[i], starts'[i] = starts[i], Start(i)' = Start(i),
         Len(stream) <= Len(stream'), Len(stream') \in Nat,
         \A j \in 1 .. Len(stream) : stream'[j] = stream[j],
         Start(i) < starts[i] + FrameSize(frames[i]) =>
           /\ Start(i) = Len(stream')
           /\ sock' = "closed" \/ (i = Len(frames') /\ (\E s \in Senders : Midway(s))')
  PROVE  Carried(i)'
<1>1. starts[i] \in Nat /\ Start(i) \in Nat /\ Len(stream) \in Nat
  <2>1. starts \in Seq(Nat) /\ Len(starts) = Len(frames) /\ frames \in Seq(Message) /\ Len(stream) \in Nat
    BY Stands
  <2> QED
    BY <2>1 DEF Start
<1>2. starts[i] <= Start(i) /\ Start(i) <= Len(stream) /\ Start(i) <= starts[i] + FrameSize(frames[i])
  BY DEF Carried
<1>3. PICK k \in KeysOf(frames[i]) :
        \A j \in 1 .. Start(i) - starts[i] : stream[starts[i] + j] = Octet(frames[i], k, j)
  BY DEF Carried
<1>4. \A j \in 1 .. Start(i) - starts[i] : stream'[starts[i] + j] = Octet(frames[i], k, j)
  <2> SUFFICES ASSUME NEW j \in 1 .. Start(i) - starts[i]
               PROVE  stream'[starts[i] + j] = stream[starts[i] + j]
    BY <1>3
  <2> QED
    BY <1>1, <1>2, SMTT(30)
<1>5. /\ starts'[i] <= Start(i)' /\ Start(i)' <= Len(stream')
      /\ Start(i)' <= starts'[i] + FrameSize(frames'[i])
  BY <1>1, <1>2
<1>6. \E l \in KeysOf(frames'[i]) :
        \A j \in 1 .. Start(i)' - starts'[i] : stream'[starts'[i] + j] = Octet(frames'[i], l, j)
  BY <1>4
<1>7. Start(i)' < starts'[i] + FrameSize(frames'[i]) =>
        /\ Start(i)' = Len(stream')
        /\ sock' = "closed" \/ (i = Len(frames') /\ (\E s \in Senders : Midway(s))')
  OBVIOUS
<1> QED
  BY <1>5, <1>6, <1>7 DEF Carried

LEMMA Within ==
  ASSUME NEW a \in Nat, NEW b \in Nat, NEW d \in Nat, NEW e \in Nat, NEW r
  PROVE  /\ r = a + b + e => e <= r
         /\ r = a + b + d + e => e <= r
         /\ \A j \in 1 .. d : a + b + j \in 1 .. (a + b + d + e)
  OBVIOUS

\* The receiver keeps its place while frames and bytes are added.
LEMMA ReadingKept ==
  ASSUME WebSocketInv, UNCHANGED receiving, NEW c, Reading(c),
         Len(frames) <= Len(frames'), Len(frames') \in Nat, Len(stream) <= Len(stream'),
         \A i \in DOMAIN frames : frames'[i] = frames[i] /\ starts'[i] = starts[i],
         \A j \in 1 .. Len(stream) : stream'[j] = stream[j],
         Start(c)' = Start(c)
  PROVE  Reading(c)'
<1>1. /\ DOMAIN frames = 1 .. Len(frames) /\ Len(frames) \in Nat
      /\ rd \in 0 .. Len(stream) /\ Len(stream) \in Nat /\ Len(buf) \in Nat
      /\ starts \in Seq(Nat) /\ Len(starts) = Len(frames) /\ frames \in Seq(Message)
  BY Stands
<1>2. c \in 0 .. Len(frames) /\ c \in 0 .. Len(frames')
  BY <1>1 DEF Reading
<1>3. c > 0 => (Start(c) = starts[c] + FrameSize(frames[c]))'
  BY <1>1, <1>2, SMTT(30) DEF Reading
<1>4. UNCHANGED <<rd, rpc, want, buf, frame, header>>
  BY DEF receiving
<1>5. CASE rpc = "failed"
  BY <1>2, <1>3, <1>4, <1>5 DEF Reading
<1>6. CASE rpc # "failed"
  <2>1. /\ \A j \in 1 .. Len(buf) : buf[j] = stream[rd - Len(buf) + j]
        /\ rpc = "head" => rd = Start(c) + Len(buf)
    BY <1>6 DEF Reading
  <2>2. Len(buf) <= rd
    <3>1. Start(c) \in Nat
      BY <1>1, <1>2 DEF Start
    <3>2. CASE rpc = "head"
      BY <1>1, <2>1, <3>1, <3>2
    <3>3. CASE rpc # "head"
      <4>1. /\ rpc \in {"size", "wide"} => rd = Start(c) + 1 + Len(buf)
            /\ rpc = "key" => rd = Start(c) + Ahead(frames[c + 1]) + Len(buf)
            /\ rpc = "payload" => rd = Start(c) + Ahead(frames[c + 1]) + 4 * frames[c + 1].MSK + Len(buf)
            /\ c < Len(frames)
        BY <1>6, <3>3 DEF Reading
      <4>2. Ahead(frames[c + 1]) \in Nat /\ 4 * frames[c + 1].MSK \in Nat
        <5>1. frames[c + 1] \in Message
          BY <1>1, <1>2, <4>1
        <5>2. Ahead(frames[c + 1]) \in Nat /\ frames[c + 1].MSK \in {0, 1}
          BY <5>1, FrameParts
        <5> QED
          BY <5>2
      <4>3. rpc \in {"size", "wide", "key", "payload"}
        BY <1>6, <3>3 DEF WebSocketInv, TypeOK, ReceivingType
      <4> HIDE DEF Start
      <4>4. CASE rpc \in {"size", "wide"}
        BY <1>1, <3>1, <4>1, <4>4
      <4>5. CASE rpc = "key"
        BY <1>1, <3>1, <4>1, <4>2, <4>5, Within
      <4>6. CASE rpc = "payload"
        BY <1>1, <3>1, <4>1, <4>2, <4>6, Within
      <4> QED
        BY <4>3, <4>4, <4>5, <4>6
    <3> QED
      BY <3>2, <3>3
  <2>3. \A j \in 1 .. Len(buf) : buf[j] = stream'[rd - Len(buf) + j]
    <3> SUFFICES ASSUME NEW j \in 1 .. Len(buf)
                 PROVE  stream'[rd - Len(buf) + j] = stream[rd - Len(buf) + j]
      BY <2>1
    <3>1. rd - Len(buf) + j \in 1 .. Len(stream)
      BY <1>1, <2>2
    <3> QED
      BY <3>1
  <2>4. CASE rpc = "head"
    BY <1>2, <1>3, <1>4, <2>1, <2>3, <2>4 DEF Reading
  <2>5. CASE rpc # "head"
    <3> DEFINE f == frames[c + 1]
    <3>1. /\ c < Len(frames)
          /\ frame.FIN = f.FIN /\ frame.RSV = f.RSV /\ frame.OPC = f.OPC
          /\ rpc \in {"size", "wide"} => rd = Start(c) + 1 + Len(buf)
          /\ rpc \in {"key", "payload"} => header.length = Len(f.context)
          /\ rpc = "key" => /\ rd = Start(c) + Ahead(f) + Len(buf)
                            /\ Len(buf) + want = 4 * f.MSK
          /\ rpc = "payload" =>
               /\ rd = Start(c) + Ahead(f) + 4 * f.MSK + Len(buf)
               /\ header.key \in KeysOf(f)
               /\ \A j \in 1 .. 4 * f.MSK : header.key[j] = stream[Start(c) + Ahead(f) + j]
      BY <1>6, <2>5 DEF Reading
    <3>2. c < Len(frames') /\ c + 1 \in DOMAIN frames /\ frames'[c + 1] = f
      BY <1>1, <1>2, <3>1
    <3>3. ASSUME rpc = "payload", NEW j \in 1 .. 4 * f.MSK
          PROVE  stream'[Start(c) + Ahead(f) + j] = stream[Start(c) + Ahead(f) + j]
      <4>1. f \in Message /\ Start(c) \in Nat
        BY <1>1, <1>2, <3>2, SMTT(30) DEF Start
      <4>2. Ahead(f) \in Nat /\ f.MSK \in {0, 1}
        BY <4>1, FrameParts
      <4>4. rd = Start(c) + Ahead(f) + 4 * f.MSK + Len(buf) /\ 4 * f.MSK \in Nat
        BY <3>1, <3>3, <4>2
      <4> HIDE DEF f
      <4>5. Start(c) + Ahead(f) + j \in 1 .. rd
        BY <1>1, <3>3, <4>1, <4>2, <4>4, Within
      <4>3. Start(c) + Ahead(f) + j \in 1 .. Len(stream)
        BY <1>1, <4>5
      <4> QED
        BY <4>3
    <3>4. rpc = "payload" =>
            \A j \in 1 .. 4 * f.MSK : header.key[j] = stream'[Start(c) + Ahead(f) + j]
      BY <3>1, <3>3
    <3> HIDE DEF f
    <3> QED
      BY <1>2, <1>3, <1>4, <2>3, <2>5, <3>1, <3>2, <3>4 DEF Reading
  <2> QED
    BY <2>4, <2>5
<1> QED
  BY <1>5, <1>6

\* A step that adds neither frames nor bytes.
LEMMA StreamRests ==
  ASSUME WebSocketInv, BytesInv, UNCHANGED receiving, UNCHANGED <<frames, starts, stream>>,
         sock = "closed" => sock' = "closed",
         \A s \in Senders : Underway(s)',
         (\E s \in Senders : Midway(s)) =>
            \/ sock' = "closed"
            \/ (\E s \in Senders : Midway(s))'
            \/ Len(stream) = starts[Len(frames)] + FrameSize(frames[Len(frames)])
  PROVE  BytesInv' /\ \A c : Reading(c) => Reading(c)'
<1>1. Len(stream) \in Nat /\ Len(frames) \in Nat /\ DOMAIN frames = 1 .. Len(frames)
  BY Stands
<1>2. \A c : Start(c)' = Start(c)
  BY DEF Start
<1>3. ASSUME NEW i \in DOMAIN frames
      PROVE  Carried(i)'
  <2>1. Carried(i)
    BY DEF BytesInv
  <2>2. Start(i) < starts[i] + FrameSize(frames[i]) =>
          /\ Start(i) = Len(stream)
          /\ sock = "closed" \/ (i = Len(frames) /\ \E s \in Senders : Midway(s))
    BY <2>1 DEF Carried
  <2>3. i = Len(frames) => Start(i) = Len(stream)
    BY DEF Start
  <2>4. starts[i] \in Nat /\ FrameSize(frames[i]) \in Nat
    <3>1. frames \in Seq(Message) /\ starts \in Seq(Nat) /\ Len(starts) = Len(frames)
      BY Stands
    <3>2. frames[i] \in Message
      BY <3>1
    <3>3. FrameSize(frames[i]) \in Nat
      BY <3>2, FrameParts
    <3> QED
      BY <1>1, <3>1, <3>3
  <2>5. Start(i) < starts[i] + FrameSize(frames[i]) =>
           /\ Start(i) = Len(stream')
           /\ sock' = "closed" \/ (i = Len(frames') /\ (\E s \in Senders : Midway(s))')
    BY <1>1, <2>2, <2>3, <2>4
  <2> QED
    BY <1>1, <1>2, <2>1, <2>5, CarriedKept
<1>4. BytesInv'
  BY <1>3 DEF BytesInv
<1>5. ASSUME NEW c, Reading(c)
      PROVE  Reading(c)'
  BY <1>1, <1>2, <1>5, ReadingKept
<1> QED
  BY <1>4, <1>5

\* The thread in frame(), alone, is at the last frame begun.
LEMMA Within2 ==
  ASSUME WebSocketInv, BytesInv, NEW s \in Senders, Midway(s)
  PROVE  /\ Len(frames) \in Nat \ {0} /\ Len(frames) \in DOMAIN frames
         /\ frames[Len(frames)] \in Message /\ Current(s) = frames[Len(frames)]
         /\ starts[Len(frames)] \in Nat /\ starts[Len(frames)] <= Len(stream)
         /\ Len(stream) \in Nat /\ out[s] \in Seq(Byte) /\ Len(out[s]) \in Nat
         /\ Underway(s) /\ Carried(Len(frames))
         /\ \A t \in Senders : t # s => ~ Midway(t)
<1>1. /\ frames \in Seq(Message) /\ starts \in Seq(Nat) /\ Len(starts) = Len(frames)
      /\ Len(frames) \in Nat /\ DOMAIN frames = 1 .. Len(frames) /\ Len(stream) \in Nat
  BY Stands
<1>2. frames # <<>> /\ Current(s) = frames[Len(frames)] /\ out[s] \in Seq(Byte)
  BY DEF WebSocketInv, Sending, TypeOK, SendingType
<1>3. Len(frames) \in Nat \ {0} /\ Len(frames) \in DOMAIN frames
  BY <1>1, <1>2
<1>4. Carried(Len(frames)) /\ Underway(s)
  BY <1>3 DEF BytesInv
<1>5. Start(Len(frames)) = Len(stream) /\ starts[Len(frames)] <= Len(stream)
  BY <1>1, <1>4 DEF Carried, Start
<1>6. \A t \in Senders : t # s => ~ Midway(t)
  BY Alone DEF Midway
<1> QED
  BY <1>1, <1>2, <1>3, <1>4, <1>5, <1>6

LEMMA SendMaskBytes ==
  ASSUME WebSocketInv, BytesInv, NEW s \in Senders, SendMask(s)
  PROVE  BytesInv' /\ \A c : Reading(c) => Reading(c)'
<1> DEFINE n == Len(frames)
           f == frames[n]
           w == Len(stream) - starts[n]
<1>1. /\ spc[s] = "prefix" /\ out[s] = <<>> /\ Midway(s)
      /\ UNCHANGED <<todo, holder, opening, frames, starts, stream, link, sock, receiving>>
      /\ spc' = [spc EXCEPT ![s] = "mask"]
  BY DEF SendMask, Midway
<1>2. /\ n \in Nat \ {0} /\ f \in Message /\ Current(s) = f /\ starts[n] \in Nat
      /\ starts[n] <= Len(stream) /\ Len(stream) \in Nat /\ Underway(s)
      /\ \A t \in Senders : t # s => ~ Midway(t)
  BY <1>1, Within2
<1>3. Ahead(f) \in Nat /\ f.MSK \in {0, 1} /\ Len(f.context) \in Nat /\ w \in Nat
  BY <1>2, FrameParts
<1>4. spc'[s] = "mask" /\ Current(s)' = Current(s) /\ spc \in [Senders -> {"idle", "send", "prefix", "mask", "payload"}]
  BY <1>1 DEF Current, WebSocketInv, TypeOK, SendingType
<1>5. w = Ahead(f)
  <2>1. w + Left(s) = FrameSize(f)
    BY <1>1, <1>2 DEF Underway
  <2>2. Left(s) = 4 * f.MSK + Len(f.context)
    BY <1>1, <1>2, <1>3 DEF Left
  <2> HIDE DEF f, w
  <2> QED
    BY <1>3, <2>1, <2>2 DEF FrameSize
<1>6. ASSUME NEW k \in KeysOf(f), NEW j \in 1 .. w
      PROVE  stream[starts[n] + j] = Octet(f, k, j)
  BY <1>1, <1>2, <1>6 DEF Underway
<1>7. /\ key' \in KeysOf(f) /\ Len(out'[s]) = 4 * f.MSK
      /\ \A j \in 1 .. Len(out'[s]) : out'[s][j] = key'[j]
  <2>1. out \in [Senders -> Seq(Byte)]
    BY DEF WebSocketInv, TypeOK, SendingType
  <2>2. CASE f.MSK = 1
    <3>1. PICK k \in Keys : key' = k /\ out' = [out EXCEPT ![s] = k]
      BY <1>2, <2>2 DEF SendMask
    <3>2. k \in [1 .. 4 -> Byte] /\ Len(k) = 4
      BY SocketAssumption, KeyIsSeq
    <3>3. out'[s] = k
      BY <2>1, <3>1
    <3> QED
      BY <2>2, <3>1, <3>2, <3>3 DEF KeysOf
  <2>3. CASE f.MSK # 1
    <3>1. key' = NoKey /\ out'[s] = <<>>
      BY <1>1, <1>2, <2>3 DEF SendMask
    <3> QED
      BY <1>3, <2>3, <3>1 DEF KeysOf
  <2> QED
    BY <2>2, <2>3
<1> HIDE DEF n, f, w
<1>8. ASSUME NEW j \in 1 .. Len(out'[s])
      PROVE  out'[s][j] = Octet(f, key', w + j)
  <2> DEFINE i == w + j
  <2>2. ~ (i <= Ahead(f)) /\ i <= Ahead(f) + 4 * f.MSK /\ i - Ahead(f) = j
    BY <1>3, <1>5, <1>7
  <2> HIDE DEF i
  <2>3. Octet(f, key', i) = key'[j]
    BY <2>2, OctetIs
  <2> QED
    BY <1>7, <2>3 DEF i
<1>9. Left(s)' = 4 * f.MSK + Len(f.context)
  BY <1>2, <1>3, <1>4, <1>7 DEF Left
<1>10. w + Left(s)' = FrameSize(f)
  BY <1>3, <1>5, <1>9 DEF FrameSize
<1>11. Underway(s)'
  <2>1. /\ f = frames'[Len(frames')] /\ w = Len(stream') - starts'[Len(frames')]
        /\ starts'[Len(frames')] = starts[n] /\ stream' = stream
    BY <1>1 DEF f, w, n
  <2> QED
    BY <1>4, <1>6, <1>7, <1>8, <1>10, <2>1 DEF Underway
<1>12. \A t \in Senders : t # s => ~ Midway(t)'
  BY <1>1, <1>2, <1>4 DEF Midway
<1>13. \A t \in Senders : Underway(t)'
  <2> SUFFICES ASSUME NEW t \in Senders, t # s PROVE Underway(t)'
    BY <1>11
  <2>1. ~ Midway(t)'
    BY <1>12
  <2> QED
    BY <2>1 DEF Underway
<1>14. Midway(s)'
  BY <1>4 DEF Midway
<1> QED
  BY <1>1, <1>13, <1>14, StreamRests

LEMMA SendPayloadBytes ==
  ASSUME WebSocketInv, BytesInv, NEW s \in Senders, SendPayload(s)
  PROVE  BytesInv' /\ \A c : Reading(c) => Reading(c)'
<1> DEFINE n == Len(frames)
           f == frames[n]
           w == Len(stream) - starts[n]
<1>1. /\ spc[s] = "mask" /\ out[s] = <<>> /\ Midway(s)
      /\ UNCHANGED <<todo, key, holder, opening, frames, starts, stream, link, sock, receiving>>
      /\ spc' = [spc EXCEPT ![s] = "payload"]
      /\ out' = [out EXCEPT ![s] = Masked(Current(s).context, key)]
  BY DEF SendPayload, Midway
<1>2. /\ n \in Nat \ {0} /\ f \in Message /\ Current(s) = f /\ starts[n] \in Nat
      /\ starts[n] <= Len(stream) /\ Len(stream) \in Nat /\ Underway(s)
      /\ \A t \in Senders : t # s => ~ Midway(t)
  BY <1>1, Within2
<1>3. /\ Ahead(f) \in Nat /\ f.MSK \in {0, 1} /\ Len(f.context) \in Nat /\ w \in Nat
      /\ f.context \in Seq(Byte) /\ key \in [1 .. 4 -> Byte]
  <2>1. Ahead(f) \in Nat /\ f.MSK \in {0, 1} /\ Len(f.context) \in Nat /\ w \in Nat
    BY <1>2, FrameParts
  <2>2. f.context \in Seq(Byte)
    BY <1>2 DEF Message
  <2> QED
    BY <2>1, <2>2 DEF WebSocketInv, TypeOK, SendingType
<1>4. /\ spc'[s] = "payload" /\ Current(s)' = Current(s)
      /\ spc \in [Senders -> {"idle", "send", "prefix", "mask", "payload"}]
      /\ out'[s] = Masked(f.context, key)
  BY <1>1, <1>2 DEF Current, WebSocketInv, TypeOK, SendingType
<1>5. w = Ahead(f) + 4 * f.MSK
  <2>1. w + Left(s) = FrameSize(f)
    BY <1>1, <1>2 DEF Underway
  <2>2. Left(s) = Len(f.context)
    BY <1>1, <1>2, <1>3 DEF Left
  <2> HIDE DEF f, w
  <2> QED
    BY <1>3, <2>1, <2>2, SMTT(30) DEF FrameSize
<1>6. key \in KeysOf(f) /\ \A j \in 1 .. w : stream[starts[n] + j] = Octet(f, key, j)
  BY <1>1, <1>2 DEF Underway
<1>7. Len(out'[s]) = Len(f.context)
  BY <1>3, <1>4, MaskReadBack
<1> HIDE DEF n, f, w
<1>8. ASSUME NEW j \in 1 .. Len(out'[s])
      PROVE  out'[s][j] = Octet(f, key, w + j)
  <2> DEFINE i == w + j
  <2>2. /\ ~ (i <= Ahead(f)) /\ ~ (i <= Ahead(f) + 4 * f.MSK)
        /\ i - Ahead(f) - 4 * f.MSK = j
    BY <1>3, <1>5, <1>7, SMTT(30)
  <2> HIDE DEF i
  <2>3. Octet(f, key, i) = Masked(f.context, key)[j]
    BY <2>2, OctetIs
  <2> QED
    BY <1>4, <2>3 DEF i
<1>9. Left(s)' = Len(f.context)
  BY <1>3, <1>4, <1>7 DEF Left
<1>10. w + Left(s)' = FrameSize(f)
  BY <1>3, <1>5, <1>9 DEF FrameSize
<1>11. Underway(s)'
  <2>1. /\ f = frames'[Len(frames')] /\ w = Len(stream') - starts'[Len(frames')]
        /\ starts'[Len(frames')] = starts[n] /\ stream' = stream /\ key' = key
    BY <1>1 DEF f, w, n
  <2> QED
    BY <1>4, <1>6, <1>8, <1>10, <2>1 DEF Underway
<1>12. \A t \in Senders : t # s => ~ Midway(t)'
  BY <1>1, <1>2, <1>4 DEF Midway
<1>13. \A t \in Senders : Underway(t)'
  <2> SUFFICES ASSUME NEW t \in Senders, t # s PROVE Underway(t)'
    BY <1>11
  <2>1. ~ Midway(t)'
    BY <1>12
  <2> QED
    BY <2>1 DEF Underway
<1>14. Midway(s)'
  BY <1>4 DEF Midway
<1> QED
  BY <1>1, <1>13, <1>14, StreamRests

\* The frame is written when frame() returns.
LEMMA SentBytes ==
  ASSUME WebSocketInv, BytesInv, NEW s \in Senders, Sent(s)
  PROVE  BytesInv' /\ \A c : Reading(c) => Reading(c)'
<1> DEFINE n == Len(frames)
           f == frames[n]
<1>1. /\ spc[s] = "payload" /\ out[s] = <<>> /\ Midway(s)
      /\ UNCHANGED <<frames, starts, stream, sock, receiving>>
      /\ spc' = [spc EXCEPT ![s] = "send"]
  BY DEF Sent, Midway
<1>2. /\ f \in Message /\ starts[n] \in Nat /\ Len(stream) \in Nat /\ Underway(s)
      /\ \A t \in Senders : t # s => ~ Midway(t)
  BY <1>1, Within2
<1>3. Len(stream) - starts[n] + Left(s) = FrameSize(f)
  BY <1>1, <1>2 DEF Underway
<1>4. Left(s) = 0
  BY <1>1 DEF Left
<1>5. FrameSize(f) \in Nat
  BY <1>2, FrameParts
<1> HIDE DEF n, f
<1>6. Len(stream) = starts[n] + FrameSize(f)
  BY <1>2, <1>3, <1>4, <1>5
<1>7. spc \in [Senders -> {"idle", "send", "prefix", "mask", "payload"}]
  BY DEF WebSocketInv, TypeOK, SendingType
<1>8. \A t \in Senders : ~ Midway(t)'
  BY <1>1, <1>2, <1>7 DEF Midway
<1>9. \A t \in Senders : Underway(t)'
  BY <1>8 DEF Underway
<1> QED
  BY <1>1, <1>6, <1>9, StreamRests DEF n, f

\* A step after which no thread is in frame().
LEMMA NobodyMidway ==
  ASSUME WebSocketInv, BytesInv, UNCHANGED <<frames, starts, stream, receiving>>,
         sock = "closed" => sock' = "closed",
         \A s \in Senders : ~ Midway(s)',
         sock' = "closed" \/ \A s \in Senders : ~ Midway(s)
  PROVE  BytesInv' /\ \A c : Reading(c) => Reading(c)'
<1>1. \A t \in Senders : Underway(t)'
  BY DEF Underway
<1> QED
  BY <1>1, StreamRests

LEMMA ThrowBytes ==
  ASSUME WebSocketInv, BytesInv, NEW s \in Senders, spc[s] # "idle", Throw(s),
         UNCHANGED <<stream, receiving>>, sock' \in {sock, "closed"},
         Midway(s) => sock' = "closed"
  PROVE  BytesInv' /\ \A c : Reading(c) => Reading(c)'
<1>1. \A t \in Senders : t # s => ~ Midway(t)
  BY Alone
<1>2. spc \in [Senders -> {"idle", "send", "prefix", "mask", "payload"}]
  BY DEF WebSocketInv, TypeOK, SendingType
<1>3. \A t \in Senders : ~ Midway(t)'
  BY <1>1, <1>2 DEF Throw, Midway
<1> QED
  BY <1>1, <1>3, NobodyMidway DEF Throw

LEMMA LockBytes ==
  ASSUME WebSocketInv, BytesInv, NEW s \in Senders, Lock(s) \/ Unlock(s)
  PROVE  BytesInv' /\ \A c : Reading(c) => Reading(c)'
<1>1. /\ spc \in [Senders -> {"idle", "send", "prefix", "mask", "payload"}] /\ Sending
  BY DEF WebSocketInv, TypeOK, SendingType
<1>2. \A t \in Senders : ~ Midway(t)
  <2>1. CASE Lock(s)
    BY <1>1, <2>1, SocketAssumption DEF Lock, Sending, Midway
  <2>2. CASE Unlock(s)
    <3>1. spc[s] = "send"
      BY <2>2 DEF Unlock
    <3> QED
      BY <3>1, Alone DEF Midway
  <2> QED
    BY <2>1, <2>2
<1>3. \A t \in Senders : ~ Midway(t)'
  BY <1>1, <1>2 DEF Lock, Unlock, Midway
<1> QED
  BY <1>2, <1>3, NobodyMidway DEF Lock, Unlock

LEMMA LinkBytes ==
  ASSUME WebSocketInv, BytesInv, Reset \/ Close
  PROVE  BytesInv' /\ \A c : Reading(c) => Reading(c)'
<1>1. UNCHANGED <<sending, stream, receiving>> /\ sock' \in {sock, "closed"}
  BY DEF Reset, Close
<1>2. \A s \in Senders : (Midway(s)' <=> Midway(s)) /\ Left(s)' = Left(s)
  BY <1>1 DEF sending, Midway, Left, Current
<1>3. \A s \in Senders : Underway(s)'
  BY <1>1, <1>2 DEF BytesInv, Underway, sending
<1> QED
  BY <1>1, <1>2, <1>3, StreamRests DEF sending

LEMMA UnderwayCarriesNext ==
  ASSUME WebSocketInv', NEW s \in Senders, Midway(s)', Underway(s)',
         NEW i \in {Len(frames')}, starts'[i] <= Len(stream')
  PROVE  Carried(i)'
<1>1. (\A r \in Senders : \A j \in {Len(frames)} :
         WebSocketInv /\ Midway(r) /\ Underway(r) /\ starts[j] <= Len(stream) => Carried(j))'
  BY UnderwayCarries, PTL
<1> QED
  BY <1>1

\* Bytes moved from the front of b to the end of a.
LEMMA Moved ==
  ASSUME NEW a \in Seq(Byte), NEW b \in Seq(Byte), NEW m \in Nat, m <= Len(b)
  PROVE  /\ Len(a \o SubSeq(b, 1, m)) = Len(a) + m
         /\ \A j \in 1 .. Len(a) : (a \o SubSeq(b, 1, m))[j] = a[j]
         /\ \A j \in 1 .. m : (a \o SubSeq(b, 1, m))[Len(a) + j] = b[j]
         /\ Len(SubSeq(b, m + 1, Len(b))) = Len(b) - m
         /\ \A j \in 1 .. Len(b) - m : SubSeq(b, m + 1, Len(b))[j] = b[m + j]
<1> DEFINE t == SubSeq(b, 1, m)
           u == SubSeq(b, m + 1, Len(b))
<1>1. t \in Seq(Byte) /\ Len(t) = m /\ \A j \in 1 .. m : t[j] = b[j]
  OBVIOUS
<1>2. Len(u) = Len(b) - m /\ \A j \in 1 .. Len(b) - m : u[j] = b[m + j]
  OBVIOUS
<1> HIDE DEF t
<1>3. Len(a \o t) = Len(a) + m /\ \A j \in 1 .. Len(a) : (a \o t)[j] = a[j]
  BY <1>1
<1>4. \A j \in 1 .. m : (a \o t)[Len(a) + j] = t[j]
  BY <1>1
<1> QED
  BY <1>1, <1>2, <1>3, <1>4 DEF t

LEMMA WriteBytes ==
  ASSUME WebSocketInv, BytesInv, WebSocketInv', NEW s \in Senders, Write(s)
  PROVE  BytesInv' /\ \A c : Reading(c) => Reading(c)'
<1> DEFINE n == Len(frames)
           f == frames[n]
           w == Len(stream) - starts[n]
<1>1. PICK m \in Segments :
        /\ m <= Len(out[s])
        /\ stream' = stream \o SubSeq(out[s], 1, m)
        /\ out' = [out EXCEPT ![s] = SubSeq(@, m + 1, Len(@))]
  BY DEF Write
<1>2. /\ UNCHANGED <<todo, spc, key, holder, opening, frames, starts, link, sock, receiving>>
      /\ sock = "open" /\ out[s] # <<>>
  BY DEF Write
<1>3. Midway(s)
  BY <1>2 DEF WebSocketInv, Sending
<1>4. /\ n \in Nat \ {0} /\ f \in Message /\ Current(s) = f /\ starts[n] \in Nat
      /\ starts[n] <= Len(stream) /\ Len(stream) \in Nat /\ Underway(s)
      /\ out[s] \in Seq(Byte) /\ stream \in Seq(Byte)
      /\ \A t \in Senders : t # s => ~ Midway(t)
      /\ n \in DOMAIN frames
  BY <1>3, Within2 DEF WebSocketInv, TypeOK, SendingType
<1>5. m \in Nat \ {0} /\ m <= Len(out[s]) /\ Len(out[s]) \in Nat /\ w \in Nat
  BY <1>1, <1>4, SocketAssumption
<1>6. out'[s] = SubSeq(out[s], m + 1, Len(out[s]))
  BY <1>1 DEF WebSocketInv, TypeOK, SendingType
<1>7. /\ Len(stream') = Len(stream) + m
      /\ \A j \in 1 .. Len(stream) : stream'[j] = stream[j]
      /\ \A j \in 1 .. m : stream'[Len(stream) + j] = out[s][j]
      /\ Len(out'[s]) = Len(out[s]) - m
      /\ \A j \in 1 .. Len(out[s]) - m : out'[s][j] = out[s][m + j]
  <2>1. m \in Nat /\ out[s] \in Seq(Byte) /\ stream \in Seq(Byte) /\ m <= Len(out[s])
    BY <1>4, <1>5
  <2>2. /\ Len(stream \o SubSeq(out[s], 1, m)) = Len(stream) + m
        /\ \A j \in 1 .. Len(stream) : (stream \o SubSeq(out[s], 1, m))[j] = stream[j]
        /\ \A j \in 1 .. m : (stream \o SubSeq(out[s], 1, m))[Len(stream) + j] = out[s][j]
        /\ Len(SubSeq(out[s], m + 1, Len(out[s]))) = Len(out[s]) - m
        /\ \A j \in 1 .. Len(out[s]) - m : SubSeq(out[s], m + 1, Len(out[s]))[j] = out[s][m + j]
    BY <2>1, Moved, ZenonT(30)
  <2>3. stream' = stream \o SubSeq(out[s], 1, m)
    BY <1>1
  <2> QED
    BY <1>6, <2>2, <2>3, Zenon
<1>8. /\ w + Left(s) = FrameSize(f)
      /\ spc[s] # "prefix" => key \in KeysOf(f)
  BY <1>3, <1>4 DEF Underway
<1>9. \A t \in Senders : Midway(t)' <=> Midway(t)
  BY <1>2 DEF Midway
<1>10. Left(s)' = Left(s) - m
  <2> DEFINE rest == (IF spc[s] = "prefix" THEN 4 * f.MSK ELSE 0)
                     + (IF spc[s] \in {"prefix", "mask"} THEN Len(f.context) ELSE 0)
  <2>1. f.MSK \in {0, 1} /\ Len(f.context) \in Nat
    BY <1>4, FrameParts
  <2>2. rest \in Nat
    BY <2>1
  <2>3. Current(s)' = f /\ spc' = spc
    BY <1>2, <1>4 DEF Current
  <2>4. Left(s) = Len(out[s]) + rest
    BY <1>4, <1>5, <2>1 DEF Left
  <2>5. Len(out'[s]) \in Int
    BY <1>5, <1>7
  <2>6. Left(s)' = Len(out'[s]) + rest
    BY <2>1, <2>3, <2>5 DEF Left
  <2> HIDE DEF rest
  <2> QED
    BY <1>5, <1>7, <2>2, <2>4, <2>6
<1>11. FrameSize(f) \in Nat
  BY <1>4, FrameParts
<1> HIDE DEF f, n, w
<1>12. (w + m) + Left(s)' = FrameSize(f)
  <2>1. Left(s) = FrameSize(f) - w
    <3>1. Left(s) \in Int
      <4>1. f.MSK \in {0, 1} /\ Len(f.context) \in Nat
        BY <1>4, FrameParts
      <4> QED
        BY <1>4, <1>5, <4>1, SMTT(30) DEF Left
    <3> QED
      BY <1>5, <1>8, <1>11, <3>1
  <2> QED
    BY <1>5, <1>10, <1>11, <2>1
<1>13. ASSUME NEW k \in KeysOf(f), spc[s] = "prefix" \/ k = key
       PROVE  /\ \A j \in 1 .. w + m : stream'[starts[n] + j] = Octet(f, k, j)
              /\ \A j \in 1 .. Len(out'[s]) : out'[s][j] = Octet(f, k, (w + m) + j)
  <2>1. /\ \A j \in 1 .. w : stream[starts[n] + j] = Octet(f, k, j)
        /\ \A j \in 1 .. Len(out[s]) : out[s][j] = Octet(f, k, w + j)
    BY <1>3, <1>4, <1>13 DEF Underway, f, n, w
  <2>2. ASSUME NEW j \in 1 .. w + m
        PROVE  stream'[starts[n] + j] = Octet(f, k, j)
    <3>1. CASE j <= w
      <4>1. starts[n] + j \in 1 .. Len(stream) /\ j \in 1 .. w
        BY <1>4, <1>5, <3>1 DEF w
      <4> QED
        BY <1>7, <2>1, <4>1
    <3>2. CASE ~ (j <= w)
      <4> DEFINE i == j - w
      <4>2. starts[n] + w = Len(stream)
        BY <1>4 DEF w
      <4>3. i \in 1 .. m /\ w + i = j
        BY <1>5, <3>2
      <4> HIDE DEF i
      <4>4. i \in 1 .. Len(out[s])
        <5>1. i \in Nat /\ 1 <= i /\ i <= m
          BY <1>5, <4>3
        <5> QED
          BY <1>5, <5>1
      <4>5. starts[n] + j = Len(stream) + i
        <5>1. i \in Nat
          BY <1>5, <4>3
        <5>2. starts[n] + (w + i) = (starts[n] + w) + i
          BY <1>4, <1>5, <5>1
        <5> QED
          BY <4>2, <4>3, <5>2
      <4>1. i \in 1 .. m /\ i \in 1 .. Len(out[s]) /\ w + i = j /\ starts[n] + j = Len(stream) + i
        BY <4>3, <4>4, <4>5
      <4> QED
        BY <1>7, <2>1, <4>1
    <3> QED
      BY <3>1, <3>2
  <2>3. ASSUME NEW j \in 1 .. Len(out'[s])
        PROVE  out'[s][j] = Octet(f, k, (w + m) + j)
    <3> DEFINE i == m + j
    <3>1. j \in 1 .. Len(out[s]) - m /\ i \in 1 .. Len(out[s]) /\ (w + m) + j = w + i
      BY <1>5, <1>7, SMTT(30)
    <3>2. out'[s][j] = out[s][i]
      BY <1>7, <3>1
    <3> HIDE DEF i
    <3> QED
      BY <2>1, <3>1, <3>2
  <2> QED
    BY <2>2, <2>3
<1>14. Underway(s)'
  <2>1. /\ f = frames'[Len(frames')] /\ w + m = Len(stream') - starts'[Len(frames')]
        /\ starts'[Len(frames')] = starts[n] /\ spc' = spc /\ key' = key
    BY <1>2, <1>4, <1>5, <1>7 DEF f, w, n
  <2> DEFINE v == w + m
  <2> HIDE DEF v
  <2>2. \A k \in KeysOf(f) : spc[s] = "prefix" \/ k = key =>
           /\ \A j \in 1 .. v : stream'[starts[n] + j] = Octet(f, k, j)
           /\ \A j \in 1 .. Len(out'[s]) : out'[s][j] = Octet(f, k, v + j)
    BY <1>13 DEF v
  <2>3. v + Left(s)' = FrameSize(f) /\ v = Len(stream') - starts'[Len(frames')]
    BY <1>12, <2>1 DEF v
  <2> QED
    BY <1>8, <2>1, <2>2, <2>3 DEF Underway
<1>15. \A t \in Senders : Underway(t)'
  <2>1. \A t \in Senders : t # s => ~ Midway(t)'
    BY <1>4, <1>9
  <2>2. \A t \in Senders : t # s => Underway(t)'
    BY <2>1 DEF Underway
  <2> QED
    BY <1>14, <2>2
<1>16. ASSUME NEW i \in DOMAIN frames
       PROVE  Carried(i)'
  <2>1. Carried(i) /\ i \in 1 .. n
    BY Stands DEF BytesInv, n
  <2>2. CASE i = n
    <3>1. starts'[n] <= Len(stream') /\ n = Len(frames') /\ Midway(s)'
      BY <1>2, <1>3, <1>4, <1>5, <1>7, <1>9 DEF n
    <3> QED
      BY <1>14, <2>2, <3>1, UnderwayCarriesNext
  <2>3. CASE i # n
    <3>1. i < Len(frames) /\ Start(i)' = Start(i)
      BY <1>2, <1>4, <2>1, <2>3 DEF Start, n
    <3>2. ~ (Start(i) < starts[i] + FrameSize(frames[i]))
      <4>1. i # Len(frames)
        BY <2>3 DEF n
      <4> QED
        BY <1>2, <2>1, <4>1 DEF Carried
    <3> QED
      BY <1>2, <1>4, <1>5, <1>7, <2>1, <3>1, <3>2, CarriedKept
  <2> QED
    BY <2>2, <2>3
<1>17. ASSUME NEW c, Reading(c)
       PROVE  Reading(c)'
  <2>1. c \in 0 .. n /\ n > 0
    BY <1>4, <1>17 DEF Reading, n
  <2>2. CASE c = n
    <3>1. Len(stream) = starts[n] + FrameSize(f)
      BY <1>4, <1>17, <2>1, <2>2 DEF Reading, Start, n, f
    <3>2. w = FrameSize(f)
      BY <1>4, <1>11, <3>1 DEF w
    <3>3. Left(s) >= Len(out[s])
      <4>1. f.MSK \in {0, 1} /\ Len(f.context) \in Nat
        BY <1>4, FrameParts
      <4> QED
        BY <1>4, <1>5, <4>1 DEF Left
    <3>4. Left(s) = 0
      <4>1. Left(s) \in Int
        <5>1. f.MSK \in {0, 1} /\ Len(f.context) \in Nat
          BY <1>4, FrameParts
        <5> QED
          BY <1>4, <1>5, <5>1, SMTT(30) DEF Left
      <4> QED
        BY <1>8, <1>11, <3>2, <4>1
    <3> QED
      BY <1>5, <3>3, <3>4
  <2>3. CASE c # n
    <3>1. Start(c)' = Start(c)
      BY <1>2, <1>4, <2>1, <2>3 DEF Start, n
    <3> QED
      BY <1>2, <1>4, <1>5, <1>7, <1>17, <3>1, ReadingKept DEF n
  <2> QED
    BY <2>2, <2>3
<1> QED
  BY <1>2, <1>15, <1>16, <1>17 DEF BytesInv

\* A frame begins where the stream ends, when no thread is in another.
LEMMA BeginBytes ==
  ASSUME WebSocketInv, BytesInv, WebSocketInv', NEW s \in Senders, Begin(s)
  PROVE  BytesInv' /\ \A c : Reading(c) => Reading(c)'
<1>1. spc[s] = "send" /\ Head(todo[s]) # <<>> /\ UNCHANGED <<stream, link, sock, receiving>>
  BY DEF Begin
<1>2. CASE ~ opening
  <2>1. Throw(s)
    BY <1>2 DEF Begin
  <2> QED
    BY <1>1, <2>1, ThrowBytes DEF Midway
<1>3. CASE opening
  <2> DEFINE n == Len(frames)
             g == Current(s)
  <2>1. /\ frames' = Append(frames, g) /\ starts' = Append(starts, Len(stream))
        /\ out' = [out EXCEPT ![s] = Prefix(g)]
        /\ spc' = [spc EXCEPT ![s] = "prefix"]
        /\ UNCHANGED <<todo, key, holder, opening>>
    BY <1>3 DEF Begin
  <2>2. /\ g \in Message /\ spc \in [Senders -> {"idle", "send", "prefix", "mask", "payload"}]
        /\ out \in [Senders -> Seq(Byte)]
    BY <1>1, CurrentType DEF WebSocketInv, TypeOK, SendingType
  <2>3. \A t \in Senders : ~ Midway(t)
    BY <1>1, Alone DEF Midway
  <2>4. /\ frames \in Seq(Message) /\ starts \in Seq(Nat) /\ Len(starts) = n /\ n \in Nat
        /\ DOMAIN frames = 1 .. n /\ Len(stream) \in Nat
    BY Stands
  <2>5. /\ spc'[s] = "prefix" /\ out'[s] = Prefix(g) /\ Current(s)' = g
        /\ \A t \in Senders : t # s => ~ Midway(t)'
    BY <2>1, <2>2, <2>3 DEF Midway, Current
  <2>6. /\ Ahead(g) \in Nat /\ g.MSK \in {0, 1} /\ Len(g.context) \in Nat
        /\ Len(Prefix(g)) = Ahead(g)
    BY <2>2, FrameParts DEF Ahead
  <2> HIDE DEF g, n
  <2>7. /\ Len(frames') = n + 1 /\ frames'[n + 1] = g /\ \A i \in 1 .. n : frames'[i] = frames[i]
    BY <2>1, <2>2, <2>4 DEF n
  <2>8. starts'[n + 1] = Len(stream) /\ \A i \in 1 .. n : starts'[i] = starts[i]
    BY <2>1, <2>4
  <2>9. \A c \in 0 .. n : Start(c)' = Start(c)
    <3> SUFFICES ASSUME NEW c \in 0 .. n
                 PROVE  Start(c)' = Start(c)
      OBVIOUS
    <3>1. Start(c)' = starts'[c + 1]
      BY <2>4, <2>7 DEF Start
    <3>2. CASE c = n
      <4>1. Start(c) = Len(stream)
        BY <2>4, <3>2 DEF Start, n
      <4> QED
        BY <2>8, <3>1, <3>2, <4>1
    <3>3. CASE c # n
      <4>1. c + 1 \in 1 .. n /\ c < n
        BY <2>4, <3>3
      <4>2. Start(c) = starts[c + 1]
        BY <4>1 DEF Start, n
      <4> QED
        BY <2>8, <3>1, <4>1, <4>2
    <3> QED
      BY <3>2, <3>3
  <2>10. Left(s)' = FrameSize(g)
    BY <2>5, <2>6 DEF Left, FrameSize
  <2>11. Underway(s)'
    <3>1. \A j \in 1 .. Len(Prefix(g)) : \A k : Prefix(g)[j] = Octet(g, k, 0 + j)
      <4> SUFFICES ASSUME NEW j \in 1 .. Len(Prefix(g)), NEW k
                   PROVE  Prefix(g)[j] = Octet(g, k, 0 + j)
        OBVIOUS
      <4>1. j <= Ahead(g) /\ 0 + j = j
        BY <2>6
      <4> QED
        BY <4>1, OctetIs
    <3>2. FrameSize(g) \in Nat
      BY <2>2, FrameParts
    <3>3. 0 + Left(s)' = FrameSize(g)
      BY <2>10, <3>2
    <3>4. /\ frames'[Len(frames')] = g /\ starts'[Len(frames')] = Len(stream')
          /\ Len(stream') - starts'[Len(frames')] = 0
      BY <1>1, <2>4, <2>7, <2>8
    <3> QED
      BY <2>5, <3>1, <3>3, <3>4 DEF Underway
  <2>12. \A t \in Senders : Underway(t)'
    <3>1. \A t \in Senders : t # s => Underway(t)'
      BY <2>5 DEF Underway
    <3> QED
      BY <2>11, <3>1
  <2>13. ASSUME NEW i \in {n + 1}
         PROVE  Carried(i)'
    <3>1. Midway(s)' /\ i \in {Len(frames')} /\ starts'[i] <= Len(stream')
      BY <1>1, <2>4, <2>5, <2>7, <2>8 DEF Midway
    <3> QED
      BY <2>11, <3>1, UnderwayCarriesNext
  <2>14. ASSUME NEW i \in 1 .. n
         PROVE  Carried(i)'
    <3>1. Carried(i) /\ i \in DOMAIN frames /\ Start(i)' = Start(i)
      BY <2>4, <2>9 DEF BytesInv
    <3>2. Start(i) < starts[i] + FrameSize(frames[i]) => Start(i) = Len(stream) /\ sock = "closed"
      BY <2>3, <3>1 DEF Carried
    <3> QED
      BY <1>1, <2>4, <2>7, <2>8, <3>1, <3>2, CarriedKept
  <2>15. \A i \in DOMAIN frames' : Carried(i)'
    <3>1. DOMAIN frames' = 1 .. n + 1
      BY <2>1, <2>2, <2>4 DEF n
    <3>2. \A i \in 1 .. n + 1 : i \in 1 .. n \/ i \in {n + 1}
      BY <2>4
    <3> QED
      BY <2>13, <2>14, <3>1, <3>2
  <2>16. ASSUME NEW c, Reading(c)
         PROVE  Reading(c)'
    <3>1. c \in 0 .. n
      BY <2>16 DEF Reading, n
    <3>2. /\ Start(c)' = Start(c) /\ Len(frames) <= Len(frames') /\ Len(frames') \in Nat
          /\ \A i \in DOMAIN frames : frames'[i] = frames[i] /\ starts'[i] = starts[i]
      BY <2>4, <2>7, <2>8, <2>9, <3>1 DEF n
    <3> QED
      BY <1>1, <2>4, <2>16, <3>2, ReadingKept
  <2> QED
    BY <2>12, <2>15, <2>16 DEF BytesInv
<1> QED
  BY <1>2, <1>3

\* No step of a sender or of the connection disturbs the bytes.
LEMMA SenderBytes ==
  ASSUME WebSocketInv, BytesInv, WebSocketInv',
         (\E s \in Senders : Sender(s)) \/ Reset \/ Close
  PROVE  BytesInv' /\ \A c : Reading(c) => Reading(c)'
<1>1. ASSUME NEW s \in Senders, WriteFails(s)
      PROVE  BytesInv' /\ \A c : Reading(c) => Reading(c)'
  <2>1. spc[s] # "idle"
    BY <1>1 DEF WriteFails, WebSocketInv, Sending, Midway
  <2> QED
    BY <1>1, <2>1, ThrowBytes DEF WriteFails
<1> QED
  BY <1>1, LockBytes, BeginBytes, WriteBytes, SendMaskBytes, SendPayloadBytes, SentBytes,
     LinkBytes DEF Sender

(***************************************************************************)
(* The receiver reads a frame from its start to its end.                   *)
(***************************************************************************)
LEMMA ReceiverKeepsBytes ==
  ASSUME UNCHANGED <<sending, stream, sock>>
  PROVE  (BytesInv => BytesInv') /\ \A c : Start(c)' = Start(c)
<1>1. \A c : Start(c)' = Start(c)
  BY DEF Start, sending
<1>2. ASSUME BytesInv, NEW i \in DOMAIN frames
      PROVE  Carried(i)'
  BY <1>1, <1>2 DEF BytesInv, Carried, Midway, sending
<1>3. ASSUME BytesInv, NEW s \in Senders
      PROVE  Underway(s)'
  <2>1. Left(s)' = Left(s)
    BY DEF Left, Current, sending
  <2> QED
    BY <1>3, <2>1 DEF BytesInv, Underway, Midway, sending
<1>4. UNCHANGED frames
  BY DEF sending
<1> QED
  BY <1>1, <1>2, <1>3, <1>4 DEF BytesInv

LEMMA Place ==
  ASSUME WebSocketInv, NEW c, Reading(c)
  PROVE  /\ c \in Nat /\ c <= Len(frames) /\ Start(c) \in Nat
         /\ c < Len(frames) => /\ c + 1 \in DOMAIN frames /\ frames[c + 1] \in Message
                               /\ starts[c + 1] = Start(c)
         /\ c > 0 => Start(c) = starts[c] + FrameSize(frames[c])
<1>1. /\ frames \in Seq(Message) /\ starts \in Seq(Nat) /\ Len(starts) = Len(frames)
      /\ Len(frames) \in Nat /\ Len(stream) \in Nat /\ DOMAIN frames = 1 .. Len(frames)
  BY Stands
<1>2. c \in 0 .. Len(frames) /\ (c > 0 => Start(c) = starts[c] + FrameSize(frames[c]))
  BY DEF Reading
<1>3. Start(c) \in Nat
  BY <1>1, <1>2 DEF Start
<1>4. ASSUME c < Len(frames)
      PROVE  c + 1 \in DOMAIN frames /\ starts[c + 1] = Start(c)
  BY <1>1, <1>2, <1>4 DEF Start
<1>5. ASSUME c < Len(frames)
      PROVE  frames[c + 1] \in Message
  BY <1>1, <1>4, <1>5
<1> QED
  BY <1>1, <1>2, <1>3, <1>4, <1>5

\* What is read of a frame are the bytes of its encoding.
LEMMA BytesRead ==
  ASSUME WebSocketInv, BytesInv, NEW c, Reading(c), c < Len(frames),
         NEW r \in Nat, Start(c) + r <= rd, r <= FrameSize(frames[c + 1])
  PROVE  /\ Start(c) + r <= Start(c + 1)
         /\ Start(c + 1) <= Start(c) + FrameSize(frames[c + 1])
         /\ \E k \in KeysOf(frames[c + 1]) :
              \A j \in 1 .. r : stream[Start(c) + j] = Octet(frames[c + 1], k, j)
<1> DEFINE i == c + 1
           f == frames[i]
<1>1. i \in DOMAIN frames /\ starts[i] = Start(c) /\ Start(c) \in Nat /\ f \in Message
  BY Place
<1>2. Carried(i)
  BY <1>1 DEF BytesInv
<1>3. FrameSize(f) \in Nat
  BY <1>1, FrameParts
<1>4. rd \in Nat /\ rd <= Len(stream) /\ Len(stream) \in Nat
  BY Stands
<1> HIDE DEF i, f
<1>5. Start(i) \in Nat
  <2>1. i \in Nat /\ starts \in Seq(Nat) /\ Len(starts) = Len(frames) /\ DOMAIN frames = 1 .. Len(frames)
    BY <1>1, Stands
  <2> QED
    BY <1>4, <2>1, Stands DEF Start
<1>6. /\ starts[i] <= Start(i) /\ Start(i) <= starts[i] + FrameSize(frames[i])
      /\ Start(i) < starts[i] + FrameSize(frames[i]) => Start(i) = Len(stream)
  BY <1>2 DEF Carried
<1>7. PICK k \in KeysOf(frames[i]) :
        \A j \in 1 .. Start(i) - starts[i] : stream[starts[i] + j] = Octet(frames[i], k, j)
  BY <1>2 DEF Carried
<1>8. Start(c) + r <= Start(i)
  BY <1>1, <1>3, <1>4, <1>5, <1>6 DEF f, i
<1>9. \A j \in 1 .. r : j \in 1 .. Start(i) - starts[i]
  BY <1>1, <1>5, <1>8
<1> QED
  BY <1>1, <1>6, <1>7, <1>8, <1>9 DEF f, i

\* The first bytes of a frame do not depend on its mask.
LEMMA PrefixRead ==
  ASSUME WebSocketInv, BytesInv, NEW c, Reading(c), c < Len(frames),
         NEW r \in Nat, Start(c) + r <= rd, r <= Ahead(frames[c + 1])
  PROVE  \A j \in 1 .. r : stream[Start(c) + j] = Prefix(frames[c + 1])[j]
<1> DEFINE f == frames[c + 1]
<1>1. f \in Message
  BY Place
<1>2. /\ Ahead(f) \in Nat /\ FrameSize(f) \in Nat /\ 4 * f.MSK \in Nat
      /\ FrameSize(f) >= Ahead(f) + 4 * f.MSK
  <2>1. Ahead(f) \in Nat /\ FrameSize(f) \in Nat /\ FrameSize(f) >= Ahead(f) + 4 * f.MSK /\ f.MSK \in {0, 1}
    BY <1>1, FrameParts
  <2> HIDE DEF f
  <2> QED
    BY <2>1
<1> HIDE DEF f
<1>3. r <= FrameSize(f)
  BY <1>2 DEF f
<1>4. PICK k \in KeysOf(f) : \A j \in 1 .. r : stream[Start(c) + j] = Octet(f, k, j)
  BY <1>3, BytesRead DEF f
<1>5. ASSUME NEW j \in 1 .. r
      PROVE  Octet(f, k, j) = Prefix(f)[j]
  <2>1. j <= Ahead(f)
    BY <1>2 DEF f
  <2> QED
    BY <2>1, OctetIs
<1> QED
  BY <1>4, <1>5 DEF f

\* A part of a frame is waited for, or some of it is here: the frame is begun.
LEMMA HeadIsBegun ==
  ASSUME WebSocketInv, NEW c, Reading(c), rpc = "head", want = 0
  PROVE  c < Len(frames) /\ Len(buf) = 1 /\ rd = Start(c) + 1
<1>1. Len(buf) = 1
  BY Stands DEF WebSocketInv, Receiving
<1>2. rd = Start(c) + Len(buf)
  BY DEF Reading
<1>3. c # Len(frames)
  BY <1>1, <1>2, Stands DEF Start
<1> QED
  BY <1>1, <1>2, <1>3, Place, Stands

LEMMA ReadBytes ==
  ASSUME WebSocketInv, BytesInv, Read, NEW c, Reading(c)
  PROVE  Reading(c)'
<1>1. PICK n \in Segments :
        /\ n <= want /\ rd + n <= Len(stream)
        /\ buf' = buf \o SubSeq(stream, rd + 1, rd + n)
        /\ rd' = rd + n
        /\ want' = want - n
  BY DEF Read
<1>2. UNCHANGED <<frames, starts, stream, rpc, frame, header>> /\ rpc # "failed"
  BY DEF Read, sending
<1>3. /\ n \in Nat /\ rd \in Nat /\ Len(buf) \in Nat /\ want \in Nat /\ buf \in Seq(Byte)
      /\ stream \in Seq(Byte) /\ Len(stream) \in Nat
  BY Stands, SocketAssumption
<1>4. Start(c)' = Start(c)
  BY ReceiverKeepsBytes DEF Read
<1> DEFINE t == SubSeq(stream, rd + 1, rd + n)
<1>5. t \in Seq(Byte) /\ Len(t) = n /\ \A j \in 1 .. n : t[j] = stream[rd + j]
  BY <1>1, <1>3
<1> HIDE DEF t
<1>6. Len(buf') = Len(buf) + n /\ \A j \in 1 .. Len(buf) : buf'[j] = buf[j]
  BY <1>1, <1>3, <1>5 DEF t
<1>7. \A j \in 1 .. n : buf'[Len(buf) + j] = t[j]
  <2>1. buf' = buf \o t
    BY <1>1 DEF t
  <2>2. buf \in Seq(Byte) /\ t \in Seq(Byte) /\ Len(t) = n
    BY <1>3, <1>5
  <2> QED
    BY <2>1, <2>2
<1>8. /\ rd' - Len(buf') = rd - Len(buf) /\ Len(buf') + want' = Len(buf) + want
  BY <1>1, <1>3, <1>6, SMTT(30)
<1>9. ASSUME NEW j \in 1 .. Len(buf')
      PROVE  buf'[j] = stream[rd' - Len(buf') + j]
  <2>1. CASE j <= Len(buf)
    <3>1. j \in 1 .. Len(buf)
      BY <1>3, <1>6, <2>1
    <3>2. buf[j] = stream[rd - Len(buf) + j]
      BY <1>2, <3>1 DEF Reading
    <3> QED
      BY <1>6, <1>8, <3>1, <3>2
  <2>2. CASE ~ (j <= Len(buf))
    <3> DEFINE i == j - Len(buf)
    <3>1. i \in 1 .. n /\ Len(buf) + i = j
      BY <1>3, <1>6, <2>2
    <3>2. rd - Len(buf) + j = rd + i
      BY <1>3, <3>1
    <3> HIDE DEF i
    <3> QED
      BY <1>5, <1>7, <1>8, <3>1, <3>2
  <2> QED
    BY <2>1, <2>2
<1>10. \A x \in Nat : rd = x + Len(buf) => rd' = x + Len(buf')
  BY <1>1, <1>3, <1>6
<1>11. Start(c) \in Nat /\ c \in 0 .. Len(frames)' /\ (c > 0 => Start(c) = starts[c] + FrameSize(frames[c]))
  BY <1>2, Place DEF Reading
<1>12. CASE rpc = "head"
  <2>1. rd = Start(c) + Len(buf)
    BY <1>12 DEF Reading
  <2>2. rd' = Start(c) + Len(buf')
    BY <1>10, <1>11, <2>1
  <2> QED
    BY <1>2, <1>4, <1>9, <1>11, <1>12, <2>2 DEF Reading
<1>13. CASE rpc # "head"
  <2> DEFINE f == frames[c + 1]
  <2>1. /\ c < Len(frames)
        /\ frame.FIN = f.FIN /\ frame.RSV = f.RSV /\ frame.OPC = f.OPC
        /\ rpc \in {"size", "wide"} => rd = Start(c) + 1 + Len(buf)
        /\ rpc \in {"key", "payload"} => header.length = Len(f.context)
        /\ rpc = "key" => /\ rd = Start(c) + Ahead(f) + Len(buf)
                          /\ Len(buf) + want = 4 * f.MSK
        /\ rpc = "payload" =>
             /\ rd = Start(c) + Ahead(f) + 4 * f.MSK + Len(buf)
             /\ header.key \in KeysOf(f)
             /\ \A j \in 1 .. 4 * f.MSK : header.key[j] = stream[Start(c) + Ahead(f) + j]
    BY <1>2, <1>13 DEF Reading
  <2>2. f \in Message
    BY <2>1, Place
  <2>3. Ahead(f) \in Nat /\ f.MSK \in {0, 1}
    BY <2>2, FrameParts
  <2> HIDE DEF f
  <2>4. /\ Start(c) + 1 \in Nat /\ Start(c) + Ahead(f) \in Nat
        /\ Start(c) + Ahead(f) + 4 * f.MSK \in Nat
    BY <1>11, <2>3
  <2>5. /\ rpc \in {"size", "wide"} => rd' = Start(c) + 1 + Len(buf')
        /\ rpc = "key" => rd' = Start(c) + Ahead(f) + Len(buf')
        /\ rpc = "payload" => rd' = Start(c) + Ahead(f) + 4 * f.MSK + Len(buf')
    BY <1>10, <2>1, <2>4
  <2>6. rpc = "key" => Len(buf') + want' = 4 * f.MSK
    BY <1>8, <2>1
  <2>7. f = frames'[c + 1] /\ c < Len(frames')
    BY <1>2, <2>1 DEF f
  <2> QED
    BY <1>2, <1>4, <1>9, <1>11, <1>13, <2>1, <2>5, <2>6, <2>7 DEF Reading
<1> QED
  BY <1>12, <1>13

LEMMA ReadFailsBytes ==
  ASSUME WebSocketInv, ReadFails, NEW c, Reading(c)
  PROVE  Reading(c)'
<1>1. UNCHANGED <<frames, starts>> /\ rpc' = "failed"
  BY DEF ReadFails, sending
<1>2. Start(c)' = Start(c)
  BY ReceiverKeepsBytes DEF ReadFails
<1> QED
  BY <1>1, <1>2 DEF Reading

LEMMA GotHeadBytes ==
  ASSUME WebSocketInv, BytesInv, GotHead, NEW c, Reading(c)
  PROVE  Reading(c)'
<1> DEFINE f == frames[c + 1]
<1>1. c < Len(frames) /\ Len(buf) = 1 /\ rd = Start(c) + 1
  BY HeadIsBegun DEF GotHead
<1>2. f \in Message /\ Start(c) \in Nat
  BY <1>1, Place
<1>3. Ahead(f) \in Nat /\ Ahead(f) >= 2
  BY <1>2, FrameParts
<1>4. stream[Start(c) + 1] = Prefix(f)[1]
  <2>1. 1 \in Nat /\ Start(c) + 1 <= rd /\ 1 <= Ahead(frames[c + 1])
    BY <1>1, <1>2, <1>3
  <2>2. \A j \in 1 .. 1 : stream[Start(c) + j] = Prefix(frames[c + 1])[j]
    BY <1>1, <2>1, PrefixRead
  <2> QED
    BY <2>2
<1>5. buf[1] = stream[Start(c) + 1]
  <2>1. buf[1] = stream[rd - Len(buf) + 1]
    BY <1>1 DEF Reading, GotHead
  <2>2. rd - Len(buf) + 1 = Start(c) + 1
    BY <1>1, <1>2
  <2> QED
    BY <2>1, <2>2
<1>6. /\ frame' = [Blank EXCEPT !.FIN = FIN(buf[1]), !.RSV = RSV(buf[1]), !.OPC = OPC(buf[1])]
      /\ buf' = <<>> /\ rpc' = "size" /\ UNCHANGED <<frames, starts, stream, rd>>
  BY DEF GotHead, Await, sending
<1>7. frame'.FIN = FIN(buf[1]) /\ frame'.RSV = RSV(buf[1]) /\ frame'.OPC = OPC(buf[1])
  BY <1>6 DEF Blank
<1>8. FIN(buf[1]) = f.FIN /\ RSV(buf[1]) = f.RSV /\ OPC(buf[1]) = f.OPC
  BY <1>2, <1>4, <1>5, HeadReadBack
<1>9. Start(c)' = Start(c) /\ Len(buf') = 0 /\ rd' = Start(c) + 1 + Len(buf')
  <2>1. Start(c)' = Start(c)
    BY ReceiverKeepsBytes DEF GotHead
  <2>2. Len(buf') = 0
    BY <1>6
  <2> QED
    BY <1>1, <1>2, <1>6, <2>1, <2>2
<1>10. c \in 0 .. Len(frames)' /\ (c > 0 => Start(c) = starts[c] + FrameSize(frames[c]))
  BY <1>6 DEF Reading
<1>11. f = frames'[c + 1] /\ c < Len(frames')
  BY <1>1, <1>6
<1> HIDE DEF f
<1> QED
  BY <1>6, <1>7, <1>8, <1>9, <1>10, <1>11 DEF Reading

LEMMA GotSizeBytes ==
  ASSUME WebSocketInv, GotSize, NEW c, Reading(c)
  PROVE  Reading(c)'
<1>1. rpc = "size" /\ rpc' = "wide" /\ UNCHANGED <<frames, starts, stream, rd, buf, frame, header>>
  BY DEF GotSize, Await, sending
<1>2. Start(c)' = Start(c)
  BY ReceiverKeepsBytes DEF GotSize
<1> QED
  BY <1>1, <1>2 DEF Reading

\* The length that is read is the length that was written.
LEMMA GotWideBytes ==
  ASSUME WebSocketInv, BytesInv, frames \in Seq(Sized), GotWide, NEW c, Reading(c)
  PROVE  Reading(c)'
<1> DEFINE f == frames[c + 1]
           len == Len(f.context)
           e == Extended(len)
<1>1. /\ rpc = "wide" /\ want = 0 /\ rpc' = "key" /\ buf' = <<>>
      /\ want' = 4 * MASK(buf[1])
      /\ header' = [length |-> Length(buf[1], Tail(buf)), key |-> NoKey]
      /\ UNCHANGED <<frames, starts, stream, rd, frame>>
  BY DEF GotWide, Await, sending
<1>2. /\ c < Len(frames) /\ rd = Start(c) + 1 + Len(buf)
      /\ frame.FIN = f.FIN /\ frame.RSV = f.RSV /\ frame.OPC = f.OPC
  BY <1>1 DEF Reading
<1>3. f \in Message /\ Start(c) \in Nat /\ c \in Nat
  BY <1>2, Place
<1>4. len \in Nat /\ In64Bits(len)
  <2>1. f \in Sized
    BY <1>2, <1>3, Stands
  <2> QED
    BY <1>3, <2>1, FrameParts DEF Sized
<1>5. /\ Ahead(f) = 2 + Len(e) /\ Ahead(f) \in Nat /\ f.MSK \in {0, 1}
      /\ Prefix(f)[2] = f.MSK * 128 + Length7(len)
      /\ \A j \in 1 .. Len(e) : Prefix(f)[j + 2] = e[j]
  BY <1>3, FrameParts
<1>6. e \in Seq(Byte) /\ Len(e) \in Nat
  BY <1>4, ExtendedType, SMTT(30)
<1>7. /\ Len(e) = Announced(f.MSK * 128 + Length7(len))
      /\ Length(f.MSK * 128 + Length7(len), e) = len
      /\ MASK(f.MSK * 128 + Length7(len)) = f.MSK
  BY <1>4, <1>5, LengthReadBack, SMTT(30)
<1>8. Len(buf) > 0 /\ Len(buf) = 1 + Announced(buf[1]) /\ buf \in Seq(Byte) /\ Len(buf) \in Nat
  BY <1>1, Stands DEF WebSocketInv, Receiving
<1> HIDE DEF e, len, f
<1>9. ASSUME NEW j \in 1 .. Len(buf)
      PROVE  buf[j] = stream[Start(c) + (1 + j)]
  <2>1. buf[j] = stream[rd - Len(buf) + j]
    BY <1>1 DEF Reading
  <2>2. rd - Len(buf) + j = Start(c) + (1 + j)
    BY <1>2, <1>3, <1>8
  <2> QED
    BY <2>1, <2>2
<1>10. buf[1] = Prefix(f)[2]
  <2>1. 2 \in Nat /\ Start(c) + 2 <= rd /\ 2 <= Ahead(frames[c + 1])
    BY <1>2, <1>3, <1>5, <1>6, <1>8, SMTT(30) DEF f
  <2>2. \A j \in 1 .. 2 : stream[Start(c) + j] = Prefix(frames[c + 1])[j]
    BY <1>2, <2>1, PrefixRead
  <2>3. 1 \in 1 .. Len(buf) /\ 1 + 1 = 2
    BY <1>8
  <2> QED
    BY <1>9, <2>2, <2>3 DEF f
<1>11. Len(buf) = 1 + Len(e)
  BY <1>5, <1>7, <1>8, <1>10
<1>12. ASSUME NEW j \in 1 .. Len(e)
       PROVE  Tail(buf)[j] = e[j]
  <2> DEFINE i == j + 1
  <2>1. Tail(buf)[j] = buf[i]
    BY <1>6, <1>8, <1>11
  <2>2. i \in 1 .. Len(buf) /\ 1 + i = j + 2 /\ j + 2 \in 1 .. Ahead(f)
    BY <1>5, <1>6, <1>11
  <2>3. Start(c) + Ahead(f) <= rd /\ Ahead(f) <= Ahead(frames[c + 1])
    BY <1>2, <1>3, <1>5, <1>6, <1>11 DEF f
  <2>4. \A h \in 1 .. Ahead(f) : stream[Start(c) + h] = Prefix(f)[h]
    BY <1>2, <1>5, <2>3, PrefixRead DEF f
  <2> HIDE DEF i
  <2>5. buf[i] = Prefix(f)[j + 2]
    BY <1>9, <2>2, <2>4
  <2> QED
    BY <1>5, <2>1, <2>5
<1>13. Tail(buf) = e
  <2>1. Tail(buf) \in Seq(Byte) /\ Len(Tail(buf)) = Len(e)
    BY <1>6, <1>8, <1>11
  <2> QED
    BY <1>6, <1>12, <2>1, SeqEqual
<1>14. header'.length = Len(f.context) /\ want' = 4 * f.MSK
  BY <1>1, <1>5, <1>7, <1>10, <1>13 DEF len
<1>15. Start(c)' = Start(c) /\ Len(buf') = 0
  <2>1. Start(c)' = Start(c)
    BY ReceiverKeepsBytes DEF GotWide
  <2> QED
    BY <1>1, <2>1
<1>16. rd' = Start(c) + Ahead(f) + Len(buf') /\ Len(buf') + want' = 4 * f.MSK
  BY <1>1, <1>2, <1>3, <1>5, <1>6, <1>11, <1>14, <1>15
<1>17. c \in 0 .. Len(frames)' /\ (c > 0 => Start(c) = starts[c] + FrameSize(frames[c]))
  BY <1>1 DEF Reading
<1>18. f = frames'[c + 1] /\ c < Len(frames')
  BY <1>1, <1>2 DEF f
<1> QED
  BY <1>1, <1>2, <1>14, <1>15, <1>16, <1>17, <1>18 DEF Reading

LEMMA GotKeyBytes ==
  ASSUME WebSocketInv, BytesInv, GotKey, NEW c, Reading(c)
  PROVE  Reading(c)'
<1> DEFINE f == frames[c + 1]
<1>1. /\ rpc = "key" /\ want = 0 /\ rpc' = "payload" /\ buf' = <<>>
      /\ header' = [header EXCEPT !.key = IF buf = <<>> THEN NoKey ELSE buf]
      /\ UNCHANGED <<frames, starts, stream, rd, frame>>
  BY DEF GotKey, Await, sending
<1>2. /\ c < Len(frames) /\ rd = Start(c) + Ahead(f) + Len(buf)
      /\ frame.FIN = f.FIN /\ frame.RSV = f.RSV /\ frame.OPC = f.OPC
      /\ header.length = Len(f.context) /\ Len(buf) + want = 4 * f.MSK
      /\ \A j \in 1 .. Len(buf) : buf[j] = stream[rd - Len(buf) + j]
  BY <1>1 DEF Reading
<1>3. f \in Message /\ Start(c) \in Nat /\ c \in Nat
  BY <1>2, Place
<1>4. Ahead(f) \in Nat /\ f.MSK \in {0, 1}
  BY <1>3, FrameParts
<1>5. /\ header'.length = header.length
      /\ header'.key = IF buf = <<>> THEN NoKey ELSE buf
  <2>1. header \in [length : Nat, key : [1 .. 4 -> Byte]]
    BY DEF WebSocketInv, TypeOK, ReceivingType
  <2> QED
    BY <1>1, <2>1
<1>6. buf \in Seq(Byte) /\ Len(buf) \in Nat
  BY Stands
<1> HIDE DEF f
<1>7. Len(buf) = 4 * f.MSK
  BY <1>1, <1>2, <1>6
<1>8. header'.key \in KeysOf(f)
  <2>1. CASE f.MSK = 1
    <3>1. Len(buf) = 4
      BY <1>7, <2>1
    <3>2. buf # <<>> /\ buf \in [1 .. 4 -> Byte]
      BY <1>6, <3>1, SeqIsKey
    <3> QED
      BY <1>5, <2>1, <3>2 DEF KeysOf
  <2>2. CASE f.MSK = 0
    <3>1. buf = <<>>
      BY <1>6, <1>7, <2>2
    <3> QED
      BY <1>5, <2>2, <3>1 DEF KeysOf
  <2> QED
    BY <1>4, <2>1, <2>2
<1>9. ASSUME NEW j \in 1 .. 4 * f.MSK
      PROVE  header'.key[j] = stream[Start(c) + Ahead(f) + j]
  <2>1. j \in 1 .. Len(buf) /\ buf # <<>>
    BY <1>4, <1>6, <1>7
  <2>2. rd - Len(buf) + j = Start(c) + Ahead(f) + j
    BY <1>2, <1>3, <1>4, <1>6
  <2> QED
    BY <1>2, <1>5, <2>1, <2>2
<1>10. Start(c)' = Start(c) /\ Len(buf') = 0
  <2>1. Start(c)' = Start(c)
    BY ReceiverKeepsBytes DEF GotKey
  <2> QED
    BY <1>1, <2>1
<1>11. rd' = Start(c) + Ahead(f) + 4 * f.MSK + Len(buf')
  BY <1>1, <1>2, <1>3, <1>4, <1>7, <1>10
<1>12. c \in 0 .. Len(frames)' /\ (c > 0 => Start(c) = starts[c] + FrameSize(frames[c]))
  BY <1>1 DEF Reading
<1>13. f = frames'[c + 1] /\ c < Len(frames')
  BY <1>1, <1>2 DEF f
<1> QED
  BY <1>1, <1>2, <1>5, <1>8, <1>9, <1>10, <1>11, <1>12, <1>13 DEF Reading

LEMMA Past ==
  ASSUME NEW a \in Nat, NEW b \in Nat, NEW j \in Nat \ {0}
  PROVE  ~ (a + b + j <= a) /\ ~ (a + b + j <= a + b) /\ (a + b + j) - a - b = j
  OBVIOUS

\* The receiver is at the end of a frame with all of its payload.
LEMMA GotPayloadBytes ==
  ASSUME WebSocketInv, BytesInv, GotPayload, NEW c, Reading(c)
  PROVE  /\ c < Len(frames) /\ c \in Nat
         /\ \A d \in {c + 1} : Reading(d)'
         /\ frame.FIN = frames[c + 1].FIN /\ frame.RSV = frames[c + 1].RSV
         /\ frame.OPC = frames[c + 1].OPC
         /\ Masked(buf, header.key) = frames[c + 1].context
<1> DEFINE f == frames[c + 1]
           base == Ahead(f) + 4 * f.MSK
           len == Len(f.context)
<1>1. /\ rpc = "payload" /\ want = 0 /\ rpc' = "head" /\ buf' = <<>>
      /\ UNCHANGED <<frames, starts, stream, rd>>
  BY DEF GotPayload, Await, sending
<1>2. /\ c < Len(frames) /\ rd = Start(c) + Ahead(f) + 4 * f.MSK + Len(buf)
      /\ frame.FIN = f.FIN /\ frame.RSV = f.RSV /\ frame.OPC = f.OPC
      /\ header.length = len /\ header.key \in KeysOf(f)
      /\ \A j \in 1 .. 4 * f.MSK : header.key[j] = stream[Start(c) + Ahead(f) + j]
      /\ \A j \in 1 .. Len(buf) : buf[j] = stream[rd - Len(buf) + j]
  BY <1>1 DEF Reading
<1>3. f \in Message /\ Start(c) \in Nat /\ c \in Nat /\ starts[c + 1] = Start(c)
  BY <1>2, Place
<1>4. /\ Ahead(f) \in Nat /\ f.MSK \in {0, 1} /\ len \in Nat /\ base \in Nat
      /\ FrameSize(f) = base + len /\ f.context \in Seq(Byte)
  <2>1. Ahead(f) \in Nat /\ f.MSK \in {0, 1} /\ len \in Nat /\ f.context \in Seq(Byte)
    BY <1>3, FrameParts DEF Message
  <2> HIDE DEF f
  <2> QED
    BY <2>1 DEF FrameSize
<1>5. Len(buf) = len /\ buf \in Seq(Byte)
  BY <1>1, <1>2, Stands DEF WebSocketInv, Receiving
<1> HIDE DEF f, len
<1>6. rd = Start(c) + FrameSize(f) /\ rd = Start(c) + base + len
  BY <1>2, <1>3, <1>4, <1>5, SMTT(30)
<1>7. /\ Start(c) + FrameSize(f) <= Start(c + 1)
      /\ Start(c + 1) <= Start(c) + FrameSize(f)
      /\ \E k \in KeysOf(f) : \A j \in 1 .. FrameSize(f) : stream[Start(c) + j] = Octet(f, k, j)
  <2>1. FrameSize(f) \in Nat /\ Start(c) + FrameSize(f) <= rd /\ FrameSize(f) <= FrameSize(frames[c + 1])
    BY <1>4, <1>6, Stands DEF f
  <2> QED
    BY <1>2, <2>1, BytesRead DEF f
<1>8. Start(c + 1) = Start(c) + FrameSize(f)
  <2>1. c + 1 \in 1 .. Len(frames) /\ Len(stream) \in Nat /\ starts \in Seq(Nat) /\ Len(starts) = Len(frames)
    BY <1>2, <1>3, Stands
  <2>2. Start(c + 1) \in Nat
    BY <2>1 DEF Start
  <2> QED
    BY <1>3, <1>4, <1>7, <2>2, SMTT(30)
<1>9. ASSUME NEW d \in {c + 1}
      PROVE  Reading(d)'
  <2>1. d \in 0 .. Len(frames)' /\ d > 0 /\ d = c + 1
    BY <1>1, <1>2, <1>3, Stands
  <2>2. Start(d)' = Start(d)
    BY ReceiverKeepsBytes DEF GotPayload
  <2>3. Start(d)' = starts'[d] + FrameSize(frames'[d])
    BY <1>1, <1>3, <1>8, <2>1, <2>2 DEF f
  <2>4. Len(buf') = 0
    BY <1>1
  <2>5. rd' = Start(d)' + Len(buf')
    BY <1>1, <1>3, <1>4, <1>6, <1>8, <2>1, <2>2, <2>4
  <2> QED
    BY <1>1, <2>1, <2>3, <2>4, <2>5 DEF Reading
<1>10. PICK k \in KeysOf(f) : \A j \in 1 .. FrameSize(f) : stream[Start(c) + j] = Octet(f, k, j)
  BY <1>7
<1>11. header.key = k /\ k \in [1 .. 4 -> Byte]
  <2>1. CASE f.MSK = 1
    <3>1. header.key \in [1 .. 4 -> Byte] /\ k \in [1 .. 4 -> Byte]
      BY <1>2, <2>1 DEF KeysOf
    <3>2. ASSUME NEW j \in 1 .. 4
          PROVE  header.key[j] = k[j]
      <4> DEFINE i == Ahead(f) + j
      <4>3. 4 * f.MSK = 4
        BY <2>1
      <4>4. FrameSize(f) = Ahead(f) + 4 + len
        BY <1>4, <4>3
      <4>5. ~ (i <= Ahead(f)) /\ i <= Ahead(f) + 4 /\ i - Ahead(f) = j /\ i \in Nat
        BY <1>4
      <4>6. Start(c) + Ahead(f) + j = Start(c) + i
        BY <1>3, <1>4
      <4> HIDE DEF i
      <4>7. i \in 1 .. FrameSize(f)
        BY <1>4, <4>4, <4>5
      <4>1. /\ ~ (i <= Ahead(f)) /\ i <= Ahead(f) + 4 * f.MSK /\ i - Ahead(f) = j
            /\ i \in 1 .. FrameSize(f) /\ j \in 1 .. 4 * f.MSK
            /\ Start(c) + Ahead(f) + j = Start(c) + i
        BY <4>3, <4>5, <4>6, <4>7
      <4>2. stream[Start(c) + i] = k[j]
        BY <1>10, <4>1, OctetIs
      <4> QED
        BY <1>2, <4>1, <4>2
    <3> QED
      BY <3>1, <3>2
  <2>2. CASE f.MSK = 0
    BY <1>2, <2>2, NoKeyType DEF KeysOf
  <2> QED
    BY <1>4, <2>1, <2>2
<1>12. ASSUME NEW j \in 1 .. len
       PROVE  buf[j] = Masked(f.context, k)[j]
  <2> DEFINE i == base + j
  <2>3. 4 * f.MSK \in Nat
    BY <1>4
  <2>4. ~ (i <= Ahead(f)) /\ ~ (i <= Ahead(f) + 4 * f.MSK) /\ i - Ahead(f) - 4 * f.MSK = j
    BY <1>4, <2>3, Past, SMTT(30)
  <2>5. i \in 1 .. base + len
    <3> HIDE DEF base
    <3> QED
      BY <1>4
  <2>1. /\ ~ (i <= Ahead(f)) /\ ~ (i <= Ahead(f) + 4 * f.MSK) /\ i - Ahead(f) - 4 * f.MSK = j
        /\ i \in 1 .. FrameSize(f)
    BY <1>4, <2>4, <2>5
  <2>2. rd - Len(buf) + j = Start(c) + i
    BY <1>3, <1>4, <1>5, <1>6, SMTT(30)
  <2> HIDE DEF i
  <2>6. stream[Start(c) + i] = Masked(f.context, k)[j]
    BY <1>10, <2>1, OctetIs
  <2> QED
    BY <1>2, <1>5, <2>2, <2>6
<1>13. buf = Masked(f.context, k)
  <2>1. Masked(f.context, k) \in Seq(Byte) /\ Len(Masked(f.context, k)) = len
    BY <1>4, <1>11, MaskReadBack DEF len
  <2> QED
    BY <1>5, <1>12, <2>1, SeqEqual
<1>14. Masked(buf, header.key) = f.context
  BY <1>4, <1>11, <1>13, MaskReadBack
<1> QED
  BY <1>2, <1>3, <1>9, <1>14 DEF f

\* The frames begun are of the messages the threads are to send.
LEMMA SizedSender ==
  ASSUME WebSocketInv, NEW s \in Senders, Sender(s),
         \A t \in Senders : todo[t] \in Seq(Seq(Sized)), frames \in Seq(Sized)
  PROVE  (\A t \in Senders : todo'[t] \in Seq(Seq(Sized))) /\ frames' \in Seq(Sized)
<1> DEFINE S == Seq(Sized)
<1> HIDE DEF S
<1>0. \A t \in Senders : todo[t] \in Seq(S)
  BY DEF S
<1>1. todo \in [Senders -> Seq(Seq(Message))]
  BY DEF WebSocketInv, TypeOK, SendingType
<1>2. CASE todo' = todo /\ frames' = frames
  BY <1>2
<1>3. CASE todo' = [todo EXCEPT ![s] = <<>>] /\ frames' = frames
  BY <1>1, <1>3
<1>4. CASE Unlock(s)
  <2>1. todo[s] # <<>>
    BY <1>4 DEF Unlock, WebSocketInv, Sending
  <2>2. Tail(todo[s]) \in Seq(S)
    BY <1>0, <2>1
  <2>3. todo' = [todo EXCEPT ![s] = Tail(todo[s])] /\ frames' = frames
    BY <1>4 DEF Unlock
  <2> QED
    BY <1>1, <2>2, <2>3 DEF S
<1>5. CASE Sent(s)
  <2>1. todo[s] # <<>> /\ Head(todo[s]) # <<>>
    BY <1>5 DEF Sent, WebSocketInv, Sending, Midway
  <2>2. Head(todo[s]) \in S /\ Tail(todo[s]) \in Seq(S)
    BY <1>0, <2>1
  <2>3. Tail(Head(todo[s])) \in S
    BY <2>1, <2>2 DEF S
  <2>4. <<Tail(Head(todo[s]))>> \o Tail(todo[s]) \in Seq(S)
    BY <2>2, <2>3
  <2>5. todo' = [todo EXCEPT ![s] = <<Tail(Head(todo[s]))>> \o Tail(todo[s])] /\ frames' = frames
    BY <1>5 DEF Sent
  <2> QED
    BY <1>1, <2>4, <2>5 DEF S
<1>6. CASE Begin(s) /\ opening
  <2>1. todo[s] # <<>> /\ Head(todo[s]) # <<>>
    BY <1>6 DEF Begin, WebSocketInv, Sending
  <2>2. Head(todo[s]) \in S
    BY <1>0, <2>1
  <2>3. Current(s) \in Sized
    BY <2>1, <2>2 DEF S, Current
  <2>4. frames' = Append(frames, Current(s)) /\ todo' = todo
    BY <1>6 DEF Begin
  <2> QED
    BY <2>3, <2>4
<1> QED
  BY <1>2, <1>3, <1>4, <1>5, <1>6
     DEF Sender, Lock, Begin, Write, WriteFails, Throw, SendMask, SendPayload

\* What the threads are to send are such frames.
SizedScripts == Scripts \subseteq [Senders -> Seq(Seq(Sized))]

LEMMA SyncInitially ==
  ASSUME SizedScripts, Init
  PROVE  SyncInv
<1>1. WebSocketInv
  BY Initially
<1>2. frames = <<>> /\ todo \in [Senders -> Seq(Seq(Sized))]
  BY DEF Init, SizedScripts
<1>3. Len(frames) = 0 /\ DOMAIN frames = {} /\ frames \in Seq(Sized)
  BY <1>2
<1>4. \A s \in Senders : ~ Midway(s)
  BY DEF Init, Midway
<1>5. BytesInv
  BY <1>3, <1>4 DEF BytesInv, Underway
<1>6. Start(0) = 0
  BY <1>3 DEF Init, Start
<1>7. Len(buf) = 0 /\ rpc = "head" /\ rd = 0
  BY DEF Init
<1>8. Reading(0)
  BY <1>3, <1>6, <1>7 DEF Reading
<1> QED
  BY <1>1, <1>2, <1>3, <1>5, <1>8 DEF SyncInv

\* The receiver goes on in the same frame, or to the next.
LEMMA ReceiverSync ==
  ASSUME WebSocketInv, BytesInv, frames \in Seq(Sized), Receiver, NEW c, Reading(c)
  PROVE  /\ ~ GotPayload => Reading(c)'
         /\ GotPayload => \A d \in {c + 1} : Reading(d)' /\ d \in 0 .. Len(frames)
<1>1. CASE GotPayload
  <2>1. c + 1 \in 0 .. Len(frames)
    BY <1>1, GotPayloadBytes, Stands
  <2> QED
    BY <1>1, <2>1, GotPayloadBytes
<1>2. CASE ~ GotPayload
  BY <1>2, ReadBytes, ReadFailsBytes, GotHeadBytes, GotSizeBytes, GotWideBytes, GotKeyBytes
     DEF Receiver
<1> QED
  BY <1>1, <1>2

LEMMA ReceiverRest ==
  ASSUME Receiver
  PROVE  UNCHANGED <<sending, stream, link, sock>>
  BY DEF Receiver, Read, ReadFails, GotHead, GotSize, GotWide, GotKey, GotPayload

LEMMA SyncStep ==
  ASSUME SyncInv, WebSocketInv', [Next]_vars
  PROVE  SyncInv'
<1>1. /\ WebSocketInv /\ BytesInv /\ frames \in Seq(Sized)
      /\ \A s \in Senders : todo[s] \in Seq(Seq(Sized))
  BY DEF SyncInv
<1>2. PICK c \in 0 .. Len(frames) : Reading(c)
  BY DEF SyncInv
<1>3. ASSUME (\E s \in Senders : Sender(s)) \/ Reset \/ Close
      PROVE  SyncInv'
  <2>1. BytesInv' /\ Reading(c)'
    BY <1>1, <1>2, <1>3, SenderBytes
  <2>2. (\A s \in Senders : todo'[s] \in Seq(Seq(Sized))) /\ frames' \in Seq(Sized)
    <3>1. CASE \E s \in Senders : Sender(s)
      BY <1>1, <3>1, SizedSender
    <3>2. CASE Reset \/ Close
      BY <1>1, <3>2 DEF Reset, Close, sending
    <3> QED
      BY <1>3, <3>1, <3>2
  <2>3. c \in 0 .. Len(frames)'
    BY <2>1 DEF Reading
  <2> QED
    BY <2>1, <2>2, <2>3 DEF SyncInv
<1>4. ASSUME Receiver
      PROVE  SyncInv'
  <2>1. UNCHANGED <<sending, stream, sock>>
    BY <1>4, ReceiverRest
  <2>2. UNCHANGED <<todo, frames>>
    BY <2>1 DEF sending
  <2>3. BytesInv'
    BY <1>1, <2>1, ReceiverKeepsBytes
  <2>4. \E d \in 0 .. Len(frames) : Reading(d)'
    BY <1>1, <1>2, <1>4, ReceiverSync
  <2> QED
    BY <1>1, <2>2, <2>3, <2>4 DEF SyncInv
<1>5. ASSUME UNCHANGED vars
      PROVE  SyncInv'
  <2>1. UNCHANGED <<sending, stream, sock, receiving>> /\ UNCHANGED <<todo, frames>>
    BY <1>5 DEF vars, sending
  <2>2. BytesInv' /\ \A d : Start(d)' = Start(d)
    BY <1>1, <2>1, ReceiverKeepsBytes
  <2>3. Reading(c)'
    BY <1>2, <2>1, <2>2 DEF Reading, sending, receiving
  <2> QED
    BY <1>1, <1>2, <2>1, <2>2, <2>3 DEF SyncInv
<1> QED
  BY <1>3, <1>4, <1>5 DEF Next

LEMMA SyncInvariance ==
  ASSUME SizedScripts
  PROVE  Spec => []SyncInv
<1>1. Init => SyncInv
  BY SyncInitially
<1>2. SyncInv /\ WebSocketInv' /\ [Next]_vars => SyncInv'
  BY SyncStep
<1>3. Spec => []WebSocketInv
  BY WebSocketInvariance
<1> QED
  BY <1>1, <1>2, <1>3, PTL DEF Spec

\* The receiver never loses the frame boundaries: each frame it starts to read
\* begins where frame() began to write one.
THEOREM FrameSyncCorrect ==
  ASSUME SizedScripts
  PROVE  Spec => []FrameSync
<1>1. SyncInv => FrameSync
  <2> SUFFICES ASSUME SyncInv, rpc = "head", buf = <<>>
               PROVE  \/ \E i \in DOMAIN starts : starts[i] = rd
                      \/ (rd = Len(stream) /\ \A s \in Senders : Left(s) = 0)
    BY DEF FrameSync
  <2>1. PICK c \in 0 .. Len(frames) : Reading(c)
    BY DEF SyncInv
  <2>2. WebSocketInv /\ BytesInv
    BY DEF SyncInv
  <2>3. rd = Start(c) /\ Start(c) \in Nat /\ c \in Nat
    <3>1. rd = Start(c) + Len(buf) /\ Len(buf) = 0
      BY <2>1 DEF Reading
    <3> QED
      BY <2>1, <2>2, <3>1, Place
  <2>4. CASE c < Len(frames)
    BY <2>1, <2>2, <2>3, <2>4, Place, Stands, SMTT(30)
  <2>5. CASE c = Len(frames)
    <3>1. rd = Len(stream)
      BY <2>3, <2>5 DEF Start
    <3>2. ASSUME NEW s \in Senders
          PROVE  Left(s) = 0
      <4>1. CASE Midway(s)
        <5>1. /\ c > 0 /\ Underway(s) /\ frames[c] \in Message /\ starts[c] \in Nat
              /\ Current(s) = frames[c] /\ Len(out[s]) \in Nat /\ Len(stream) \in Nat
          BY <2>2, <2>5, <4>1, Within2
        <5>2. Len(stream) = starts[c] + FrameSize(frames[c])
          BY <2>1, <2>3, <3>1, <5>1 DEF Reading
        <5>3. Len(stream) - starts[c] + Left(s) = FrameSize(frames[c])
          BY <2>5, <4>1, <5>1 DEF Underway
        <5>4. frames[c].MSK \in {0, 1} /\ Len(frames[c].context) \in Nat /\ FrameSize(frames[c]) \in Nat
          BY <5>1, FrameParts
        <5>5. Left(s) \in Nat
          BY <5>1, <5>4, SMTT(30) DEF Left
        <5> QED
          BY <5>1, <5>2, <5>3, <5>4, <5>5
      <4>2. CASE ~ Midway(s)
        <5>1. out[s] = <<>>
          BY <2>2, <4>2 DEF WebSocketInv, Sending
        <5> QED
          BY <4>2, <5>1 DEF Left, Midway
      <4> QED
        BY <4>1, <4>2
    <3> QED
      BY <3>1, <3>2
  <2> QED
    BY <2>1, <2>4, <2>5, Stands, <2>2
<1> QED
  BY <1>1, SyncInvariance, PTL

-------------------------------------------------------------------------------
(***************************************************************************)
(* The messages of a sequence of frames.                                   *)
(***************************************************************************)
LEMMA GatherSteps ==
  ASSUME NEW fs, NEW n \in Nat
  PROVE  \E r : /\ r = [i \in 0 .. n |-> IF i = 0 THEN Nothing ELSE Gather(r[i - 1], fs[i])]
                /\ Gathered(fs, n) = r[n]
<1> DEFINE Is(r, m) == r = [i \in 0 .. m |-> IF i = 0 THEN Nothing ELSE Gather(r[i - 1], fs[i])]
           T == {m \in Nat : \E r : Is(r, m)}
<1>1. 0 \in T
  <2>1. Is([i \in 0 .. 0 |-> Nothing], 0)
    OBVIOUS
  <2> QED
    BY <2>1
<1>2. ASSUME NEW m \in Nat, m \in T
      PROVE  m + 1 \in T
  <2> PICK r : Is(r, m)
    BY <1>2
  <2> DEFINE s == [i \in 0 .. m + 1 |-> IF i = m + 1 THEN Gather(r[m], fs[m + 1]) ELSE r[i]]
  <2>1. \A i \in 0 .. m + 1 : s[i] = IF i = 0 THEN Nothing ELSE Gather(s[i - 1], fs[i])
    <3> SUFFICES ASSUME NEW i \in 0 .. m + 1
                 PROVE  s[i] = IF i = 0 THEN Nothing ELSE Gather(s[i - 1], fs[i])
      OBVIOUS
    <3>1. CASE i = 0
      BY <3>1
    <3>2. CASE i \in 1 .. m
      <4>1. s[i] = r[i] /\ s[i - 1] = r[i - 1]
        BY <3>2
      <4>2. r[i] = Gather(r[i - 1], fs[i])
        BY <3>2
      <4> QED
        BY <3>2, <4>1, <4>2
    <3>3. CASE i = m + 1
      BY <3>3
    <3> QED
      BY <3>1, <3>2, <3>3
  <2>2. DOMAIN s = 0 .. m + 1 /\ s = [i \in 0 .. m + 1 |-> s[i]]
    OBVIOUS
  <2> HIDE DEF s
  <2>3. Is(s, m + 1)
    BY <2>1, <2>2
  <2> QED
    BY <2>3
<1> HIDE DEF T
<1>3. n \in T
  BY <1>1, <1>2, NumberInduction
<1>4. \E r : Is(r, n)
  BY <1>3 DEF T
<1> QED
  BY <1>4 DEF Gathered

\* One frame more.
LEMMA GatheredIs ==
  ASSUME NEW fs
  PROVE  /\ Gathered(fs, 0) = Nothing
         /\ \A n \in Nat : Gathered(fs, n + 1) = Gather(Gathered(fs, n), fs[n + 1])
<1>0. ASSUME NEW n \in Nat
      PROVE  \E r : r[0] = Nothing /\ Gathered(fs, n) = r[n]
  <2>1. PICK r : /\ r = [i \in 0 .. n |-> IF i = 0 THEN Nothing ELSE Gather(r[i - 1], fs[i])]
                 /\ Gathered(fs, n) = r[n]
    BY GatherSteps
  <2> QED
    BY <2>1
<1>1. Gathered(fs, 0) = Nothing
  BY <1>0
<1>2. ASSUME NEW n \in Nat
      PROVE  Gathered(fs, n + 1) = Gather(Gathered(fs, n), fs[n + 1])
  <2>1. PICK r : /\ r = [i \in 0 .. n |-> IF i = 0 THEN Nothing ELSE Gather(r[i - 1], fs[i])]
                 /\ Gathered(fs, n) = r[n]
    BY GatherSteps
  <2> DEFINE k == n + 1
  <2>0. k \in Nat
    OBVIOUS
  <2> HIDE DEF k
  <2>10. PICK s : /\ s = [i \in 0 .. k |-> IF i = 0 THEN Nothing ELSE Gather(s[i - 1], fs[i])]
                  /\ Gathered(fs, k) = s[k]
    BY <2>0, GatherSteps
  <2>2. /\ s = [i \in 0 .. n + 1 |-> IF i = 0 THEN Nothing ELSE Gather(s[i - 1], fs[i])]
        /\ Gathered(fs, n + 1) = s[n + 1]
    BY <2>10 DEF k
  <2> DEFINE T == {i \in Nat : i <= n => r[i] = s[i]}
  <2>3. 0 \in T
    BY <2>1, <2>2
  <2>4. ASSUME NEW i \in Nat, i \in T
        PROVE  i + 1 \in T
    <3> SUFFICES ASSUME i + 1 <= n PROVE r[i + 1] = s[i + 1]
      OBVIOUS
    <3>1. i + 1 \in 0 .. n /\ i + 1 \in 0 .. n + 1 /\ i + 1 # 0 /\ (i + 1) - 1 = i /\ r[i] = s[i]
      BY <2>4
    <3>2. r[i + 1] = Gather(r[i], fs[i + 1])
      BY <2>1, <3>1
    <3>3. s[i + 1] = Gather(s[i], fs[i + 1])
      BY <2>2, <3>1
    <3> QED
      BY <3>1, <3>2, <3>3
  <2> HIDE DEF T
  <2>5. n \in T
    BY <2>3, <2>4, NumberInduction
  <2>6. r[n] = s[n]
    BY <2>5 DEF T
  <2>7. n + 1 \in 0 .. n + 1 /\ n + 1 # 0 /\ (n + 1) - 1 = n
    OBVIOUS
  <2>8. s[n + 1] = Gather(s[n], fs[n + 1])
    BY <2>2, <2>7
  <2> QED
    BY <2>1, <2>2, <2>6, <2>8
<1> QED
  BY <1>1, <1>2

\* The frames after the n-th do not matter.
LEMMA GatheredSame ==
  ASSUME NEW fs, NEW gs, NEW n \in Nat, \A i \in 1 .. n : fs[i] = gs[i]
  PROVE  Gathered(fs, n) = Gathered(gs, n)
<1> DEFINE T == {i \in Nat : i <= n => Gathered(fs, i) = Gathered(gs, i)}
<1>1. 0 \in T
  BY GatheredIs
<1>2. ASSUME NEW i \in Nat, i \in T
      PROVE  i + 1 \in T
  <2> SUFFICES ASSUME i + 1 <= n PROVE Gathered(fs, i + 1) = Gathered(gs, i + 1)
    OBVIOUS
  <2>1. Gathered(fs, i) = Gathered(gs, i) /\ fs[i + 1] = gs[i + 1]
    BY <1>2
  <2>2. /\ Gathered(fs, i + 1) = Gather(Gathered(fs, i), fs[i + 1])
        /\ Gathered(gs, i + 1) = Gather(Gathered(gs, i), gs[i + 1])
    BY GatheredIs
  <2> QED
    BY <2>1, <2>2
<1> HIDE DEF T
<1>3. n \in T
  BY <1>1, <1>2, NumberInduction
<1> QED
  BY <1>3 DEF T

\* What Gather makes of a frame, in the three cases.
Fragment == [RSV : 0 .. 7, OPC : 0 .. 15, context : Seq(Byte)]
Gathering(m) ==
  /\ m.all \in Seq(Received) /\ m.open \in BOOLEAN
  /\ m = [all |-> m.all, part |-> m.part, open |-> m.open]
  /\ m.open => m.part \in Fragment
Joint(m, f) ==
  IF m.open THEN [m.part EXCEPT !.context = @ \o f.context] ELSE Content(f)

LEMMA JointType ==
  ASSUME NEW m, Gathering(m), NEW f \in Message
  PROVE  Joint(m, f) \in Fragment /\ Content(f) \in Fragment
<1>1. Content(f) \in Fragment
  BY DEF Content, Fragment, Message
<1>2. ASSUME m.open
      PROVE  Joint(m, f) \in Fragment
  <2>1. m.part \in Fragment /\ f.context \in Seq(Byte)
    BY <1>2 DEF Gathering, Message
  <2>2. m.part.context \in Seq(Byte)
    BY <2>1 DEF Fragment
  <2>3. m.part.context \o f.context \in Seq(Byte)
    BY <2>1, <2>2
  <2> DEFINE q == m.part.context \o f.context
  <2>4. Joint(m, f) = [m.part EXCEPT !.context = q]
    BY <1>2 DEF Joint
  <2> HIDE DEF q
  <2> QED
    BY <2>1, <2>3, <2>4 DEF Fragment, q
<1> QED
  BY <1>1, <1>2 DEF Joint

LEMMA FragmentReceived == Fragment \subseteq Received
  BY DEF Fragment, Received

LEMMA GatherCases ==
  ASSUME NEW m, Gathering(m), NEW f \in Message
  PROVE  /\ f.OPC >= 8 =>
              Gather(m, f) = [all |-> Append(m.all, Content(f)), part |-> m.part, open |-> m.open]
         /\ f.OPC < 8 /\ f.FIN = 1 =>
              Gather(m, f) = [all |-> Append(m.all, Joint(m, f)), part |-> Fresh, open |-> FALSE]
         /\ f.OPC < 8 /\ f.FIN # 1 =>
              Gather(m, f) = [all |-> m.all, part |-> Joint(m, f), open |-> TRUE]
<1>1. f.OPC >= 8 <=> ~ (f.OPC < 8)
  BY DEF Message
<1>2. ASSUME f.OPC >= 8
      PROVE  Gather(m, f) = [all |-> Append(m.all, Content(f)), part |-> m.part, open |-> m.open]
  <2> DEFINE a == m.all
             k == Append(a, Content(f))
             p == m.part
             o == m.open
  <2>1. Gather(m, f) = [m EXCEPT !.all = k]
    BY <1>1, <1>2 DEF Gather
  <2>2. m = [all |-> a, part |-> p, open |-> o]
    BY DEF Gathering
  <2> HIDE DEF a, k, p, o
  <2>3. [m EXCEPT !.all = k] = [all |-> k, part |-> p, open |-> o]
    BY <2>2
  <2> QED
    BY <2>1, <2>3 DEF a, k, p, o
<1>3. ASSUME f.OPC < 8, f.FIN = 1
      PROVE  Gather(m, f) = [all |-> Append(m.all, Joint(m, f)), part |-> Fresh, open |-> FALSE]
  BY <1>1, <1>3 DEF Gather, Joint
<1>4. ASSUME f.OPC < 8, f.FIN # 1
      PROVE  Gather(m, f) = [all |-> m.all, part |-> Joint(m, f), open |-> TRUE]
  BY <1>1, <1>4 DEF Gather, Joint
<1> QED
  BY <1>2, <1>3, <1>4

LEMMA GatherType ==
  ASSUME NEW m, Gathering(m), NEW f \in Message
  PROVE  /\ Gathering(Gather(m, f))
         /\ \/ Gather(m, f).all = m.all
            \/ \E x \in Received : Gather(m, f).all = Append(m.all, x)
<1>1. Joint(m, f) \in Fragment /\ Content(f) \in Fragment /\ f.OPC \in 0 .. 15 /\ f.FIN \in {0, 1}
  BY JointType DEF Message
<1>2. Joint(m, f) \in Received /\ Content(f) \in Received
  BY <1>1, FragmentReceived
<1>3. m.all \in Seq(Received) /\ m.open \in BOOLEAN /\ (m.open => m.part \in Fragment)
  BY DEF Gathering
<1>4. Append(m.all, Joint(m, f)) \in Seq(Received) /\ Append(m.all, Content(f)) \in Seq(Received)
  BY <1>2, <1>3
<1>5. CASE f.OPC >= 8
  <2>1. Gather(m, f) = [all |-> Append(m.all, Content(f)), part |-> m.part, open |-> m.open]
    BY <1>5, GatherCases
  <2> QED
    BY <1>2, <1>3, <1>4, <2>1 DEF Gathering
<1>6. CASE f.OPC < 8 /\ f.FIN = 1
  <2>1. Gather(m, f) = [all |-> Append(m.all, Joint(m, f)), part |-> Fresh, open |-> FALSE]
    BY <1>6, GatherCases
  <2> QED
    BY <1>2, <1>4, <2>1 DEF Gathering
<1>7. CASE f.OPC < 8 /\ f.FIN # 1
  <2>1. Gather(m, f) = [all |-> m.all, part |-> Joint(m, f), open |-> TRUE]
    BY <1>7, GatherCases
  <2> QED
    BY <1>1, <1>3, <2>1 DEF Gathering
<1> QED
  BY <1>1, <1>5, <1>6, <1>7

LEMMA GatheredType ==
  ASSUME NEW fs \in Seq(Message), NEW n \in 0 .. Len(fs)
  PROVE  Gathering(Gathered(fs, n))
<1> DEFINE T == {i \in Nat : i <= Len(fs) => Gathering(Gathered(fs, i))}
<1>1. 0 \in T
  <2>1. Gathering(Nothing)
    BY DEF Gathering, Nothing
  <2> QED
    BY <2>1, GatheredIs
<1>2. ASSUME NEW i \in Nat, i \in T
      PROVE  i + 1 \in T
  <2> SUFFICES ASSUME i + 1 <= Len(fs) PROVE Gathering(Gathered(fs, i + 1))
    OBVIOUS
  <2>1. Gathering(Gathered(fs, i))
    BY <1>2
  <2>2. fs[i + 1] \in Message
    OBVIOUS
  <2> QED
    BY <2>1, <2>2, GatherType, GatheredIs
<1> HIDE DEF T
<1>3. n \in T
  BY <1>1, <1>2, NumberInduction
<1> QED
  BY <1>3 DEF T

\* The messages of some of the frames come first among those of all.
Leads(a, b) == Len(a) <= Len(b) /\ \A i \in 1 .. Len(a) : b[i] = a[i]

LEMMA GatheredLeads ==
  ASSUME NEW fs \in Seq(Message), NEW c \in 0 .. Len(fs), NEW n \in c .. Len(fs)
  PROVE  Leads(Gathered(fs, c).all, Gathered(fs, n).all)
<1> DEFINE T == {i \in Nat : c <= i /\ i <= Len(fs) => Leads(Gathered(fs, c).all, Gathered(fs, i).all)}
<1>0. Gathered(fs, c).all \in Seq(Received)
  BY GatheredType DEF Gathering
<1>1. 0 \in T
  <2>1. c <= 0 => c = 0
    OBVIOUS
  <2> QED
    BY <1>0, <2>1 DEF Leads
<1>2. ASSUME NEW i \in Nat, i \in T
      PROVE  i + 1 \in T
  <2> SUFFICES ASSUME c <= i + 1, i + 1 <= Len(fs)
               PROVE  Leads(Gathered(fs, c).all, Gathered(fs, i + 1).all)
    OBVIOUS
  <2>1. CASE c = i + 1
    BY <1>0, <2>1 DEF Leads
  <2>2. CASE c # i + 1
    <3>1. Leads(Gathered(fs, c).all, Gathered(fs, i).all) /\ i \in 0 .. Len(fs) /\ fs[i + 1] \in Message
      BY <1>2, <2>2
    <3> DEFINE a == Gathered(fs, c).all
               b == Gathered(fs, i).all
               d == Gathered(fs, i + 1).all
    <3>2. Gathering(Gathered(fs, i))
      BY <3>1, GatheredType
    <3>3. d = b \/ \E x \in Received : d = Append(b, x)
      BY <3>1, <3>2, GatherType, GatheredIs, ZenonT(60)
    <3>4. b \in Seq(Received) /\ a \in Seq(Received) /\ Leads(a, b)
      BY <1>0, <3>1, <3>2 DEF Gathering
    <3> HIDE DEF a, b, d
    <3>5. Leads(a, d)
      <4>1. CASE d = b
        BY <3>4, <4>1
      <4>2. ASSUME NEW x \in Received, d = Append(b, x)
            PROVE  Leads(a, d)
        BY <3>4, <4>2 DEF Leads
      <4> QED
        BY <3>3, <4>1, <4>2
    <3> QED
      BY <3>5 DEF a, d
  <2> QED
    BY <2>1, <2>2
<1> HIDE DEF T
<1>3. n \in T
  BY <1>1, <1>2, NumberInduction
<1> QED
  BY <1>3 DEF T

-------------------------------------------------------------------------------
(***************************************************************************)
(* The channel.                                                            *)
(***************************************************************************)
\* The rest of a message; a message of more than one frame is data.
LEMMA Rest ==
  ASSUME NEW fs \in Unmixed, fs # <<>>
  PROVE  /\ Tail(fs) \in Unmixed
         /\ Head(fs).OPC >= 8 => Head(fs).FIN = 1
         /\ Head(fs).FIN = 0 =>
              /\ \A i \in DOMAIN fs : fs[i].OPC < 8
              /\ Tail(fs) # <<>> /\ \A i \in DOMAIN Tail(fs) : Tail(fs)[i].OPC < 8
<1>1. fs \in Seq(Message) /\ Fragmented(fs)
  BY DEF Unmixed
<1>2. /\ Tail(fs) \in Seq(Message) /\ Len(Tail(fs)) = Len(fs) - 1 /\ Len(fs) \in Nat \ {0}
      /\ DOMAIN Tail(fs) = 1 .. Len(fs) - 1 /\ DOMAIN fs = 1 .. Len(fs) /\ Head(fs) = fs[1]
      /\ \A i \in 1 .. Len(fs) - 1 : Tail(fs)[i] = fs[i + 1]
  BY <1>1
<1>3. \A i \in 1 .. Len(fs) : fs[i] \in Message
  BY <1>1
<1>4. \A i \in 1 .. Len(fs) : fs[i].OPC \in 0 .. 15 /\ fs[i].FIN \in {0, 1}
  BY <1>3 DEF Message
<1>5. \A i \in 1 .. Len(fs) : (fs[i].FIN = 1 <=> i = Len(fs)) /\ (fs[i].OPC >= 8 => Len(fs) = 1)
  BY <1>1, <1>2 DEF Fragmented
<1> DEFINE n == Len(fs)
           t == Tail(fs)
<1>6. /\ n \in Nat \ {0} /\ 1 \in 1 .. n /\ Len(t) = n - 1 /\ Head(fs) = fs[1]
      /\ \A i \in 1 .. n - 1 : t[i] = fs[i + 1]
      /\ t \in Seq(Message) /\ DOMAIN t = 1 .. n - 1 /\ DOMAIN fs = 1 .. n
  BY <1>2
<1>7. \A i \in 1 .. n : /\ fs[i].OPC \in 0 .. 15 /\ (fs[i].FIN = 1 <=> i = n)
                      /\ (fs[i].OPC >= 8 => n = 1)
  BY <1>4, <1>5
<1> HIDE DEF n, t
<1>8. ASSUME NEW i \in 1 .. n - 1
      PROVE  (t[i].FIN = 1 <=> i = Len(t)) /\ (t[i].OPC >= 8 => Len(t) = 1)
  <2>1. i + 1 \in 1 .. n /\ t[i] = fs[i + 1] /\ n # 1 /\ (i + 1 = n <=> i = Len(t))
    BY <1>6
  <2> QED
    BY <1>7, <2>1
<1>9. t \in Unmixed
  BY <1>6, <1>8 DEF Unmixed, Fragmented
<1>10. Head(fs).OPC >= 8 => Head(fs).FIN = 1
  BY <1>6, <1>7
<1>11. ASSUME Head(fs).FIN = 0
       PROVE  /\ \A i \in DOMAIN fs : fs[i].OPC < 8
              /\ t # <<>> /\ \A i \in DOMAIN t : t[i].OPC < 8
  <2>1. n # 1
    BY <1>6, <1>7, <1>11
  <2>2. \A i \in 1 .. n : fs[i].OPC < 8
    BY <1>7, <2>1
  <2>3. Len(t) # 0
    BY <1>6, <2>1
  <2>4. ASSUME NEW i \in 1 .. n - 1
        PROVE  t[i].OPC < 8
    <3>1. i + 1 \in 1 .. n /\ t[i] = fs[i + 1]
      BY <1>6
    <3> QED
      BY <2>2, <3>1
  <2> QED
    BY <1>6, <2>2, <2>3, <2>4
<1> QED
  BY <1>9, <1>10, <1>11 DEF t

LEMMA UnmixedTodo ==
  ASSUME WebSocketInv, NEW s \in Senders, spc[s] # "idle", todo[s] \in Seq(Unmixed)
  PROVE  /\ Head(todo[s]) \in Unmixed /\ Tail(todo[s]) \in Seq(Unmixed) /\ todo[s] # <<>>
         /\ Head(todo[s]) # <<>> => <<Tail(Head(todo[s]))>> \o Tail(todo[s]) \in Seq(Unmixed)
<1> DEFINE U == Unmixed
<1> HIDE DEF U
<1>1. todo[s] \in Seq(U) /\ todo[s] # <<>>
  BY DEF U, WebSocketInv, Sending
<1>2. Head(todo[s]) \in U /\ Tail(todo[s]) \in Seq(U)
  BY <1>1
<1>3. ASSUME Head(todo[s]) # <<>>
      PROVE  <<Tail(Head(todo[s]))>> \o Tail(todo[s]) \in Seq(U)
  <2>1. Tail(Head(todo[s])) \in U
    BY <1>2, <1>3, Rest DEF U
  <2> QED
    BY <1>2, <2>1
<1> QED
  BY <1>1, <1>2, <1>3 DEF U

LEMMA ApartTodo ==
  ASSUME WebSocketInv, NEW s \in Senders, Sender(s),
         \A t \in Senders : todo[t] \in Seq(Unmixed)
  PROVE  \A t \in Senders : todo'[t] \in Seq(Unmixed)
<1>1. todo \in [Senders -> Seq(Seq(Message))]
  BY DEF WebSocketInv, TypeOK, SendingType
<1>2. CASE todo' = todo
  BY <1>2
<1>3. CASE todo' = [todo EXCEPT ![s] = <<>>]
  BY <1>1, <1>3
<1>4. CASE Unlock(s)
  BY <1>1, <1>4, UnmixedTodo DEF Unlock
<1>5. CASE Sent(s)
  <2>1. spc[s] # "idle" /\ Head(todo[s]) # <<>>
    BY <1>5 DEF Sent, WebSocketInv, Sending, Midway
  <2> QED
    BY <1>1, <1>5, <2>1, UnmixedTodo DEF Sent
<1> QED
  BY <1>2, <1>3, <1>4, <1>5
     DEF Sender, Lock, Begin, Write, WriteFails, Throw, SendMask, SendPayload

LEMMA BeginApart ==
  ASSUME WebSocketInv, Apart, NEW s \in Senders, Begin(s)
  PROVE  Apart'
<1>1. spc[s] = "send" /\ Head(todo[s]) # <<>> /\ UNCHANGED <<stream, link, sock, receiving>>
  BY DEF Begin
<1>2. \A t \in Senders : todo'[t] \in Seq(Unmixed)
  BY ApartTodo DEF Apart, Sender
<1>3. frames \in Seq(Message) /\ Len(frames) \in Nat /\ DOMAIN frames = 1 .. Len(frames)
  BY Stands
<1>4. CASE ~ opening
  <2>1. UNCHANGED <<opening, frames, starts, stream, sock>>
    BY <1>1, <1>4 DEF Begin, Throw
  <2>2. frames # <<>> /\ frames[Len(frames)].OPC = OPC_CLOSE
    BY <1>4 DEF Apart
  <2>3. frames[Len(frames)].FIN = 1
    <3>1. Len(frames) \in DOMAIN frames
      BY <1>3, <2>2
    <3>2. frames[Len(frames)].OPC >= 8
      BY <2>2 DEF OPC_CLOSE
    <3> QED
      BY <3>1, <3>2 DEF Apart
  <2> QED
    BY <1>2, <2>1, <2>2, <2>3 DEF Apart
<1>5. CASE opening
  <2> DEFINE n == Len(frames)
             g == Current(s)
  <2>1. /\ frames' = Append(frames, g) /\ starts' = Append(starts, Len(stream))
        /\ spc' = [spc EXCEPT ![s] = "prefix"]
        /\ UNCHANGED <<todo, opening>>
    BY <1>5 DEF Begin
  <2>2. /\ g \in Message /\ spc \in [Senders -> {"idle", "send", "prefix", "mask", "payload"}]
        /\ starts \in Seq(Nat) /\ Len(starts) = n /\ Len(stream) \in Nat
    BY <1>1, CurrentType, Stands DEF WebSocketInv, TypeOK, SendingType
  <2>3. Head(todo[s]) \in Unmixed /\ g = Head(Head(todo[s]))
    BY <1>1, UnmixedTodo DEF Apart, Current
  <2>4. g.OPC \in 0 .. 15 /\ g.FIN \in {0, 1}
    BY <2>2 DEF Message
  <2>5. n > 0 /\ sock = "open" /\ frames[n].FIN = 0 => \A i \in DOMAIN Head(todo[s]) : Head(todo[s])[i].OPC < 8
    <3> SUFFICES ASSUME n > 0, sock = "open", frames[n].FIN = 0
                 PROVE  \A i \in DOMAIN Head(todo[s]) : Head(todo[s])[i].OPC < 8
      OBVIOUS
    <3>1. frames # <<>>
      BY <1>3
    <3>2. PICK t \in Senders : /\ spc[t] # "idle" /\ Head(todo[t]) # <<>>
                               /\ \A i \in DOMAIN Head(todo[t]) : Head(todo[t])[i].OPC < 8
      BY <3>1 DEF Apart
    <3>3. t = s
      BY <1>1, <3>2, Alone
    <3> QED
      BY <3>2, <3>3
  <2>6. g.OPC >= 8 => ~ (n > 0 /\ sock = "open" /\ frames[n].FIN = 0)
    <3>1. Head(todo[s]) \in Seq(Message)
      BY <2>3 DEF Unmixed
    <3>2. 1 \in DOMAIN Head(todo[s]) /\ g = Head(todo[s])[1]
      BY <1>1, <2>3, <3>1
    <3>3. (\A i \in DOMAIN Head(todo[s]) : Head(todo[s])[i].OPC < 8) => g.OPC < 8
      BY <3>2
    <3> QED
      BY <2>4, <2>5, <3>3
  <2>7. g.OPC >= 8 => g.FIN = 1
    BY <1>1, <2>3, Rest
  <2> HIDE DEF g, n
  <2>8. /\ Len(frames') = n + 1 /\ frames'[n + 1] = g /\ \A i \in 1 .. n : frames'[i] = frames[i]
        /\ DOMAIN frames' = 1 .. n + 1 /\ frames' # <<>> /\ n \in Nat
    BY <1>3, <2>1, <2>2 DEF n
  <2>9. starts'[n + 1] = Len(stream) /\ \A i \in 1 .. n : starts'[i] = starts[i]
    BY <1>3, <2>1, <2>2 DEF n
  <2>10. ASSUME NEW i \in DOMAIN frames', frames'[i].OPC >= 8
         PROVE  /\ frames'[i].FIN = 1
                /\ \/ i > 1 => frames'[i - 1].FIN = 1
                   \/ sock' = "closed" /\ starts'[i] = Len(stream')
    <3>1. CASE i = n + 1
      <4>1. frames'[i] = g /\ starts'[i] = Len(stream') /\ sock' = sock
        BY <1>1, <2>8, <2>9, <3>1
      <4>2. i > 1 => n > 0 /\ n \in 1 .. n /\ i - 1 = n /\ n \in DOMAIN frames
        BY <1>3, <2>8, <3>1 DEF n
      <4>3. i > 1 => frames'[i - 1] = frames[n] /\ frames[n] \in Message
        BY <1>3, <2>8, <4>2
      <4>4. i > 1 => frames[n].FIN \in {0, 1}
        BY <4>3 DEF Message
      <4>5. sock \in {"open", "closed"}
        BY DEF WebSocketInv, TypeOK, SendingType
      <4> QED
        BY <2>6, <2>7, <2>10, <4>1, <4>2, <4>3, <4>4, <4>5
    <3>2. CASE i # n + 1
      <4>1. i \in 1 .. n /\ i \in DOMAIN frames /\ (i > 1 => i - 1 \in 1 .. n)
        BY <1>3, <2>8, <3>2 DEF n
      <4>2. /\ frames'[i] = frames[i] /\ starts'[i] = starts[i] /\ sock' = sock /\ stream' = stream
            /\ (i > 1 => frames'[i - 1] = frames[i - 1])
        BY <1>1, <2>8, <2>9, <4>1
      <4> QED
        BY <2>10, <4>1, <4>2 DEF Apart
    <3> QED
      BY <3>1, <3>2
  <2>11. ASSUME frames'[Len(frames')].FIN = 0
         PROVE  \E t \in Senders : /\ spc'[t] # "idle" /\ Head(todo'[t]) # <<>>
                                   /\ \A i \in DOMAIN Head(todo'[t]) : Head(todo'[t])[i].OPC < 8
    <3>1. g.FIN = 0 /\ spc'[s] = "prefix"
      BY <2>1, <2>2, <2>8, <2>11
    <3>2. \A i \in DOMAIN Head(todo[s]) : Head(todo[s])[i].OPC < 8
      BY <1>1, <2>3, <3>1, Rest
    <3> QED
      BY <1>1, <2>1, <3>1, <3>2
  <2> QED
    BY <1>2, <1>5, <2>1, <2>10, <2>11 DEF Apart
<1> QED
  BY <1>4, <1>5

LEMMA SentApart ==
  ASSUME WebSocketInv, Apart, NEW s \in Senders, Sent(s)
  PROVE  Apart'
<1>1. /\ spc[s] = "payload" /\ UNCHANGED <<frames, starts, stream, sock>>
      /\ opening' = (opening /\ Current(s).OPC # OPC_CLOSE)
      /\ todo' = [todo EXCEPT ![s] = <<Tail(Head(todo[s]))>> \o Tail(todo[s])]
      /\ spc' = [spc EXCEPT ![s] = "send"]
  BY DEF Sent
<1>2. \A t \in Senders : todo'[t] \in Seq(Unmixed)
  BY ApartTodo DEF Apart, Sender
<1>3. /\ Head(todo[s]) # <<>> /\ frames # <<>> /\ frames[Len(frames)] = Current(s)
      /\ spc \in [Senders -> {"idle", "send", "prefix", "mask", "payload"}]
      /\ todo \in [Senders -> Seq(Seq(Message))]
  BY <1>1 DEF WebSocketInv, Sending, Midway, TypeOK, SendingType
<1>4. Head(todo[s]) \in Unmixed /\ Tail(todo[s]) \in Seq(Unmixed)
  BY <1>1, UnmixedTodo DEF Apart
<1>5. spc'[s] = "send" /\ Head(todo'[s]) = Tail(Head(todo[s]))
  <2>1. todo'[s] = <<Tail(Head(todo[s]))>> \o Tail(todo[s])
    BY <1>1, <1>3
  <2>2. Tail(todo[s]) \in Seq(Unmixed) /\ Tail(Head(todo[s])) \in Unmixed
    BY <1>3, <1>4, Rest
  <2> DEFINE U == Unmixed
             x == Tail(Head(todo[s]))
             y == Tail(todo[s])
  <2> HIDE DEF U, x, y
  <2>3. y \in Seq(U) /\ x \in U /\ todo'[s] = <<x>> \o y
    BY <2>1, <2>2 DEF U, x, y
  <2>4. Head(todo'[s]) = x
    BY <2>3
  <2> QED
    BY <1>1, <1>3, <2>4 DEF x
<1>6. ASSUME frames[Len(frames)].FIN = 0
      PROVE  \E t \in Senders : /\ spc'[t] # "idle" /\ Head(todo'[t]) # <<>>
                                /\ \A i \in DOMAIN Head(todo'[t]) : Head(todo'[t])[i].OPC < 8
  <2>1. Head(Head(todo[s])).FIN = 0
    BY <1>3, <1>6 DEF Current
  <2>2. /\ Tail(Head(todo[s])) # <<>>
        /\ \A i \in DOMAIN Tail(Head(todo[s])) : Tail(Head(todo[s]))[i].OPC < 8
    BY <1>3, <1>4, <2>1, Rest
  <2> QED
    BY <1>5, <2>2
<1> QED
  BY <1>1, <1>2, <1>3, <1>6 DEF Apart

LEMMA SenderApart ==
  ASSUME WebSocketInv, Apart, (\E s \in Senders : Sender(s)) \/ Reset \/ Close
  PROVE  Apart'
<1>1. ASSUME NEW s \in Senders, Lock(s) \/ Write(s) \/ SendMask(s) \/ SendPayload(s)
      PROVE  Apart'
  <2>1. \A t \in Senders : todo'[t] \in Seq(Unmixed)
    BY <1>1, ApartTodo DEF Apart, Sender
  <2>2. /\ UNCHANGED <<todo, opening, frames, starts, sock>>
        /\ sock = "open" \/ UNCHANGED stream
    BY <1>1 DEF Lock, Write, SendMask, SendPayload
  <2>3. \A t \in Senders : spc[t] # "idle" => spc'[t] # "idle"
    <3>1. spc \in [Senders -> {"idle", "send", "prefix", "mask", "payload"}]
      BY DEF WebSocketInv, TypeOK, SendingType
    <3> QED
      BY <1>1, <3>1 DEF Lock, Write, SendMask, SendPayload
  <2> QED
    BY <2>1, <2>2, <2>3 DEF Apart
<1>2. ASSUME NEW s \in Senders, Unlock(s)
      PROVE  Apart'
  <2>1. \A t \in Senders : todo'[t] \in Seq(Unmixed)
    BY <1>2, ApartTodo DEF Apart, Sender
  <2>2. UNCHANGED <<opening, frames, starts, sock, stream>> /\ spc[s] = "send" /\ Head(todo[s]) = <<>>
    BY <1>2 DEF Unlock
  <2>3. \A t \in Senders : t # s => spc[t] = "idle"
    BY <2>2, Alone
  <2> QED
    BY <2>1, <2>2, <2>3 DEF Apart
<1>3. ASSUME NEW s \in Senders, WriteFails(s)
      PROVE  Apart'
  <2>1. \A t \in Senders : todo'[t] \in Seq(Unmixed)
    BY <1>3, ApartTodo DEF Apart, Sender
  <2>2. UNCHANGED <<opening, frames, starts, stream>> /\ sock' = "closed"
    BY <1>3 DEF WriteFails, Throw
  <2> QED
    BY <2>1, <2>2 DEF Apart
<1>4. CASE Reset
  BY <1>4 DEF Apart, Reset, sending
<1>5. CASE Close
  BY <1>5 DEF Apart, Close, sending
<1> QED
  BY <1>1, <1>2, <1>3, <1>4, <1>5, BeginApart, SentApart DEF Sender

\* What receive() joins is what the frames stand for.
LEMMA JoinedIs ==
  ASSUME NEW g, Gathering(g), NEW f \in Message, NEW h,
         h.RSV = f.RSV, h.OPC = f.OPC, h.context = f.context,
         msg = IF g.open THEN g.part ELSE Fresh
  PROVE  Joined(h) = Joint(g, f)
<1>1. f.RSV \in 0 .. 7 /\ f.OPC \in 0 .. 15 /\ f.context \in Seq(Byte)
  BY DEF Message
<1>2. CASE g.open
  <2>1. msg = g.part /\ g.part \in Fragment
    BY <1>2 DEF Gathering
  <2> DEFINE p == g.part
  <2>2. /\ p.RSV \in 0 .. 7 /\ p.OPC \in 0 .. 15
        /\ p = [RSV |-> p.RSV, OPC |-> p.OPC, context |-> p.context]
    BY <2>1 DEF Fragment
  <2>3. p.RSV # 255 /\ p.OPC # 255
    BY <2>2
  <2>4. Joined(h) = [RSV |-> p.RSV, OPC |-> p.OPC, context |-> p.context \o f.context]
    BY <2>1, <2>3 DEF Joined
  <2> DEFINE q == p.context \o f.context
             a == p.RSV
             b == p.OPC
             d == p.context
  <2>5. p = [RSV |-> a, OPC |-> b, context |-> d]
    BY <2>2
  <2>6. Joint(g, f) = [p EXCEPT !.context = q]
    BY <1>2 DEF Joint
  <2> HIDE DEF p, q, a, b, d
  <2>7. [p EXCEPT !.context = q] = [RSV |-> a, OPC |-> b, context |-> q]
    BY <2>5
  <2> QED
    BY <2>4, <2>6, <2>7 DEF q, a, b, d
<1>3. CASE ~ g.open
  <2>1. msg.RSV = 255 /\ msg.OPC = 255 /\ msg.context = <<>>
    BY <1>3 DEF Fresh
  <2>2. <<>> \o f.context = f.context
    BY <1>1
  <2>3. Joined(h) = [RSV |-> f.RSV, OPC |-> f.OPC, context |-> f.context]
    BY <2>1, <2>2 DEF Joined
  <2> QED
    BY <1>3, <2>3 DEF Joint, Content
<1>4. g.open \in BOOLEAN
  BY DEF Gathering
<1> QED
  BY <1>2, <1>3, <1>4

\* One frame more is read: at most one message is delivered, the next.
LEMMA PayloadJoins ==
  ASSUME WebSocketInv, BytesInv, Apart, GotPayload, NEW c, Reading(c), Joins(c)
  PROVE  \A d \in {c + 1} : Joins(d)'
<1> DEFINE f == frames[c + 1]
           g == Gathered(frames, c)
           h == [frame EXCEPT !.context = Masked(buf, header.key)]
<1>1. /\ c < Len(frames) /\ c \in Nat /\ f \in Message /\ c + 1 \in DOMAIN frames
      /\ starts[c + 1] = Start(c) /\ Start(c) \in Nat
  BY GotPayloadBytes, Place
<1>2. h.FIN = f.FIN /\ h.RSV = f.RSV /\ h.OPC = f.OPC /\ h.context = f.context
  <2>1. frame \in Message
    BY DEF WebSocketInv, TypeOK, ReceivingType
  <2>2. h.FIN = frame.FIN /\ h.RSV = frame.RSV /\ h.OPC = frame.OPC /\ h.context = Masked(buf, header.key)
    BY <2>1 DEF Message
  <2> HIDE DEF h
  <2> QED
    BY <2>2, GotPayloadBytes
<1>3. f.OPC \in 0 .. 15 /\ f.FIN \in {0, 1}
  BY <1>1 DEF Message
<1>4. ~ ((h.OPC \div 128) % 2 = 1)
  <2>1. \A x \in 0 .. 15 : x \div 128 = 0
    OBVIOUS
  <2> HIDE DEF f, h
  <2> QED
    BY <1>2, <1>3, <2>1
<1>5. /\ h.FIN = 1 => delivered' = Append(delivered, Joined(h)) /\ msg' = Fresh
      /\ h.FIN # 1 => msg' = Joined(h) /\ UNCHANGED delivered
      /\ UNCHANGED frames
  BY <1>4 DEF GotPayload, sending
<1>6. Gathering(g)
  <2>1. frames \in Seq(Message) /\ c \in 0 .. Len(frames)
    BY <1>1, Stands
  <2> QED
    BY <2>1, GatheredType
<1>7. /\ delivered = g.all /\ msg = (IF g.open THEN g.part ELSE Fresh)
      /\ g.open <=> c > 0 /\ frames[c].FIN = 0
  BY DEF Joins
<1> HIDE DEF f, g, h
<1>8. Joined(h) = Joint(g, f)
  BY <1>1, <1>2, <1>6, <1>7, JoinedIs
<1>9. ASSUME f.OPC >= 8
      PROVE  f.FIN = 1 /\ ~ g.open
  <2>1. /\ f.FIN = 1
        /\ \/ c + 1 > 1 => frames[(c + 1) - 1].FIN = 1
           \/ sock = "closed" /\ starts[c + 1] = Len(stream)
    BY <1>1, <1>9 DEF Apart, f
  <2>2. Start(c) # Len(stream)
    <3>1. rpc = "payload"
      BY DEF GotPayload
    <3>2. rd = Start(c) + Ahead(f) + 4 * f.MSK + Len(buf)
      BY <3>1 DEF Reading, f
    <3>3. Ahead(f) \in Nat /\ Ahead(f) >= 2 /\ f.MSK \in {0, 1}
      BY <1>1, FrameParts
    <3>4. 4 * f.MSK \in Nat
      BY <3>3
    <3>5. rd <= Len(stream) /\ rd \in Nat /\ Len(buf) \in Nat /\ Len(stream) \in Nat
      BY Stands
    <3> DEFINE b == 4 * f.MSK
    <3> HIDE DEF b
    <3>6. rd = Start(c) + Ahead(f) + b + Len(buf) /\ b \in Nat
      BY <3>2, <3>4 DEF b
    <3> QED
      BY <1>1, <3>3, <3>5, <3>6
  <2>3. c + 1 > 1 => frames[c].FIN = 1
    BY <1>1, <2>1, <2>2
  <2> QED
    BY <1>1, <1>7, <2>1, <2>3
<1>10. SUFFICES ASSUME NEW d \in {c + 1}
                PROVE  Joins(d)'
  OBVIOUS
<1>11. Gathered(frames', d) = Gather(g, f) /\ frames'[d] = f /\ d > 0
  BY <1>1, <1>5, GatheredIs DEF g, f
<1>12. /\ delivered' = Gather(g, f).all
       /\ msg' = IF Gather(g, f).open THEN Gather(g, f).part ELSE Fresh
       /\ Gather(g, f).open <=> f.FIN = 0
  <2>1. CASE f.OPC >= 8
    <3>1. /\ Gather(g, f) = [all |-> Append(g.all, Content(f)), part |-> g.part, open |-> g.open]
          /\ f.FIN = 1 /\ ~ g.open
      BY <1>1, <1>6, <1>9, <2>1, GatherCases
    <3>2. Joined(h) = Content(f)
      BY <1>8, <3>1 DEF Joint
    <3> QED
      BY <1>2, <1>5, <1>7, <3>1, <3>2
  <2>2. CASE f.OPC < 8 /\ f.FIN = 1
    <3>1. Gather(g, f) = [all |-> Append(g.all, Joint(g, f)), part |-> Fresh, open |-> FALSE]
      BY <1>1, <1>6, <2>2, GatherCases
    <3> QED
      BY <1>2, <1>5, <1>7, <1>8, <2>2, <3>1
  <2>3. CASE f.OPC < 8 /\ f.FIN # 1
    <3>1. Gather(g, f) = [all |-> g.all, part |-> Joint(g, f), open |-> TRUE]
      BY <1>1, <1>6, <2>3, GatherCases
    <3> QED
      BY <1>2, <1>3, <1>5, <1>7, <1>8, <2>3, <3>1
  <2> QED
    BY <1>3, <2>1, <2>2, <2>3
<1> QED
  BY <1>11, <1>12 DEF Joins

\* The frames that are read keep their messages when others are begun.
LEMMA JoinsKept ==
  ASSUME WebSocketInv, UNCHANGED <<delivered, msg>>, NEW c \in 0 .. Len(frames), Joins(c),
         \A i \in DOMAIN frames : frames'[i] = frames[i]
  PROVE  Joins(c)'
<1>1. DOMAIN frames = 1 .. Len(frames) /\ Len(frames) \in Nat
  BY Stands
<1>2. \A i \in 1 .. c : frames[i] = frames'[i]
  BY <1>1
<1>3. Gathered(frames, c) = Gathered(frames', c)
  BY <1>2, GatheredSame
<1>4. c > 0 => frames'[c] = frames[c]
  BY <1>1
<1> QED
  BY <1>3, <1>4 DEF Joins

LEMMA FramesGrow ==
  ASSUME WebSocketInv, (\E s \in Senders : Sender(s)) \/ Reset \/ Close
  PROVE  /\ UNCHANGED receiving
         /\ frames' = frames \/ \E g \in Message : frames' = Append(frames, g)
<1>1. ASSUME NEW s \in Senders, Begin(s)
      PROVE  frames' = frames \/ \E g \in Message : frames' = Append(frames, g)
  <2>1. Current(s) \in Message
    BY <1>1, CurrentType DEF Begin
  <2> QED
    BY <1>1, <2>1 DEF Begin, Throw
<1>2. ASSUME NEW s \in Senders, Sender(s), ~ Begin(s)
      PROVE  frames' = frames
  BY <1>2 DEF Sender, Lock, Write, WriteFails, Throw, SendMask, SendPayload, Sent, Unlock
<1>3. ASSUME Reset \/ Close
      PROVE  frames' = frames
  BY <1>3 DEF Reset, Close, sending
<1>4. UNCHANGED receiving
  BY DEF Sender, Lock, Begin, Write, WriteFails, SendMask, SendPayload, Sent, Unlock, Reset, Close
<1> QED
  BY <1>1, <1>2, <1>3, <1>4

LEMMA ChannelInitially ==
  ASSUME SizedScripts, UnmixedScripts, Init
  PROVE  ChannelInv
<1>1. SyncInv
  BY SyncInitially
<1>2. frames = <<>> /\ todo \in [Senders -> Seq(Unmixed)] /\ opening /\ msg = Fresh /\ delivered = <<>>
  BY DEF Init, UnmixedScripts
<1>3. Len(frames) = 0 /\ DOMAIN frames = {}
  BY <1>2
<1>4. Apart
  BY <1>2, <1>3 DEF Apart
<1>5. PICK c \in 0 .. Len(frames) : Reading(c)
  BY <1>1 DEF SyncInv
<1>6. c = 0
  BY <1>3, <1>5
<1>7. Gathered(frames, 0) = Nothing
  BY GatheredIs
<1>8. Joins(c)
  BY <1>2, <1>6, <1>7 DEF Joins, Nothing
<1> QED
  BY <1>1, <1>4, <1>5, <1>8 DEF ChannelInv, SyncInv

LEMMA ChannelStep ==
  ASSUME ChannelInv, WebSocketInv', [Next]_vars
  PROVE  ChannelInv'
<1>1. /\ WebSocketInv /\ BytesInv /\ frames \in Seq(Sized) /\ Apart
      /\ \A s \in Senders : todo[s] \in Seq(Seq(Sized))
  BY DEF ChannelInv
<1>2. PICK c \in 0 .. Len(frames) : Reading(c) /\ Joins(c)
  BY DEF ChannelInv
<1>3. SyncInv'
  BY <1>1, <1>2, SyncStep DEF SyncInv
<1>4. ASSUME (\E s \in Senders : Sender(s)) \/ Reset \/ Close
      PROVE  ChannelInv'
  <2>1. Reading(c)' /\ Apart'
    BY <1>1, <1>2, <1>4, SenderBytes, SenderApart
  <2>2. \A i \in DOMAIN frames : frames'[i] = frames[i]
    <3>1. frames \in Seq(Message)
      BY <1>1, Stands
    <3> QED
      BY <1>1, <1>4, <3>1, FramesGrow
  <2>3. Joins(c)'
    BY <1>1, <1>2, <1>4, <2>2, JoinsKept, FramesGrow DEF receiving
  <2>4. c \in 0 .. Len(frames)'
    BY <2>1 DEF Reading
  <2> QED
    BY <1>3, <2>1, <2>3, <2>4 DEF ChannelInv, SyncInv
<1>5. ASSUME Receiver
      PROVE  ChannelInv'
  <2>1. UNCHANGED <<sending, stream, sock>>
    BY <1>5, ReceiverRest
  <2>2. UNCHANGED <<todo, spc, opening, frames, starts>>
    BY <2>1 DEF sending
  <2>3. Apart'
    BY <1>1, <2>1, <2>2 DEF Apart
  <2>4. \E d \in 0 .. Len(frames) : Reading(d)' /\ Joins(d)'
    <3>1. CASE GotPayload
      BY <1>1, <1>2, <1>5, <3>1, ReceiverSync, PayloadJoins
    <3>2. CASE ~ GotPayload
      <4>1. UNCHANGED <<delivered, msg>>
        BY <1>5, <3>2 DEF Receiver, Read, ReadFails, GotHead, GotSize, GotWide, GotKey
      <4>2. Joins(c)'
        BY <1>1, <1>2, <2>2, <4>1, JoinsKept
      <4> QED
        BY <1>1, <1>2, <1>5, <3>2, <4>2, ReceiverSync
    <3> QED
      BY <3>1, <3>2
  <2> QED
    BY <1>3, <2>2, <2>3, <2>4 DEF ChannelInv, SyncInv
<1>6. ASSUME UNCHANGED vars
      PROVE  ChannelInv'
  <2>1. UNCHANGED <<sending, stream, sock, receiving>>
    BY <1>6 DEF vars
  <2>2. UNCHANGED <<todo, spc, opening, frames, starts, delivered, msg>>
    BY <2>1 DEF sending, receiving
  <2>3. Apart' /\ Joins(c)'
    BY <1>1, <1>2, <2>1, <2>2, JoinsKept DEF Apart
  <2>4. Reading(c)'
    <3>1. \A d : Start(d)' = Start(d)
      BY <2>1, ReceiverKeepsBytes
    <3> QED
      BY <1>2, <2>1, <3>1 DEF Reading, sending, receiving
  <2> QED
    BY <1>2, <1>3, <2>2, <2>3, <2>4 DEF ChannelInv, SyncInv
<1> QED
  BY <1>4, <1>5, <1>6 DEF Next

LEMMA ChannelInvariance ==
  ASSUME SizedScripts, UnmixedScripts
  PROVE  Spec => []ChannelInv
<1>1. Init => ChannelInv
  BY ChannelInitially
<1>2. ChannelInv /\ WebSocketInv' /\ [Next]_vars => ChannelInv'
  BY ChannelStep
<1>3. Spec => []WebSocketInv
  BY WebSocketInvariance
<1> QED
  BY <1>1, <1>2, <1>3, PTL DEF Spec

\* A frame begun adds at most one message to those sent.
LEMMA ChannelSends ==
  ASSUME WebSocketInv, UNCHANGED delivered,
         frames' = frames \/ \E g \in Message : frames' = Append(frames, g)
  PROVE  Channel!Send \/ UNCHANGED <<Messages(frames), delivered>>
<1>1. CASE frames' = frames
  BY <1>1 DEF Messages
<1>2. ASSUME NEW g \in Message, frames' = Append(frames, g)
      PROVE  Channel!Send \/ UNCHANGED <<Messages(frames), delivered>>
  <2> DEFINE n == Len(frames)
             a == Messages(frames)
             b == Messages(frames)'
  <2>1. frames \in Seq(Message) /\ n \in Nat
    BY Stands
  <2> HIDE DEF n
  <2>2. /\ Len(frames') = n + 1 /\ frames'[n + 1] = g
        /\ \A i \in 1 .. n : frames'[i] = frames[i]
    BY <1>2, <2>1 DEF n
  <2>3. Gathered(frames', n) = Gathered(frames, n)
    BY <2>1, <2>2, GatheredSame
  <2>4. Gathered(frames', n + 1) = Gather(Gathered(frames, n), g)
    BY <2>1, <2>2, <2>3, GatheredIs
  <2>5. a = Gathered(frames, n).all /\ b = Gather(Gathered(frames, n), g).all
    BY <2>2, <2>4 DEF Messages, n
  <2>6. Gathering(Gathered(frames, n))
    BY <2>1, GatheredType DEF n
  <2>7. a \in Seq(Received) /\ (b = a \/ \E x \in Received : b = Append(a, x))
    BY <2>5, <2>6, GatherType DEF Gathering
  <2> HIDE DEF a, b
  <2>8. ASSUME NEW x \in Received, b = Append(a, x)
        PROVE  Len(b) = Len(a) + 1 /\ SubSeq(b, 1, Len(a)) = a
    BY <2>7, <2>8
  <2>9. b = a \/ (Len(b) = Len(a) + 1 /\ SubSeq(b, 1, Len(a)) = a)
    BY <2>7, <2>8
  <2> QED
    BY <2>9 DEF a, b, Channel!Send
<1> QED
  BY <1>1, <1>2

\* What is delivered is the next message that is sent.
LEMMA ChannelDelivers ==
  ASSUME ChannelInv, ChannelInv', GotPayload
  PROVE  Channel!Deliver \/ UNCHANGED <<Messages(frames), delivered>>
<1>1. WebSocketInv /\ BytesInv /\ Apart
  BY DEF ChannelInv
<1>2. PICK c \in 0 .. Len(frames) : Reading(c) /\ Joins(c)
  BY DEF ChannelInv
<1>3. UNCHANGED frames
  BY DEF GotPayload, sending
<1>4. c < Len(frames) /\ c \in Nat /\ frames \in Seq(Message) /\ frames[c + 1] \in Message /\ Len(frames) \in Nat
  BY <1>1, <1>2, GotPayloadBytes, Place, Stands
<1> DEFINE a == Messages(frames)
           g == Gathered(frames, c)
           d == Gathered(frames, c + 1)
<1>5. delivered = g.all /\ delivered' = d.all
  <2>1. \A i \in {c + 1} : Joins(i)'
    BY <1>1, <1>2, PayloadJoins
  <2>2. delivered' = Gathered(frames', c + 1).all
    BY <2>1 DEF Joins
  <2> QED
    BY <1>2, <1>3, <2>2 DEF Joins
<1>6. Gathering(g) /\ Gathering(d) /\ Gathering(Gathered(frames, Len(frames)))
  <2>1. c \in 0 .. Len(frames) /\ c + 1 \in 0 .. Len(frames) /\ Len(frames) \in 0 .. Len(frames)
    BY <1>4
  <2> QED
    BY <1>4, <2>1, GatheredType
<1>7. d.all = g.all \/ \E x \in Received : d.all = Append(g.all, x)
  BY <1>4, <1>6, GatherType, GatheredIs, ZenonT(60)
<1>8. Leads(d.all, a)
  <2>1. c + 1 \in 0 .. Len(frames) /\ Len(frames) \in c + 1 .. Len(frames)
    BY <1>4
  <2> QED
    BY <1>4, <2>1, GatheredLeads DEF Messages
<1>9. UNCHANGED Messages(frames)
  BY <1>3 DEF Messages
<1>10. a \in Seq(Received) /\ delivered \in Seq(Received)
  BY <1>5, <1>6 DEF Messages, Gathering
<1> HIDE DEF a, g, d
<1>11. ASSUME NEW x \in Received, d.all = Append(g.all, x)
       PROVE  Channel!Deliver
  <2>1. delivered' = Append(delivered, x) /\ Leads(delivered', a)
    BY <1>5, <1>8, <1>11
  <2>2. /\ Len(delivered) < Len(a) /\ a[Len(delivered) + 1] = x
    BY <1>10, <2>1 DEF Leads
  <2> QED
    BY <1>9, <2>1, <2>2 DEF a, Channel!Deliver
<1> QED
  BY <1>5, <1>7, <1>9, <1>11

\* The WebSocket implements a channel that delivers the messages sent, whole,
\* in order and at most once.
THEOREM ChannelRefined ==
  ASSUME SizedScripts, UnmixedScripts
  PROVE  Spec => RefinesChannel
<1>1. Init => Channel!Init
  <2> SUFFICES ASSUME Init PROVE Messages(frames) = <<>> /\ delivered = <<>>
    BY DEF Channel!Init
  <2>1. frames = <<>> /\ delivered = <<>>
    BY DEF Init
  <2>2. Len(frames) = 0
    BY <2>1
  <2> QED
    BY <2>1, <2>2, GatheredIs DEF Messages, Nothing
<1>2. ChannelInv /\ ChannelInv' /\ [Next]_vars =>
        [Channel!Send \/ Channel!Deliver]_<<Messages(frames), delivered>>
  <2> SUFFICES ASSUME ChannelInv, ChannelInv', [Next]_vars
               PROVE  \/ Channel!Send \/ Channel!Deliver
                      \/ UNCHANGED <<Messages(frames), delivered>>
    OBVIOUS
  <2>1. WebSocketInv
    BY DEF ChannelInv
  <2>2. CASE (\E s \in Senders : Sender(s)) \/ Reset \/ Close
    BY <2>1, <2>2, FramesGrow, ChannelSends DEF receiving
  <2>3. CASE GotPayload
    BY <2>3, ChannelDelivers
  <2>4. CASE Receiver /\ ~ GotPayload
    <3>1. UNCHANGED <<frames, delivered>>
      BY <2>4 DEF Receiver, Read, ReadFails, GotHead, GotSize, GotWide, GotKey, sending
    <3> QED
      BY <3>1 DEF Messages
  <2>5. CASE UNCHANGED vars
    <3>1. UNCHANGED <<frames, delivered>>
      BY <2>5 DEF vars, sending, receiving
    <3> QED
      BY <3>1 DEF Messages
  <2> QED
    BY <2>2, <2>3, <2>4, <2>5 DEF Next
<1>3. Spec => []ChannelInv
  BY ChannelInvariance
<1> QED
  BY <1>1, <1>2, <1>3, PTL DEF Spec, RefinesChannel, Channel!Spec

-----------------------------------------------------------------------------
(* HTTP.  What transmit() writes is a row of tokens whose places are known     *)
(* part by part; receive() of a beginning of that row finds the first line,    *)
(* the header, one character at a time, and the body where they were written.  *)
(* The invariant says that what has arrived and is on its way is such a row.   *)

Chars == Tokens \cup Space \cup {":", "HTTP/1.1", "OK", "Partial", "Content", "no-text", "garbage",
                                 "Connection", "Content-Length"}
         \cup {METHODS[id] : id \in DOMAIN METHODS}

\* s stands in W behind the first p tokens, and A is a beginning of W.
At(W, p, s) == p + Len(s) <= Len(W) /\ \A i \in 1 .. Len(s) : W[p + i] = s[i]
Begins(A, W) == Len(A) <= Len(W) /\ \A i \in 1 .. Len(A) : A[i] = W[i]

\* Sequences in a row.
LEMMA TwoParts ==
  ASSUME NEW S, NEW s \in Seq(S), NEW t \in Seq(S)
  PROVE  LET x == s \o t
         IN /\ x \in Seq(S) /\ Len(x) = Len(s) + Len(t) /\ Len(s) \in Nat /\ Len(t) \in Nat
            /\ \A i \in 1 .. Len(s) : x[i] = s[i]
            /\ \A i \in 1 .. Len(t) : x[Len(s) + i] = t[i]
  OBVIOUS

LEMMA ThreeParts ==
  ASSUME NEW S, NEW s \in Seq(S), NEW t \in Seq(S), NEW u \in Seq(S)
  PROVE  LET x == (s \o t) \o u
         IN /\ x \in Seq(S) /\ Len(x) = Len(s) + Len(t) + Len(u)
            /\ Len(s) \in Nat /\ Len(t) \in Nat /\ Len(u) \in Nat
            /\ \A i \in 1 .. Len(s) : x[i] = s[i]
            /\ \A i \in 1 .. Len(t) : x[Len(s) + i] = t[i]
            /\ \A i \in 1 .. Len(u) : x[Len(s) + Len(t) + i] = u[i]
<1> DEFINE y == s \o t
           x == y \o u
<1>1. /\ y \in Seq(S) /\ Len(y) = Len(s) + Len(t) /\ Len(s) \in Nat /\ Len(t) \in Nat
      /\ \A i \in 1 .. Len(s) : y[i] = s[i]
      /\ \A i \in 1 .. Len(t) : y[Len(s) + i] = t[i]
  BY TwoParts
<1> HIDE DEF y
<1>2. /\ x \in Seq(S) /\ Len(x) = Len(y) + Len(u) /\ Len(u) \in Nat
      /\ \A i \in 1 .. Len(y) : x[i] = y[i]
      /\ \A i \in 1 .. Len(u) : x[Len(y) + i] = u[i]
  <2>1. y \in Seq(S)
    BY <1>1
  <2> QED
    BY <2>1, TwoParts
<1> HIDE DEF x
<1>3. \A i \in 1 .. Len(s) : x[i] = s[i]
  <2>1. \A i \in 1 .. Len(s) : i \in 1 .. Len(y)
    BY <1>1
  <2> QED
    BY <1>1, <1>2, <2>1
<1>4. \A i \in 1 .. Len(t) : x[Len(s) + i] = t[i]
  <2>1. \A i \in 1 .. Len(t) : Len(s) + i \in 1 .. Len(y)
    BY <1>1
  <2> QED
    BY <1>1, <1>2, <2>1
<1> QED
  BY <1>1, <1>2, <1>3, <1>4 DEF x, y

\* Short texts.
LEMMA ShortIs ==
  ASSUME NEW S, NEW a \in S, NEW b \in S, NEW c \in S, NEW d \in S
  PROVE  /\ <<a>> \in Seq(S) /\ Len(<<a>>) = 1 /\ <<a>>[1] = a
         /\ <<a, b>> \in Seq(S) /\ Len(<<a, b>>) = 2 /\ <<a, b>>[1] = a /\ <<a, b>>[2] = b
         /\ <<a, b, c>> \in Seq(S) /\ Len(<<a, b, c>>) = 3
         /\ <<a, b, c>>[1] = a /\ <<a, b, c>>[2] = b /\ <<a, b, c>>[3] = c
         /\ <<a, b, c, d>> \in Seq(S) /\ Len(<<a, b, c, d>>) = 4
         /\ <<a, b, c, d>>[1] = a /\ <<a, b, c, d>>[2] = b /\ <<a, b, c, d>>[3] = c /\ <<a, b, c, d>>[4] = d
<1>1. <<a>> \in Seq(S) /\ Len(<<a>>) = 1 /\ <<a>>[1] = a
  OBVIOUS
<1>2. <<a, b>> \in Seq(S) /\ Len(<<a, b>>) = 2 /\ <<a, b>>[1] = a /\ <<a, b>>[2] = b
  OBVIOUS
<1>3. /\ <<a, b, c>> \in Seq(S) /\ Len(<<a, b, c>>) = 3
      /\ <<a, b, c>>[1] = a /\ <<a, b, c>>[2] = b /\ <<a, b, c>>[3] = c
  OBVIOUS
<1>4. /\ <<a, b, c, d>> \in Seq(S) /\ Len(<<a, b, c, d>>) = 4
      /\ <<a, b, c, d>>[1] = a /\ <<a, b, c, d>>[2] = b /\ <<a, b, c, d>>[3] = c /\ <<a, b, c, d>>[4] = d
  OBVIOUS
<1> QED
  BY <1>1, <1>2, <1>3, <1>4

LEMMA AtParts ==
  ASSUME NEW S, NEW W \in Seq(S), NEW p \in Nat, NEW s \in Seq(S), NEW t \in Seq(S), At(W, p, s \o t)
  PROVE  At(W, p, s) /\ At(W, p + Len(s), t)
<1>1. /\ Len(s \o t) = Len(s) + Len(t) /\ Len(s) \in Nat /\ Len(t) \in Nat /\ Len(W) \in Nat
      /\ \A i \in 1 .. Len(s) : (s \o t)[i] = s[i]
      /\ \A i \in 1 .. Len(t) : (s \o t)[Len(s) + i] = t[i]
  OBVIOUS
<1> DEFINE x == s \o t
<1>2. p + Len(x) <= Len(W) /\ \A i \in 1 .. Len(x) : W[p + i] = x[i]
  BY DEF At
<1>3. At(W, p, s)
  <2>1. \A i \in 1 .. Len(s) : i \in 1 .. Len(x)
    BY <1>1
  <2> HIDE DEF x
  <2> QED
    BY <1>1, <1>2, <2>1 DEF At, x
<1>4. At(W, p + Len(s), t)
  <2> SUFFICES ASSUME NEW i \in 1 .. Len(t) PROVE W[p + Len(s) + i] = t[i]
    BY <1>1, <1>2 DEF At
  <2>1. Len(s) + i \in 1 .. Len(x) /\ p + Len(s) + i = p + (Len(s) + i)
    BY <1>1
  <2>2. W[p + (Len(s) + i)] = x[Len(s) + i]
    BY <1>2, <2>1
  <2> QED
    BY <1>1, <2>1, <2>2
<1> QED
  BY <1>3, <1>4

\* What stands in W stands in a beginning of W that is long enough.
LEMMA PieceIs ==
  ASSUME NEW S, NEW W \in Seq(S), NEW A \in Seq(S), Begins(A, W), NEW p \in Nat, NEW s \in Seq(S),
         At(W, p, s), p + Len(s) <= Len(A)
  PROVE  SubSeq(A, p + 1, p + Len(s)) = s
<1>1. Len(s) \in Nat /\ Len(A) \in Nat /\ Len(W) \in Nat
  OBVIOUS
<1>2. \A i \in 1 .. Len(s) : A[p + i] = s[i]
  <2> TAKE i \in 1 .. Len(s)
  <2>1. p + i \in 1 .. Len(A) /\ A[p + i] = W[p + i]
    BY <1>1 DEF Begins
  <2> QED
    BY <2>1 DEF At
<1> DEFINE a == p + 1
           b == p + Len(s)
           t == SubSeq(A, a, b)
<1>3. t \in Seq(S) /\ Len(t) = Len(s) /\ \A i \in 1 .. Len(s) : t[i] = A[p + i]
  <2>1. a \in 1 .. Len(A) + 1 /\ b \in 0 .. Len(A) /\ b - a + 1 = Len(s)
    BY <1>1
  <2>2. \A i \in 1 .. Len(s) : a + i - 1 = p + i
    BY <1>1
  <2> HIDE DEF a, b
  <2>3. t \in Seq(S) /\ Len(t) = b - a + 1 /\ \A i \in 1 .. Len(t) : t[i] = A[a + i - 1]
    BY <1>1, <2>1
  <2> HIDE DEF t
  <2> QED
    BY <2>1, <2>2, <2>3
<1> HIDE DEF t
<1>4. t = s
  BY <1>2, <1>3
<1> QED
  BY <1>4 DEF t

\* A piece with the tokens of s is s.
LEMMA SliceIs ==
  ASSUME NEW S, NEW W \in Seq(S), NEW s \in Seq(S), NEW a \in Nat \ {0}, NEW b \in Nat, b <= Len(W),
         b = a + Len(s) - 1, \A i \in 1 .. Len(s) : W[a + i - 1] = s[i]
  PROVE  SubSeq(W, a, b) = s
<1> DEFINE t == SubSeq(W, a, b)
<1>1. t \in Seq(S) /\ Len(t) = Len(s) /\ \A i \in 1 .. Len(s) : t[i] = W[a + i - 1]
  OBVIOUS
<1> HIDE DEF t
<1>2. t = s
  BY <1>1
<1> QED
  BY <1>2 DEF t

LEMMA OneIs ==
  ASSUME NEW S, NEW W \in Seq(S), NEW a \in 1 .. Len(W)
  PROVE  SubSeq(W, a, a) = <<W[a]>>
<1> DEFINE t == SubSeq(W, a, a)
           s == <<W[a]>>
<1>1. t \in Seq(S) /\ Len(t) = 1 /\ t[1] = W[a] /\ s \in Seq(S) /\ Len(s) = 1 /\ s[1] = W[a]
  OBVIOUS
<1> HIDE DEF t, s
<1>2. t = s
  BY <1>1
<1> QED
  BY <1>2 DEF t, s

-----------------------------------------------------------------------------
(* Words and first lines.                                                      *)

LEMMA LeastIs ==
  ASSUME NEW S \in SUBSET Int, NEW x \in S, \A y \in S : x <= y
  PROVE  Min(S) = x
<1>1. \A z \in S : (\A y \in S : z <= y) => z = x
  OBVIOUS
<1> QED
  BY <1>1 DEF Min

\* Blanks from p, a word from q and a blank at e.
WordAt(W, p, q, e) ==
  /\ p \in Nat \ {0} /\ q \in Nat /\ e \in Nat /\ p <= q /\ q < e /\ e <= Len(W)
  /\ \A i \in p .. q - 1 : W[i] \in Space
  /\ \A i \in q .. e - 1 : W[i] \notin Space
  /\ W[e] \in Space

\* The next word for st in A.
Ready(A, W, st, q, e) == WordAt(W, st.pos, q, e) /\ (st.status # "wait" => st.pos <= Len(A) + 1)

LEMMA WordRead ==
  ASSUME NEW W \in Seq(Chars), NEW A \in Seq(Chars), Begins(A, W), NEW st, NEW q, NEW e,
         Ready(A, W, st, q, e)
  PROVE  LET r == ReadWord(A, st)
         IN /\ r.status \in {"wait", st.status}
            /\ r.status # "wait" =>
                 /\ e <= Len(A) /\ r.pos = e /\ r.words = Append(st.words, SubSeq(W, q, e - 1))
<1> DEFINE p == st.pos
           n == Len(A)
           firsts == {i \in p .. n + 1 : i > n \/ A[i] \notin Space}
           start == Min(firsts)
           ends == {i \in start .. n + 1 : i > n \/ A[i] \in Space}
           end == Min(ends)
           r == [words |-> Append(st.words, SubSeq(A, start, end - 1)), pos |-> end,
                 status |-> IF end > n THEN "wait" ELSE st.status]
<1>0. /\ p \in Nat \ {0} /\ q \in Nat /\ e \in Nat /\ p <= q /\ q < e /\ e <= Len(W)
      /\ \A i \in p .. q - 1 : W[i] \in Space
      /\ \A i \in q .. e - 1 : W[i] \notin Space
      /\ W[e] \in Space /\ (st.status # "wait" => p <= Len(A) + 1)
  BY DEF WordAt, Ready
<1>1. ReadWord(A, st) = r
  BY DEF ReadWord
<1>2. r.status = (IF end > n THEN "wait" ELSE st.status) /\ r.pos = end
      /\ r.words = Append(st.words, SubSeq(A, start, end - 1))
  OBVIOUS
<1>3. p \in Nat \ {0} /\ n \in Nat /\ n <= Len(W) /\ Len(W) \in Nat /\ \A i \in 1 .. n : A[i] = W[i]
  BY <1>0 DEF Begins
<1> HIDE DEF r, p
<1>4. CASE e <= n
  <2>1. start = q
    <3>1. q \in p .. n + 1 /\ A[q] \notin Space
      BY <1>0, <1>3, <1>4
    <3>2. \A i \in firsts : q <= i
      <4> SUFFICES ASSUME NEW i \in firsts, i < q PROVE FALSE
        BY <1>0, <1>3
      <4>1. i \in p .. q - 1 /\ i \in 1 .. n
        BY <1>0, <1>3, <1>4
      <4> QED
        BY <1>0, <1>3, <4>1
    <3>3. firsts \in SUBSET Int /\ q \in firsts
      BY <1>0, <1>3, <3>1
    <3> HIDE DEF firsts
    <3> QED
      BY <3>2, <3>3, LeastIs
  <2> HIDE DEF start
  <2>2. end = e
    <3>1. e \in start .. n + 1 /\ A[e] \in Space
      BY <1>0, <1>3, <1>4, <2>1, SMTT(30)
    <3>2. \A i \in ends : e <= i
      <4> SUFFICES ASSUME NEW i \in ends, i < e PROVE FALSE
        BY <1>0, <1>3, <2>1
      <4>1. i \in q .. e - 1 /\ i \in 1 .. n
        BY <1>0, <1>3, <1>4, <2>1
      <4> QED
        BY <1>0, <1>3, <4>1
    <3>3. ends \in SUBSET Int /\ e \in ends
      BY <1>0, <1>3, <2>1, <3>1
    <3> HIDE DEF ends
    <3> QED
      BY <3>2, <3>3, LeastIs
  <2>3. SubSeq(A, q, e - 1) = SubSeq(W, q, e - 1)
    <3>1. q \in 1 .. n /\ e - 1 \in 1 .. n /\ e - 1 <= Len(W)
      BY <1>0, <1>3, <1>4
    <3>2. SubSeq(A, q, e - 1) = [i \in 1 .. e - q |-> A[q + i - 1]]
      BY <1>0, <1>3, <1>4, <3>1
    <3>3. SubSeq(W, q, e - 1) = [i \in 1 .. e - q |-> W[q + i - 1]]
      BY <1>0, <1>3, <1>4, <3>1
    <3>4. \A i \in 1 .. e - q : A[q + i - 1] = W[q + i - 1]
      BY <1>0, <1>3, <1>4, <3>1
    <3> QED
      BY <3>2, <3>3, <3>4
  <2> HIDE DEF end
  <2> QED
    BY <1>1, <1>2, <1>3, <1>4, <2>1, <2>2, <2>3
<1>5. CASE ~(e <= n)
  <2>1. ASSUME p <= n + 1 PROVE end > n
    <3>1. (start \in p .. n + 1 /\ start >= q) \/ start = n + 1
      <4>1. firsts \in SUBSET Nat /\ n + 1 \in firsts
        BY <1>0, <1>3, <2>1
      <4>2. start \in firsts
        <5> HIDE DEF firsts
        <5> QED
          BY <4>1, LeastNumber DEF Min
      <4>3. ASSUME start < q, start # n + 1 PROVE FALSE
        <5>1. start \in p .. q - 1 /\ start \in 1 .. n /\ A[start] \notin Space
          BY <1>0, <1>3, <4>2, <4>3
        <5> QED
          BY <1>0, <1>3, <5>1
      <4>4. start \in p .. n + 1
        BY <4>2
      <4> HIDE DEF start, firsts
      <4> QED
        BY <1>0, <1>3, <4>3, <4>4
    <3> HIDE DEF start
    <3>2. ends = {n + 1}
      <4>1. \A i \in start .. n + 1 : i <= n => A[i] \notin Space
        <5> SUFFICES ASSUME NEW i \in start .. n + 1, i <= n PROVE A[i] \notin Space
          OBVIOUS
        <5>1. i \in q .. e - 1 /\ i \in 1 .. n
          BY <1>0, <1>3, <1>5, <2>1, <3>1
        <5> QED
          BY <1>0, <1>3, <5>1
      <4>2. n + 1 \in start .. n + 1 /\ n + 1 > n
        BY <1>0, <1>3, <3>1
      <4> QED
        BY <1>0, <1>3, <3>1, <4>1, <4>2
    <3>3. end = n + 1
      <4>1. {n + 1} \in SUBSET Int /\ n + 1 \in {n + 1} /\ \A y \in {n + 1} : n + 1 <= y
        BY <1>0, <1>3
      <4>2. Min({n + 1}) = n + 1
        BY <4>1, LeastIs
      <4> QED
        BY <3>2, <4>2
    <3> QED
      BY <3>3, <1>3
  <2> HIDE DEF end
  <2>2. r.status = "wait"
    BY <1>0, <1>2, <2>1
  <2> QED
    BY <1>1, <2>2
<1> QED
  BY <1>4, <1>5

LEMMA ReadShape ==
  ASSUME NEW A, NEW st
  PROVE  \E words, pos, status : ReadWord(A, st) = [words |-> words, pos |-> pos, status |-> status]
  BY DEF ReadWord

\* A blank is no word.
LEMMA BlankIs ==
  /\ SP # "CR" /\ SP # "LF" /\ SP # ":" /\ SP # "HTTP/1.1" /\ SP # "GET" /\ SP # "HEAD" /\ SP # "POST"
  /\ SP # "PUT" /\ SP # "DELETE" /\ SP # "CONNECT" /\ SP # "OPTIONS" /\ SP # "TRACE" /\ SP # NoName
  /\ NoName # "CR" /\ NoName # "LF"
  BY DEF SP, NoName

LEMMA FixedChars ==
  /\ SP \in Chars /\ "CR" \in Chars /\ "LF" \in Chars /\ ":" \in Chars /\ "HTTP/1.1" \in Chars
  /\ "OK" \in Chars /\ "Partial" \in Chars /\ "Content" \in Chars /\ "garbage" \in Chars
  /\ "Connection" \in Chars /\ "Content-Length" \in Chars
  /\ SP \in Space /\ "CR" \in Space /\ "LF" \in Space
  /\ "HTTP/1.1" \notin Space
<1>1. \A w \in Space : w \in Chars
  BY DEF Chars
<1>2. SP \in Space /\ "CR" \in Space /\ "LF" \in Space /\ "HTTP/1.1" \notin Space
  BY BlankIs DEF Space
<1>3. /\ ":" \in Chars /\ "HTTP/1.1" \in Chars
      /\ "OK" \in Chars /\ "Partial" \in Chars /\ "Content" \in Chars /\ "garbage" \in Chars
      /\ "Connection" \in Chars /\ "Content-Length" \in Chars
  BY DEF Chars
<1> QED
  BY <1>1, <1>2, <1>3

LEMMA MethodsAre ==
  /\ DOMAIN METHODS = 1 .. 9
  /\ METHODS[1] = "GET" /\ METHODS[2] = "HEAD" /\ METHODS[3] = "POST" /\ METHODS[4] = "PUT"
  /\ METHODS[5] = "DELETE" /\ METHODS[6] = "CONNECT" /\ METHODS[7] = "OPTIONS" /\ METHODS[8] = "TRACE"
  /\ METHODS[9] = NoName
<1>1. DOMAIN METHODS = 1 .. 9
  BY SMTT(30) DEF METHODS
<1>2. /\ METHODS[1] = "GET" /\ METHODS[2] = "HEAD" /\ METHODS[3] = "POST" /\ METHODS[4] = "PUT"
      /\ METHODS[5] = "DELETE" /\ METHODS[6] = "CONNECT" /\ METHODS[7] = "OPTIONS" /\ METHODS[8] = "TRACE"
      /\ METHODS[9] = NoName
  BY DEF METHODS
<1> QED
  BY <1>1, <1>2

LEMMA NamesAre ==
  ASSUME NEW id \in DOMAIN METHODS, METHODS[id] # NoName
  PROVE  /\ METHODS[id] \in Chars /\ METHODS[id] \notin Space
         /\ MethodName(id) = <<METHODS[id]>> /\ MethodId(METHODS[id]) = {id}
<1>1. METHODS[id] \in Chars
  BY DEF Chars
<1>2. \A x \in 1 .. 9 : x = 1 \/ x = 2 \/ x = 3 \/ x = 4 \/ x = 5 \/ x = 6 \/ x = 7 \/ x = 8 \/ x = 9
  <2> SUFFICES ASSUME NEW x \in Int, 1 <= x, x <= 9
               PROVE  x = 1 \/ x = 2 \/ x = 3 \/ x = 4 \/ x = 5 \/ x = 6 \/ x = 7 \/ x = 8 \/ x = 9
    OBVIOUS
  <2>1. x <= 3 \/ (4 <= x /\ x <= 6) \/ 7 <= x
    OBVIOUS
  <2> QED
    BY <2>1
<1>3. METHODS[id] \notin Space
  BY <1>2, MethodsAre, BlankIs DEF Space
<1>4. \A x \in DOMAIN METHODS : METHODS[x] = METHODS[id] => x = id
  BY <1>2, MethodsAre
<1> QED
  BY <1>1, <1>3, <1>4 DEF MethodName, MethodId

LEMMA MessageIs ==
  ASSUME NEW m \in Transmittable
  PROVE  /\ m.bound \in {"client", "server"} /\ m.status \in Seq(Chars) /\ m.stray \in Seq(Chars)
         /\ m.url \in Seq(Chars) /\ m.content \in Seq(Chars)
         /\ m.context \in Seq(Seq(Chars) \X Seq(Chars))
<1>1. Tokens \subseteq Chars
  BY DEF Chars
<1>2. Seq(Tokens) \subseteq Seq(Chars)
  BY <1>1
<1>3. \A s : s \in Seq(Seq(Tokens) \X Seq(Tokens)) => s \in Seq(Seq(Chars) \X Seq(Chars))
  BY <1>2
<1> QED
  BY <1>1, <1>2, <1>3, HttpAssumption

\* What transmit() has written down to the last byte.
Sendable(m) == /\ m.bound = "client" => m.method \in DOMAIN METHODS
               /\ m.bound = "server" => KnownStatus(m.status)

LEMMA ClientLine ==
  ASSUME NEW m \in Transmittable, Sendable(m), Regular(m), m.bound = "client"
  PROVE  LET line == FirstLine(m)
             u == Len(m.url)
         IN /\ line \in Seq(Chars) /\ u \in Nat \ {0} /\ Len(line) = u + 6
            /\ line[1] = METHODS[m.method] /\ line[2] = SP /\ \A i \in 1 .. u : line[2 + i] = m.url[i]
            /\ line[3 + u] = SP /\ line[4 + u] = "HTTP/1.1" /\ line[5 + u] = "CR" /\ line[6 + u] = "LF"
<1> DEFINE name == METHODS[m.method]
           s == <<name>>
           t == <<SP>>
           v == <<SP, "HTTP/1.1", "CR", "LF">>
           url == m.url
           u == Len(url)
           line == ((s \o t) \o url) \o v
<1>1. m.url \in Seq(Chars) /\ m.url # <<>> /\ m.method \in DOMAIN METHODS /\ name # NoName
  BY MessageIs DEF Sendable, Regular
<1>2. name \in Chars /\ MethodName(m.method) = s
  BY <1>1, NamesAre
<1>3. FirstLine(m) = line
  BY <1>2 DEF FirstLine
<1> HIDE DEF name
<1>4. /\ s \in Seq(Chars) /\ Len(s) = 1 /\ s[1] = name
      /\ t \in Seq(Chars) /\ Len(t) = 1 /\ t[1] = SP
      /\ v \in Seq(Chars) /\ Len(v) = 4 /\ v[1] = SP /\ v[2] = "HTTP/1.1" /\ v[3] = "CR" /\ v[4] = "LF"
  BY <1>2, FixedChars, ShortIs
<1>11. url \in Seq(Chars) /\ u \in Nat \ {0}
  BY <1>1
<1> HIDE DEF s, t, v, url
<1>5. /\ line \in Seq(Chars) /\ Len(line) = Len(s) + Len(t) + u + Len(v)
      /\ \A i \in 1 .. Len(s) : line[i] = s[i]
      /\ \A i \in 1 .. Len(t) : line[Len(s) + i] = t[i]
      /\ \A i \in 1 .. u : line[Len(s) + Len(t) + i] = url[i]
      /\ \A i \in 1 .. Len(v) : line[Len(s) + Len(t) + u + i] = v[i]
  <2> DEFINE y == (s \o t) \o url
  <2>1. s \in Seq(Chars) /\ t \in Seq(Chars) /\ url \in Seq(Chars) /\ v \in Seq(Chars)
    BY <1>11, <1>4
  <2>2. /\ y \in Seq(Chars) /\ Len(y) = Len(s) + Len(t) + u
        /\ \A i \in 1 .. Len(s) : y[i] = s[i]
        /\ \A i \in 1 .. Len(t) : y[Len(s) + i] = t[i]
        /\ \A i \in 1 .. u : y[Len(s) + Len(t) + i] = url[i]
    BY <2>1, ThreeParts
  <2>3. Len(s) \in Nat /\ Len(t) \in Nat /\ u \in Nat
    BY <2>1
  <2>4. line = y \o v
    OBVIOUS
  <2> HIDE DEF y, line, u
  <2>5. y \in Seq(Chars)
    BY <2>2
  <2>6. /\ line \in Seq(Chars) /\ Len(line) = Len(y) + Len(v)
        /\ \A i \in 1 .. Len(y) : line[i] = y[i]
        /\ \A i \in 1 .. Len(v) : line[Len(y) + i] = v[i]
    BY <2>1, <2>4, <2>5, TwoParts
  <2>7. /\ \A i \in 1 .. Len(s) : i \in 1 .. Len(y)
        /\ \A i \in 1 .. Len(t) : Len(s) + i \in 1 .. Len(y)
        /\ \A i \in 1 .. u : Len(s) + Len(t) + i \in 1 .. Len(y)
    BY <2>2, <2>3
  <2> QED
    BY <2>2, <2>6, <2>7
<1>6. u \in Nat \ {0}
  BY <1>11
<1> HIDE DEF line, u
<1>7. line[1] = name /\ line[2] = SP
  <2>1. 1 \in 1 .. Len(s) /\ 1 \in 1 .. Len(t) /\ Len(s) + 1 = 2
    BY <1>4
  <2> QED
    BY <1>4, <1>5, <2>1
<1>8. \A i \in 1 .. u : line[2 + i] = url[i]
  <2>1. Len(s) + Len(t) = 2
    BY <1>4
  <2> QED
    BY <1>5, <2>1
<1>9. line[3 + u] = SP /\ line[4 + u] = "HTTP/1.1" /\ line[5 + u] = "CR" /\ line[6 + u] = "LF"
  <2>1. /\ Len(s) + Len(t) + u + 1 = 3 + u /\ Len(s) + Len(t) + u + 2 = 4 + u
        /\ Len(s) + Len(t) + u + 3 = 5 + u /\ Len(s) + Len(t) + u + 4 = 6 + u
    BY <1>4, <1>6
  <2>2. 1 \in 1 .. Len(v) /\ 2 \in 1 .. Len(v) /\ 3 \in 1 .. Len(v) /\ 4 \in 1 .. Len(v)
    BY <1>4
  <2> QED
    BY <1>4, <1>5, <2>1, <2>2
<1>10. Len(line) = u + 6
  BY <1>4, <1>5, <1>6
<1> QED
  BY <1>3, <1>5, <1>6, <1>7, <1>8, <1>9, <1>10 DEF name, u, url

LEMMA StatusWordsAre ==
  ASSUME NEW m \in Transmittable
  PROVE  /\ StatusWords(m) \in Seq(Chars)
         /\ m.stray = <<>> /\ Len(m.status) = 3 =>
              /\ Len(StatusWords(m)) = 6
              /\ \A i \in 1 .. 3 : StatusWords(m)[2 + i] = m.status[i]
<1> DEFINE name == <<"HTTP/1.1">>
           blank == <<SP>>
           stray == m.stray
           status == m.status
           a == (name \o stray) \o blank
           s == (a \o status) \o blank
<1>1. /\ name \in Seq(Chars) /\ Len(name) = 1 /\ blank \in Seq(Chars) /\ Len(blank) = 1
      /\ stray \in Seq(Chars) /\ status \in Seq(Chars)
  BY FixedChars, MessageIs
<1>2. StatusWords(m) = s
  BY DEF StatusWords
<1> HIDE DEF name, blank, stray, status
<1>3. a \in Seq(Chars) /\ Len(a) = Len(name) + Len(stray) + Len(blank) /\ Len(stray) \in Nat
  <2>1. name \in Seq(Chars) /\ stray \in Seq(Chars) /\ blank \in Seq(Chars)
    BY <1>1
  <2> QED
    BY <2>1, ThreeParts
<1> HIDE DEF a
<1>4. /\ s \in Seq(Chars) /\ Len(s) = Len(a) + Len(status) + Len(blank)
      /\ \A i \in 1 .. Len(status) : s[Len(a) + i] = status[i]
  <2>1. a \in Seq(Chars) /\ status \in Seq(Chars) /\ blank \in Seq(Chars)
    BY <1>1, <1>3
  <2> QED
    BY <2>1, ThreeParts
<1> HIDE DEF s
<1>5. ASSUME stray = <<>>, Len(status) = 3
      PROVE  Len(s) = 6 /\ \A i \in 1 .. 3 : s[2 + i] = status[i]
  <2>1. Len(a) = 2
    BY <1>1, <1>3, <1>5
  <2> QED
    BY <1>1, <1>4, <1>5, <2>1
<1> QED
  BY <1>2, <1>4, <1>5 DEF stray, status

LEMMA ServerLine ==
  ASSUME NEW m \in Transmittable, Sendable(m), m.bound = "server"
  PROVE  LET line == FirstLine(m)
             n == Len(line)
         IN /\ line \in Seq(Chars)
            /\ Regular(m) => /\ n \in Nat /\ n >= 9 /\ line[n] = "LF"
                             /\ \A i \in 7 .. n - 1 : line[i] # "LF"
                             /\ Len(m.status) = 3 /\ \A i \in 1 .. 3 : line[2 + i] = m.status[i]
<1>1. KnownStatus(m.status)
  BY DEF Sendable
<1> DEFINE text == StatusText(m.status)
           status == m.status
           s == StatusWords(m)
           v == <<"CR", "LF">>
           line == (s \o text) \o v
           k == Len(text)
<1>2. /\ text \in Seq(Chars) /\ k \in Nat \ {0}
      /\ \A i \in 1 .. k : text[i] # "LF"
  <2>1. text = <<"OK">> \/ text = <<"Partial", SP, "Content">>
    BY <1>1 DEF KnownStatus, StatusText
  <2> HIDE DEF text
  <2>2. CASE text = <<"OK">>
    BY <2>2, FixedChars
  <2>3. CASE text = <<"Partial", SP, "Content">>
    <3>1. text \in Seq(Chars) /\ k = 3 /\ text[1] = "Partial" /\ text[2] = SP /\ text[3] = "Content"
      BY <2>3, FixedChars, ShortIs
    <3>2. \A i \in 1 .. 3 : i = 1 \/ i = 2 \/ i = 3
      OBVIOUS
    <3>3. \A i \in 1 .. k : text[i] # "LF"
      BY <3>1, <3>2, BlankIs
    <3> QED
      BY <3>1, <3>3
  <2> QED
    BY <2>1, <2>2, <2>3
<1>3. FirstLine(m) = line
  BY DEF FirstLine
<1>4. Len(status) = 3
  <2>1. status = <<"two", "zero", "zero">> \/ status = <<"two", "zero", "six">>
    BY <1>1 DEF KnownStatus, StatusText
  <2> HIDE DEF status
  <2> QED
    BY <2>1
<1> HIDE DEF text
<1>5. /\ s \in Seq(Chars) /\ v \in Seq(Chars) /\ Len(v) = 2 /\ v[1] = "CR" /\ v[2] = "LF"
      /\ Regular(m) => Len(s) = 6 /\ \A i \in 1 .. 3 : s[2 + i] = status[i]
  <2>1. v \in Seq(Chars) /\ Len(v) = 2 /\ v[1] = "CR" /\ v[2] = "LF"
    BY FixedChars, ShortIs
  <2>2. Regular(m) => m.stray = <<>>
    BY DEF Regular
  <2> QED
    BY <1>4, <2>1, <2>2, StatusWordsAre
<1> HIDE DEF s, v, status
<1>6. /\ line \in Seq(Chars) /\ Len(line) = Len(s) + k + Len(v)
      /\ \A i \in 1 .. Len(s) : line[i] = s[i]
      /\ \A i \in 1 .. k : line[Len(s) + i] = text[i]
      /\ \A i \in 1 .. Len(v) : line[Len(s) + k + i] = v[i]
  <2>1. s \in Seq(Chars) /\ text \in Seq(Chars) /\ v \in Seq(Chars)
    BY <1>2, <1>5
  <2> QED
    BY <2>1, ThreeParts
<1> HIDE DEF line, k
<1>7. ASSUME Regular(m)
      PROVE  /\ Len(line) \in Nat /\ Len(line) >= 9 /\ line[Len(line)] = "LF"
             /\ \A i \in 7 .. Len(line) - 1 : line[i] # "LF"
             /\ Len(status) = 3 /\ \A i \in 1 .. 3 : line[2 + i] = status[i]
  <2>1. Len(s) = 6 /\ \A i \in 1 .. 3 : s[2 + i] = status[i]
    BY <1>5, <1>7
  <2>2. Len(line) = k + 8 /\ k + 8 \in Nat /\ k + 8 >= 9
    BY <1>2, <1>5, <1>6, <2>1
  <2>3. \A i \in 1 .. 3 : line[2 + i] = status[i]
    <3>1. \A i \in 1 .. 3 : 2 + i \in 1 .. Len(s)
      BY <2>1
    <3> QED
      BY <1>6, <2>1, <3>1
  <2>4. line[7 + k] = "CR" /\ line[8 + k] = "LF"
    <3>1. 1 \in 1 .. Len(v) /\ 2 \in 1 .. Len(v) /\ Len(s) + k + 1 = 7 + k /\ Len(s) + k + 2 = 8 + k
      BY <1>2, <1>5, <2>1
    <3> QED
      BY <1>5, <1>6, <3>1
  <2>5. \A i \in 7 .. k + 7 : line[i] # "LF"
    <3> SUFFICES ASSUME NEW i \in 7 .. k + 7 PROVE line[i] # "LF"
      OBVIOUS
    <3>1. CASE i = 7 + k
      BY <2>4, <3>1
    <3>2. CASE i # 7 + k
      <4>1. i - 6 \in 1 .. k /\ Len(s) + (i - 6) = i
        BY <1>2, <2>1, <3>2
      <4> QED
        BY <1>2, <1>6, <4>1, ZenonT(30)
    <3> QED
      BY <3>1, <3>2
  <2>6. k + 8 = 8 + k /\ k + 8 - 1 = k + 7
    BY <1>2
  <2>7. Len(line) \in Nat /\ Len(line) >= 9 /\ line[Len(line)] = "LF"
    <3>1. Len(line) = 8 + k
      BY <2>2, <2>6
    <3> QED
      BY <2>2, <2>4, <3>1
  <2>8. \A i \in 7 .. Len(line) - 1 : line[i] # "LF"
    <3>1. Len(line) = 8 + k /\ k \in Nat
      BY <1>2, <2>2, <2>6
    <3>2. Len(line) - 1 = k + 7
      BY <3>1
    <3> QED
      BY <2>5, <3>2
  <2> QED
    BY <1>4, <2>3, <2>7, <2>8
<1> QED
  BY <1>3, <1>6, <1>7 DEF status

\* The first line is read once it is there: its words, and no token more.
LEMMA FirstRead ==
  ASSUME NEW m \in Transmittable, Sendable(m), Regular(m),
         NEW W \in Seq(Chars), NEW A \in Seq(Chars), Begins(A, W), At(W, 0, FirstLine(m))
  PROVE  LET r == ReadFirst(A, m.bound)
         IN r.status = "ok" =>
              /\ r.pos = Len(FirstLine(m)) + 1 /\ r.pos <= Len(A) + 1
              /\ IF m.bound = "client" THEN r.words[1] = <<METHODS[m.method]>> /\ r.words[2] = m.url
                                       ELSE r.words[1] = m.status
<1> DEFINE line == FirstLine(m)
           n == Len(line)
           r == ReadFirst(A, m.bound)
           N == Len(A)
<1>1. m.bound \in {"client", "server"} /\ m.url \in Seq(Chars)
  BY MessageIs
<1>2. CASE m.bound = "client"
  <2> DEFINE u == Len(m.url)
             begin == [words |-> <<>>, pos |-> 1, status |-> "ok"]
             one == ReadWord(A, begin)
             two == ReadWord(A, one)
             three == ReadWord(A, two)
  <2>1. /\ line \in Seq(Chars) /\ u \in Nat \ {0} /\ n = u + 6
        /\ line[1] = METHODS[m.method] /\ line[2] = SP /\ \A i \in 1 .. u : line[2 + i] = m.url[i]
        /\ line[3 + u] = SP /\ line[4 + u] = "HTTP/1.1" /\ line[5 + u] = "CR" /\ line[6 + u] = "LF"
    BY <1>2, ClientLine
  <2>2. METHODS[m.method] \notin Space /\ MethodId(METHODS[m.method]) = {m.method}
        /\ \A i \in 1 .. u : m.url[i] \notin Space
    <3>1. m.method \in DOMAIN METHODS /\ METHODS[m.method] # NoName /\ \A i \in DOMAIN m.url : m.url[i] \notin Space
      BY <1>2 DEF Sendable, Regular
    <3> QED
      BY <3>1, <1>1, NamesAre
  <2> HIDE DEF line
  <2>3. n <= Len(W) /\ \A i \in 1 .. n : W[i] = line[i]
    <3>1. 0 + n <= Len(W) /\ \A i \in 1 .. n : W[0 + i] = line[i]
      BY DEF At, line
    <3>2. n \in Nat /\ 0 + n = n
      BY <2>1
    <3>3. \A i \in 1 .. n : 0 + i = i
      OBVIOUS
    <3> QED
      BY <3>1, <3>2, <3>3
  <2>4. /\ W[1] \notin Space /\ W[2] \in Space /\ W[1] = METHODS[m.method]
        /\ \A i \in 1 .. u : W[2 + i] = m.url[i] /\ W[2 + i] \notin Space
        /\ W[3 + u] \in Space /\ W[4 + u] \notin Space /\ W[5 + u] \in Space
    <3>1. \A i \in 1 .. u : W[2 + i] = m.url[i] /\ W[2 + i] \notin Space
      <4>1. \A i \in 1 .. u : 2 + i \in 1 .. n
        BY <2>1
      <4> HIDE DEF n, u
      <4> QED
        BY <2>1, <2>2, <2>3, <4>1
    <3>2. 1 \in 1 .. n /\ 2 \in 1 .. n /\ 3 + u \in 1 .. n /\ 4 + u \in 1 .. n /\ 5 + u \in 1 .. n
      BY <2>1, SMTT(30)
    <3> HIDE DEF n, u
    <3>3. W[1] = METHODS[m.method] /\ W[2] = SP /\ W[3 + u] = SP /\ W[4 + u] = "HTTP/1.1" /\ W[5 + u] = "CR"
      BY <2>1, <2>3, <3>2
    <3> QED
      BY <2>2, <3>1, <3>3, FixedChars
  <2>5. /\ begin.pos = 1 /\ begin.status = "ok" /\ begin.words = <<>>
    OBVIOUS
  <2> HIDE DEF begin
  <2> DEFINE q1 == 1
             e1 == 2
             q2 == 3
             e2 == 3 + u
             q3 == 4 + u
             e3 == 5 + u
  <2>6. /\ q1 \in Nat \ {0} /\ e1 \in Nat \ {0} /\ q2 \in Nat /\ e2 \in Nat \ {0} /\ q3 \in Nat /\ e3 \in Nat
        /\ q1 < e1 /\ e1 <= q2 /\ q2 < e2 /\ e2 <= q3 /\ q3 < e3
        /\ e1 <= Len(W) /\ e2 <= Len(W) /\ e3 <= Len(W) /\ e3 + 1 = n /\ e3 - 1 = q3 /\ n \in Nat
        /\ begin.pos = q1 /\ q1 <= N + 1 /\ N \in Nat
    BY <2>1, <2>3, <2>5, SMTT(30)
  <2>7. WordAt(W, q1, q1, e1)
    BY <2>4, <2>6 DEF WordAt
  <2>8. WordAt(W, e1, q2, e2)
    <3>1. \A i \in q2 .. e2 - 1 : i - 2 \in 1 .. u /\ 2 + (i - 2) = i
      BY <2>1
    <3>2. \A i \in e1 .. q2 - 1 : i = 2
      OBVIOUS
    <3>3. \A i \in q2 .. e2 - 1 : W[i] \notin Space
      <4> HIDE DEF q2, e2, u
      <4> QED
        BY <2>4, <3>1
    <3> QED
      BY <2>4, <2>6, <3>2, <3>3 DEF WordAt
  <2>9. WordAt(W, e2, q3, e3)
    <3>1. /\ \A i \in e2 .. q3 - 1 : i = 3 + u
          /\ \A i \in q3 .. e3 - 1 : i = 4 + u
      BY <2>1
    <3> QED
      BY <2>4, <2>6, <3>1 DEF WordAt
  <2>10. q1 = 1 /\ SubSeq(W, q1, e1 - 1) = <<METHODS[m.method]>> /\ SubSeq(W, q2, e2 - 1) = m.url
    <3>1. SubSeq(W, q1, e1 - 1) = <<METHODS[m.method]>>
      <4>1. q1 \in 1 .. Len(W) /\ e1 - 1 = q1 /\ W[q1] = METHODS[m.method]
        BY <2>3, <2>4, <2>6
      <4> HIDE DEF q1, e1
      <4>2. SubSeq(W, q1, q1) = <<W[q1]>>
        BY <4>1, OneIs
      <4> QED
        BY <4>1, <4>2
    <3>2. q2 \in Nat \ {0} /\ e2 - 1 \in Nat /\ e2 - 1 <= Len(W) /\ e2 - 1 = q2 + u - 1
          /\ \A i \in 1 .. u : q2 + i - 1 = 2 + i
      BY <2>1, <2>6, SMTT(30)
    <3>3. SubSeq(W, q2, e2 - 1) = m.url
      <4> DEFINE b == e2 - 1
      <4> HIDE DEF q2, e2, b
      <4>1. q2 \in Nat \ {0} /\ b \in Nat /\ b <= Len(W) /\ b = q2 + Len(m.url) - 1
            /\ \A i \in 1 .. Len(m.url) : W[q2 + i - 1] = m.url[i]
        BY <2>4, <3>2 DEF b
      <4>2. SubSeq(W, q2, b) = m.url
        BY <1>1, <4>1, SliceIs
      <4> QED
        BY <4>2 DEF b
    <3> QED
      BY <2>4, <3>1, <3>3
  <2> HIDE DEF q1, e1, q2, e2, q3, e3, one, two, three
  <2>11. /\ one.status \in {"wait", "ok"}
         /\ one.status # "wait" => e1 <= N /\ one.pos = e1 /\ one.words = Append(begin.words, SubSeq(W, q1, e1 - 1))
    <3>1. Ready(A, W, begin, q1, e1)
      BY <2>5, <2>6, <2>7 DEF Ready
    <3>2. /\ ReadWord(A, begin).status \in {"wait", begin.status}
          /\ ReadWord(A, begin).status # "wait" =>
               /\ e1 <= N /\ ReadWord(A, begin).pos = e1
               /\ ReadWord(A, begin).words = Append(begin.words, SubSeq(W, q1, e1 - 1))
      BY <3>1, WordRead
    <3> QED
      BY <2>5, <3>2 DEF one
  <2>12. ASSUME one.status = "ok"
         PROVE  /\ two.status \in {"wait", "ok"}
                /\ two.status # "wait" =>
                     e2 <= N /\ two.pos = e2 /\ two.words = Append(one.words, SubSeq(W, q2, e2 - 1))
    <3>1. Ready(A, W, one, q2, e2)
      BY <2>6, <2>8, <2>11, <2>12 DEF Ready
    <3>2. /\ ReadWord(A, one).status \in {"wait", one.status}
          /\ ReadWord(A, one).status # "wait" =>
               /\ e2 <= N /\ ReadWord(A, one).pos = e2
               /\ ReadWord(A, one).words = Append(one.words, SubSeq(W, q2, e2 - 1))
      BY <3>1, WordRead
    <3> QED
      BY <2>12, <3>2 DEF two
  <2>13. ASSUME one.status = "ok", two.status = "ok"
         PROVE  /\ three.status \in {"wait", "ok"}
                /\ three.status # "wait" =>
                     e3 <= N /\ three.pos = e3 /\ three.words = Append(two.words, SubSeq(W, q3, e3 - 1))
    <3>1. Ready(A, W, two, q3, e3)
      BY <2>6, <2>9, <2>12, <2>13 DEF Ready
    <3>2. /\ ReadWord(A, two).status \in {"wait", two.status}
          /\ ReadWord(A, two).status # "wait" =>
               /\ e3 <= N /\ ReadWord(A, two).pos = e3
               /\ ReadWord(A, two).words = Append(two.words, SubSeq(W, q3, e3 - 1))
      BY <3>1, WordRead
    <3> QED
      BY <2>13, <3>2 DEF three
  <2>14. /\ one.status = "wait" => two.status = "wait"
         /\ two.status = "wait" => three.status = "wait"
    BY DEF two, three, ReadWord
  <2>15. three.status \in {"wait", "ok"}
    BY <2>11, <2>12, <2>13, <2>14
  <2>16. r = IF three.status = "wait" \/ three.pos + 1 > N THEN [three EXCEPT !.status = "wait"]
             ELSE [three EXCEPT !.pos = @ + 2,
                                !.status = IF MethodId(three.words[1][1]) = {} THEN "throw" ELSE "ok"]
    BY <1>2 DEF ReadFirst, three, two, one, begin
  <2>17. PICK words, pos, status : three = [words |-> words, pos |-> pos, status |-> status]
    BY ReadShape DEF three
  <2>18. ASSUME r.status = "ok"
         PROVE  /\ three.status = "ok" /\ ~(three.pos + 1 > N)
                /\ r.pos = three.pos + 2 /\ r.words = three.words
    <3>1. CASE three.status = "wait" \/ three.pos + 1 > N
      BY <2>16, <2>17, <2>18, <3>1
    <3>2. CASE ~(three.status = "wait" \/ three.pos + 1 > N)
      BY <2>15, <2>16, <2>17, <3>2
    <3> QED
      BY <3>1, <3>2
  <2> HIDE DEF r
  <2>19. ASSUME r.status = "ok"
         PROVE  r.pos = n + 1 /\ r.pos <= N + 1 /\ r.words[1] = <<METHODS[m.method]>> /\ r.words[2] = m.url
    <3>1. one.status = "ok" /\ two.status = "ok" /\ three.status = "ok"
      BY <2>11, <2>12, <2>13, <2>14, <2>18, <2>19
    <3>2. three.pos = e3 /\ e3 <= N /\ ~(e3 + 1 > N)
      BY <2>13, <2>18, <2>19, <3>1
    <3>3. three.words = Append(Append(Append(begin.words, <<METHODS[m.method]>>), m.url), SubSeq(W, q3, e3 - 1))
      BY <2>10, <2>11, <2>12, <2>13, <3>1
    <3>4. three.words[1] = <<METHODS[m.method]>> /\ three.words[2] = m.url
      BY <2>5, <3>3
    <3>5. r.pos = e3 + 2 /\ r.words = three.words
      BY <2>18, <2>19, <3>2
    <3>6. e3 + 2 = n + 1 /\ e3 + 2 <= N + 1
      BY <2>6, <3>2
    <3> QED
      BY <3>4, <3>5, <3>6
  <2> QED
    BY <1>2, <2>19 DEF r, line
<1>3. CASE m.bound = "server"
  <2> DEFINE ends == {i \in 7 .. N + 7 : i > N \/ A[i] = "LF"}
             end == Min(ends)
             reason == {i \in 7 .. end - 1 : i <= N /\ A[i] # "CR"}
             long == Cardinality(reason) > ReasonRoom
  <2>1. /\ line \in Seq(Chars) /\ n \in Nat /\ n >= 9
        /\ line[n] = "LF" /\ \A i \in 7 .. n - 1 : line[i] # "LF"
        /\ Len(m.status) = 3 /\ \A i \in 1 .. 3 : line[2 + i] = m.status[i]
    BY <1>3, ServerLine
  <2> HIDE DEF line
  <2>2. n <= Len(W) /\ \A i \in 1 .. n : W[i] = line[i]
    <3>1. 0 + n <= Len(W) /\ \A i \in 1 .. n : W[0 + i] = line[i]
      BY DEF At, line
    <3> QED
      BY <3>1, <2>1
  <2>3. N \in Nat /\ N <= Len(W) /\ \A i \in 1 .. N : A[i] = W[i]
    BY DEF Begins
  <2> HIDE DEF n, N
  <2>4. ends \in SUBSET Nat /\ N + 7 \in ends
    BY <2>3
  <2>5. end \in ends /\ \A i \in ends : end <= i
    <3> HIDE DEF ends
    <3> QED
      BY <2>4, LeastNumber DEF Min
  <2>6. \A i \in 7 .. n - 1 : i <= N => A[i] # "LF"
    <3> TAKE i \in 7 .. n - 1
    <3>1. i \in 1 .. n
      BY <2>1
    <3>2. i <= N => i \in 1 .. N
      BY <2>3
    <3> QED
      BY <2>1, <2>2, <2>3, <3>1, <3>2
  <2>7. end \in 7 .. N + 7 /\ (end > N \/ A[end] = "LF")
    BY <2>5
  <2>8. n <= N => n \in ends
    <3>1. n <= N => n \in 1 .. N /\ n \in 1 .. n /\ n \in 7 .. N + 7
      BY <2>1, <2>3
    <3> QED
      BY <2>1, <2>2, <2>3, <3>1
  <2>9. r = IF long THEN [words |-> <<>>, pos |-> end, status |-> "fault"]
            ELSE IF end > N THEN [words |-> <<>>, pos |-> end, status |-> "wait"]
            ELSE [words |-> <<SubSeq(A, 3, 5)>>, pos |-> end + 1, status |-> "ok"]
    BY <1>3 DEF ReadFirst, N
  <2> HIDE DEF ends, end, long
  <2>10. end <= N => end = n
    <3>1. end <= N => end >= n
      BY <2>1, <2>3, <2>6, <2>7
    <3>2. n <= N => end <= n
      BY <2>5, <2>8
    <3> QED
      BY <2>1, <2>3, <2>7, <3>1, <3>2
  <2> HIDE DEF r
  <2>11. ASSUME r.status = "ok" PROVE end <= N /\ r.pos = end + 1 /\ r.words = <<SubSeq(A, 3, 5)>>
    <3>1. CASE long
      BY <2>9, <2>11, <3>1
    <3>2. CASE ~long
      BY <2>3, <2>7, <2>9, <2>11, <3>2
    <3> QED
      BY <3>1, <3>2
  <2>12. ASSUME r.status = "ok" PROVE r.pos = n + 1 /\ r.pos <= N + 1 /\ r.words[1] = m.status
    <3>1. end = n /\ n <= N
      BY <2>10, <2>11, <2>12
    <3> DEFINE two == 2
               status == m.status
    <3>2. two \in Nat /\ At(W, two, status) /\ two + Len(status) <= Len(A) /\ two + 1 = 3 /\ two + Len(status) = 5
      <4>1. \A i \in 1 .. 3 : 2 + i \in 1 .. n
        BY <2>1
      <4>2. \A i \in 1 .. 3 : W[2 + i] = status[i]
        BY <2>1, <2>2, <4>1
      <4>3. 2 + 3 <= N /\ 2 + 3 <= Len(W)
        BY <2>1, <2>3, <3>1
      <4> HIDE DEF status
      <4>4. Len(status) = 3
        BY <2>1 DEF status
      <4> QED
        BY <4>2, <4>3, <4>4 DEF At, N
    <3>3. status \in Seq(Chars)
      BY MessageIs
    <3> HIDE DEF two, status
    <3>4. SubSeq(A, two + 1, two + Len(status)) = status
      BY <3>2, <3>3, PieceIs
    <3>5. SubSeq(A, 3, 5) = status
      BY <3>2, <3>4
    <3>6. r.pos = n + 1 /\ r.words[1] = SubSeq(A, 3, 5)
      BY <2>11, <2>12, <3>1
    <3>7. n + 1 <= N + 1
      BY <2>1, <2>3, <3>1
    <3> QED
      BY <3>5, <3>6, <3>7 DEF status
  <2> QED
    BY <1>3, <2>12 DEF r, n, N, line
<1> QED
  BY <1>1, <1>2, <1>3

-----------------------------------------------------------------------------
(* Headers.                                                                    *)

Pairs == Seq(Chars) \X Seq(Chars)
StatesOf(S, T) ==
  [key : S, val : S, cur : S, type : {0, 1}, skip : BOOLEAN, line : BOOLEAN, done : BOOLEAN,
   context : T, pos : Nat]
HeaderStates == StatesOf(Seq(Chars), Seq(Pairs))

\* receive() in front of a header, and behind character i.
AtHeader(pos) ==
  [key |-> <<>>, val |-> <<"garbage">>, cur |-> <<>>, type |-> 0, skip |-> FALSE,
   line |-> FALSE, done |-> FALSE, context |-> <<>>, pos |-> pos]
OneStep(st, ch, i) == IF st.done THEN st ELSE [HeaderStep(st, ch) EXCEPT !.pos = i + 1]

\* The header read from behind f on.
Run(W, f, g) ==
  /\ g \in [f .. Len(W) -> HeaderStates] /\ g[f] = AtHeader(f + 1)
  /\ \A i \in f + 1 .. Len(W) : g[i] = OneStep(g[i - 1], W[i], i)

LEMMA NamedIs ==
  ASSUME NEW context \in Seq(Pairs), NEW label \in Seq(Chars), NEW value \in Seq(Chars)
  PROVE  /\ Named(context, label) \in Seq(Pairs) /\ Assigned(context, label, value) \in Seq(Pairs)
         /\ (\A i \in 1 .. Len(context) : context[i][1] # label) =>
              Assigned(context, label, value) = Append(context, <<label, value>>)
<1> DEFINE none == <<>>
           more == Append(context, <<label, none>>)
           named == Named(context, label)
           given == [i \in DOMAIN named |-> IF named[i][1] = label THEN <<label, value>> ELSE named[i]]
           n == Len(context)
<1>1. n \in Nat /\ DOMAIN context = 1 .. n /\ none \in Seq(Chars)
  OBVIOUS
<1>2. <<label, none>> \in Pairs /\ <<label, value>> \in Pairs /\ <<label, none>>[1] = label
  BY <1>1 DEF Pairs
<1> HIDE DEF none
<1>3. /\ more \in Seq(Pairs) /\ Len(more) = n + 1 /\ more[n + 1] = <<label, none>>
      /\ \A i \in 1 .. n : more[i] = context[i]
  BY <1>2
<1>4. named = (IF contain(context, label) THEN context ELSE more)
  BY DEF Named, none
<1> HIDE DEF more
<1>5. named \in Seq(Pairs)
  BY <1>3, <1>4
<1> HIDE DEF named
<1>6. given \in Seq(Pairs) /\ Len(given) = Len(named)
  <2> DEFINE part(i) == IF named[i][1] = label THEN <<label, value>> ELSE named[i]
             l == Len(named)
  <2>1. DOMAIN named = 1 .. l /\ l \in Nat
    BY <1>5
  <2>2. \A i \in 1 .. l : part(i) \in Pairs
    BY <1>2, <1>5
  <2>3. given = [i \in 1 .. l |-> part(i)]
    BY <2>1
  <2> HIDE DEF part, l, given
  <2> QED
    BY <2>1, <2>2, <2>3 DEF l
<1>7. Assigned(context, label, value) = given
  BY DEF Assigned, named
<1>8. ASSUME \A i \in 1 .. n : context[i][1] # label PROVE given = Append(context, <<label, value>>)
  <2> DEFINE final == Append(context, <<label, value>>)
  <2>1. ~ contain(context, label)
    BY <1>1, <1>8 DEF contain
  <2>2. named = more
    BY <1>4, <2>1
  <2>3. /\ final \in Seq(Pairs) /\ Len(final) = n + 1 /\ final[n + 1] = <<label, value>>
        /\ \A i \in 1 .. n : final[i] = context[i]
    BY <1>2
  <2> HIDE DEF final
  <2>4. DOMAIN named = 1 .. n + 1
    BY <1>1, <1>3, <2>2
  <2>5. \A i \in 1 .. n + 1 : given[i] = final[i]
    <3> TAKE i \in 1 .. n + 1
    <3>1. given[i] = IF named[i][1] = label THEN <<label, value>> ELSE named[i]
      BY <2>4
    <3>2. CASE i = n + 1
      BY <1>2, <1>3, <2>2, <2>3, <3>1, <3>2
    <3>3. CASE i # n + 1
      <4>1. i \in 1 .. n
        BY <1>1, <3>3
      <4>2. named[i] = context[i] /\ final[i] = context[i] /\ context[i][1] # label
        BY <1>3, <1>8, <2>2, <2>3, <4>1
      <4> QED
        BY <3>1, <4>2
    <3> QED
      BY <3>2, <3>3
  <2>6. Len(given) = n + 1
    BY <1>3, <1>6, <2>2
  <2> HIDE DEF given
  <2>7. given = final
    BY <1>1, <1>6, <2>3, <2>5, <2>6
  <2> QED
    BY <2>7 DEF final
<1> HIDE DEF given
<1> QED
  BY <1>5, <1>6, <1>7, <1>8 DEF named

LEMMA AtHeaderIs ==
  ASSUME NEW pos \in Nat
  PROVE  AtHeader(pos) \in HeaderStates
<1>1. <<>> \in Seq(Chars) /\ <<"garbage">> \in Seq(Chars) /\ <<>> \in Seq(Pairs)
  BY FixedChars
<1> QED
  BY <1>1 DEF AtHeader, HeaderStates, StatesOf

\* What a character does.
LEMMA CharRead ==
  ASSUME NEW st \in HeaderStates, NEW ch \in Chars, NEW i \in Nat, ~ st.done
  PROVE  LET x == OneStep(st, ch, i)
             label == IF st.type = 0 THEN st.cur ELSE st.key
             val == IF st.type = 0 THEN st.val ELSE st.cur
         IN /\ x \in HeaderStates /\ x.pos = i + 1
            /\ st.skip => /\ x.key = st.key /\ x.val = st.val /\ x.cur = st.cur /\ x.type = st.type
                          /\ ~ x.skip /\ x.line = st.line /\ ~ x.done /\ x.context = st.context
            /\ ~ st.skip /\ ch = "LF" /\ ~ st.line => x.done /\ x.context = st.context
            /\ ~ st.skip /\ ch = "LF" /\ st.line =>
                 /\ x.key = label /\ x.val = val /\ x.cur = <<>> /\ x.type = 0 /\ ~ x.skip /\ ~ x.line /\ ~ x.done
                 /\ x.context = Assigned(st.context, label, val)
            /\ ~ st.skip /\ ch = ":" /\ st.type = 0 =>
                 /\ x.key = st.cur /\ x.val = st.val /\ x.cur = <<>> /\ x.type = 1 /\ x.skip /\ x.line /\ ~ x.done
                 /\ x.context = st.context
            /\ ~ st.skip /\ ch = "CR" =>
                 /\ x.key = st.key /\ x.val = st.val /\ x.cur = st.cur /\ x.type = st.type
                 /\ ~ x.skip /\ x.line = st.line /\ ~ x.done /\ x.context = st.context
            /\ ~ st.skip /\ ch \notin {"CR", "LF"} /\ (ch # ":" \/ st.type = 1) =>
                 /\ x.key = st.key /\ x.val = st.val /\ x.cur = Append(st.cur, ch) /\ x.type = st.type
                 /\ ~ x.skip /\ x.line /\ ~ x.done /\ x.context = st.context
<1> DEFINE x == OneStep(st, ch, i)
           label == IF st.type = 0 THEN st.cur ELSE st.key
           val == IF st.type = 0 THEN st.val ELSE st.cur
           line == st.line \/ ch \notin {"CR", "LF"}
           none == <<>>
           longer == Append(st.cur, ch)
           more == Assigned(st.context, label, val)
           y == HeaderStep(st, ch)
           next == i + 1
           S == Seq(Chars)
           T == Seq(Pairs)
<1>1. /\ st.key \in Seq(Chars) /\ st.val \in Seq(Chars) /\ st.cur \in Seq(Chars) /\ st.type \in {0, 1}
      /\ st.skip \in BOOLEAN /\ st.line \in BOOLEAN /\ st.context \in Seq(Pairs)
      /\ none \in Seq(Chars) /\ longer \in Seq(Chars)
  BY DEF HeaderStates, StatesOf
<1>2. label \in Seq(Chars) /\ val \in Seq(Chars) /\ line \in BOOLEAN
  BY <1>1
<1>3. more \in Seq(Pairs)
  <2> HIDE DEF label, val
  <2> QED
    BY <1>1, <1>2, NamedIs
<1>4. y = IF st.skip THEN [st EXCEPT !.skip = FALSE]
          ELSE IF ch = "LF"
          THEN IF ~line THEN [st EXCEPT !.done = TRUE]
               ELSE [st EXCEPT !.key = label, !.val = val, !.context = more,
                               !.cur = none, !.type = 0, !.line = FALSE]
          ELSE IF ch = ":" /\ st.type = 0
          THEN [st EXCEPT !.key = st.cur, !.cur = none, !.type = 1, !.skip = TRUE, !.line = line]
          ELSE IF ch = "CR" THEN st
          ELSE [st EXCEPT !.cur = longer, !.line = line]
  BY DEF HeaderStep
<1>5. x = [y EXCEPT !.pos = next] /\ next \in Nat
  BY DEF OneStep
<1>0. st \in StatesOf(S, T)
  BY DEF HeaderStates
<1>12. /\ label \in S /\ val \in S /\ line \in BOOLEAN /\ more \in T /\ none \in S /\ longer \in S
       /\ st.cur \in S
  BY <1>1, <1>2, <1>3
<1> HIDE DEF label, val, more, longer, y, none, line, x, next, S, T
<1>6. CASE st.skip
  <2>1. y = [st EXCEPT !.skip = FALSE]
    BY <1>4, <1>6
  <2>2. /\ x \in StatesOf(S, T) /\ x.pos = next
        /\ x.key = st.key /\ x.val = st.val /\ x.cur = st.cur /\ x.type = st.type
        /\ ~ x.skip /\ x.line = st.line /\ ~ x.done /\ x.context = st.context
    BY <1>0, <1>5, <2>1 DEF StatesOf
  <2> QED
    BY <1>6, <2>2 DEF HeaderStates, S, T, next, x
<1>7. CASE ~ st.skip /\ ch = "LF" /\ ~ st.line
  <2>1. ~ line
    BY <1>7 DEF line
  <2>2. y = [st EXCEPT !.done = TRUE]
    BY <1>4, <1>7, <2>1
  <2>3. x \in StatesOf(S, T) /\ x.pos = next /\ x.done /\ x.context = st.context
    BY <1>0, <1>5, <2>2 DEF StatesOf
  <2> QED
    BY <1>7, <2>3 DEF HeaderStates, S, T, next, x
<1>8. CASE ~ st.skip /\ ch = "LF" /\ st.line
  <2>1. line
    BY <1>8 DEF line
  <2>2. y = [st EXCEPT !.key = label, !.val = val, !.context = more, !.cur = none, !.type = 0, !.line = FALSE]
    BY <1>4, <1>8, <2>1
  <2>3. /\ x \in StatesOf(S, T) /\ x.pos = next
        /\ x.key = label /\ x.val = val /\ x.cur = none /\ x.type = 0 /\ ~ x.skip /\ ~ x.line /\ ~ x.done
        /\ x.context = more
    BY <1>0, <1>12, <1>5, <1>8, <2>2 DEF StatesOf
  <2> QED
    BY <1>8, <2>3 DEF HeaderStates, S, T, next, x, label, val, more, none
<1>9. CASE ~ st.skip /\ ch = ":" /\ st.type = 0
  <2>1. line
    BY <1>9 DEF line
  <2>2. y = [st EXCEPT !.key = st.cur, !.cur = none, !.type = 1, !.skip = TRUE, !.line = line]
    BY <1>4, <1>9
  <2>3. /\ x \in StatesOf(S, T) /\ x.pos = next
        /\ x.key = st.cur /\ x.val = st.val /\ x.cur = none /\ x.type = 1 /\ x.skip /\ x.line /\ ~ x.done
        /\ x.context = st.context
    BY <1>0, <1>12, <1>5, <1>9, <2>1, <2>2 DEF StatesOf
  <2> QED
    BY <1>9, <2>3 DEF HeaderStates, S, T, next, x, none
<1>10. CASE ~ st.skip /\ ch = "CR"
  <2>1. y = st
    BY <1>4, <1>10
  <2>2. /\ x \in StatesOf(S, T) /\ x.pos = next
        /\ x.key = st.key /\ x.val = st.val /\ x.cur = st.cur /\ x.type = st.type
        /\ ~ x.skip /\ x.line = st.line /\ ~ x.done /\ x.context = st.context
    BY <1>0, <1>5, <1>10, <2>1 DEF StatesOf
  <2> QED
    BY <1>10, <2>2 DEF HeaderStates, S, T, next, x
<1>11. CASE ~ st.skip /\ ch \notin {"CR", "LF"} /\ ~ (ch = ":" /\ st.type = 0)
  <2>1. line
    BY <1>11 DEF line
  <2>2. y = [st EXCEPT !.cur = longer, !.line = line]
    BY <1>4, <1>11
  <2>3. /\ x \in StatesOf(S, T) /\ x.pos = next
        /\ x.key = st.key /\ x.val = st.val /\ x.cur = longer /\ x.type = st.type
        /\ ~ x.skip /\ x.line /\ ~ x.done /\ x.context = st.context
    BY <1>0, <1>12, <1>5, <1>11, <2>1, <2>2 DEF StatesOf
  <2> QED
    BY <1>11, <2>3 DEF HeaderStates, S, T, next, x, longer
<1> QED
  BY <1>1, <1>6, <1>7, <1>8, <1>9, <1>10, <1>11 DEF HeaderStates, S, T, next, x

LEMMA PastIs ==
  ASSUME NEW st \in HeaderStates, NEW ch \in Chars, NEW i \in Nat
  PROVE  OneStep(st, ch, i) \in HeaderStates
<1>1. CASE st.done
  BY <1>1 DEF OneStep
<1>2. CASE ~ st.done
  BY <1>2, CharRead
<1> QED
  BY <1>1, <1>2

LEMMA RunExists ==
  ASSUME NEW W \in Seq(Chars), NEW f \in Nat, f <= Len(W)
  PROVE  \E g : Run(W, f, g)
<1> DEFINE n == Len(W) - f
           V == HeaderStates
           step == [k \in 1 .. n |-> [st \in V |-> OneStep(st, W[f + k], f + k)]]
           first == AtHeader(f + 1)
<1>1. n \in Nat /\ Len(W) \in Nat /\ Len(W) = f + n
  OBVIOUS
<1>2. first \in V
  BY AtHeaderIs
<1>3. \A k \in 1 .. n : f + k \in Nat /\ W[f + k] \in Chars
  BY <1>1
<1>4. step \in [1 .. n -> [V -> V]]
  <2> HIDE DEF n, V
  <2>1. \A k \in 1 .. n : \A st \in V : OneStep(st, W[f + k], f + k) \in V
    BY <1>3, PastIs DEF V
  <2> QED
    BY <2>1
<1> HIDE DEF n, V, step, first
<1>5. PICK h \in [0 .. n -> V] : Recurs(h, first, step, n)
  BY <1>1, <1>2, <1>4, RecursionExists
<1> DEFINE g == [i \in f .. Len(W) |-> h[i - f]]
<1>6. \A i \in f .. Len(W) : i - f \in 0 .. n
  BY <1>1
<1>7. g \in [f .. Len(W) -> V]
  BY <1>6
<1>8. g[f] = first
  <2>1. f \in f .. Len(W) /\ f - f = 0
    BY <1>1
  <2> QED
    BY <1>5, <2>1 DEF Recurs
<1>9. \A i \in f + 1 .. Len(W) : g[i] = OneStep(g[i - 1], W[i], i)
  <2> TAKE i \in f + 1 .. Len(W)
  <2> DEFINE k == i - f
  <2>1. /\ k \in 1 .. n /\ k - 1 \in 0 .. n /\ f + k = i /\ i \in f .. Len(W) /\ i - 1 \in f .. Len(W)
        /\ i - 1 - f = k - 1
    BY <1>1
  <2> HIDE DEF k
  <2>2. g[i] = h[k] /\ g[i - 1] = h[k - 1]
    BY <2>1 DEF k
  <2>3. h[k] = step[k][h[k - 1]] /\ h[k - 1] \in V
    BY <1>5, <2>1 DEF Recurs
  <2> HIDE DEF g
  <2>4. step[k][h[k - 1]] = OneStep(h[k - 1], W[f + k], f + k)
    BY <2>1, <2>3 DEF step
  <2> QED
    BY <2>1, <2>2, <2>3, <2>4
<1> HIDE DEF g
<1> QED
  BY <1>7, <1>8, <1>9 DEF Run, V, first

\* Header() of a beginning is the run as far as the beginning reaches.
LEMMA HeaderIs ==
  ASSUME NEW W \in Seq(Chars), NEW A \in Seq(Chars), Begins(A, W), NEW f \in Nat, f <= Len(A),
         NEW g, Run(W, f, g)
  PROVE  Header(A, f + 1) = g[Len(A)]
<1> DEFINE n == Len(A)
           Is(h) == h = [i \in f .. n |->
                      IF i = f THEN AtHeader(f + 1) ELSE OneStep(h[i - 1], A[i], i)]
           run == CHOOSE h : Is(h)
<1>1. n \in Nat /\ n <= Len(W) /\ Len(W) \in Nat /\ \A i \in 1 .. n : A[i] = W[i]
  BY DEF Begins
<1>2. Header(A, f + 1) = run[n]
  <2> DEFINE start == f + 1
             last == IF Len(A) < start THEN start - 1 ELSE Len(A)
  <2>1. start - 1 = f /\ last = n
    BY <1>1
  <2> DEFINE Are(h) == h = [i \in start - 1 .. last |->
                         IF i = start - 1 THEN AtHeader(start)
                         ELSE LET st == h[i - 1]
                              IN IF st.done THEN st ELSE [HeaderStep(st, A[i]) EXCEPT !.pos = i + 1]]
  <2>2. Header(A, start) = (CHOOSE h : Are(h))[last]
    BY DEF Header, AtHeader
  <2> HIDE DEF start, last
  <2>3. \A h : Are(h) <=> Is(h)
    BY <2>1 DEF OneStep, start
  <2> HIDE DEF Are, Is
  <2>4. (CHOOSE h : Are(h)) = run
    BY <2>3
  <2> QED
    BY <2>1, <2>2, <2>4 DEF start
<1>3. Is([i \in f .. n |-> g[i]])
  <2> DEFINE h == [i \in f .. n |-> g[i]]
  <2>1. \A i \in f .. n : h[i] = IF i = f THEN AtHeader(f + 1) ELSE OneStep(h[i - 1], A[i], i)
    <3> TAKE i \in f .. n
    <3>1. CASE i = f
      BY <3>1 DEF Run
    <3>2. CASE i # f
      <4>1. i \in f + 1 .. Len(W) /\ i - 1 \in f .. n /\ i \in 1 .. n
        BY <1>1, <3>2
      <4>2. g[i] = OneStep(g[i - 1], W[i], i)
        BY <4>1 DEF Run
      <4> HIDE DEF n
      <4> QED
        BY <1>1, <3>2, <4>1, <4>2
    <3> QED
      BY <3>1, <3>2
  <2> HIDE DEF n
  <2> QED
    BY <2>1
<1>4. Is(run)
  <2> HIDE DEF Is
  <2> QED
    BY <1>3
<1> HIDE DEF run
<1>5. \A k \in 0 .. n - f : k \in {j \in 0 .. n - f : run[f + j] = g[f + j]}
  <2> DEFINE T == {j \in 0 .. n - f : run[f + j] = g[f + j]}
             l == n - f
  <2>1. l \in Nat /\ n = f + l
    BY <1>1
  <2>2. \A i \in f .. n : run[i] = IF i = f THEN AtHeader(f + 1) ELSE OneStep(run[i - 1], A[i], i)
    <3> HIDE DEF n
    <3> QED
      BY <1>4
  <2>3. 0 \in T
    <3>1. f \in f .. n /\ f + 0 = f
      BY <1>1
    <3> QED
      BY <2>1, <2>2, <3>1 DEF Run
  <2>4. ASSUME NEW k \in 0 .. l - 1, k \in T PROVE k + 1 \in T
    <3> DEFINE i == f + (k + 1)
    <3>0. k \in Nat /\ k + 1 <= n - f /\ n \in Nat /\ n <= Len(W) /\ Len(W) \in Nat
      BY <1>1
    <3> HIDE DEF n, T, l
    <3>1. /\ i \in f .. n /\ i # f /\ i - 1 = f + k /\ i \in f + 1 .. Len(W) /\ i \in 1 .. n
          /\ k + 1 \in 0 .. n - f
      BY <3>0
    <3> HIDE DEF i
    <3>2. run[i] = OneStep(run[i - 1], A[i], i) /\ A[i] = W[i]
      BY <1>1, <2>2, <3>1
    <3>3. g[i] = OneStep(g[i - 1], W[i], i)
      BY <3>1 DEF Run
    <3>4. run[i - 1] = g[i - 1]
      BY <2>4, <3>1 DEF T
    <3>5. run[i] = g[i]
      BY <3>2, <3>3, <3>4
    <3> QED
      BY <3>1, <3>5 DEF i, T
  <2> HIDE DEF T, l
  <2>5. \A k \in 0 .. l : k \in T
    BY <2>1, <2>3, <2>4, UpTo
  <2> QED
    BY <2>5 DEF T, l
<1>6. run[n] = g[n]
  <2>1. n - f \in 0 .. n - f /\ f + (n - f) = n
    BY <1>1
  <2> QED
    BY <1>5, <2>1
<1> QED
  BY <1>2, <1>6

\* What is done stays as it is.
LEMMA DoneStays ==
  ASSUME NEW W \in Seq(Chars), NEW f \in Nat, f <= Len(W), NEW g, Run(W, f, g),
         NEW j \in f .. Len(W), g[j].done
  PROVE  \A i \in j .. Len(W) : g[i] = g[j]
<1> DEFINE l == Len(W) - j
           T == {k \in 0 .. l : g[j + k] = g[j]}
<1>1. l \in Nat /\ Len(W) \in Nat /\ j \in Nat
  OBVIOUS
<1>2. 0 \in T
  <2>1. j + 0 = j /\ 0 \in 0 .. l
    BY <1>1
  <2> QED
    BY <2>1
<1>3. ASSUME NEW k \in 0 .. l - 1, k \in T PROVE k + 1 \in T
  <2> DEFINE i == j + (k + 1)
  <2>1. i \in f + 1 .. Len(W) /\ i - 1 = j + k /\ k + 1 \in 0 .. l
    BY <1>1
  <2> HIDE DEF i
  <2>2. g[i] = OneStep(g[i - 1], W[i], i)
    BY <2>1 DEF Run
  <2>3. g[i - 1] = g[j]
    BY <1>3, <2>1
  <2>4. g[i] = g[j]
    BY <2>2, <2>3 DEF OneStep
  <2> QED
    BY <2>1, <2>4 DEF i
<1>4. \A k \in 0 .. l : k \in T
  <2> HIDE DEF T, l
  <2> QED
    BY <1>1, <1>2, <1>3, UpTo
<1> QED
  <2> TAKE i \in j .. Len(W)
  <2> DEFINE k == i - j
  <2>1. k \in 0 .. l /\ j + k = i
    BY <1>1
  <2> HIDE DEF k, l
  <2>2. g[j + k] = g[j]
    BY <1>4, <2>1
  <2> QED
    BY <2>1, <2>2

\* Character by character.
LEMMA OneRead ==
  ASSUME NEW W \in Seq(Chars), NEW f \in Nat, NEW g, Run(W, f, g),
         NEW i \in f .. Len(W) - 1, ~ g[i].done
  PROVE  LET st == g[i]
             x == g[i + 1]
             ch == W[i + 1]
             label == IF st.type = 0 THEN st.cur ELSE st.key
             val == IF st.type = 0 THEN st.val ELSE st.cur
         IN /\ x.pos = i + 2
            /\ st.skip => /\ x.key = st.key /\ x.val = st.val /\ x.cur = st.cur /\ x.type = st.type
                          /\ ~ x.skip /\ x.line = st.line /\ ~ x.done /\ x.context = st.context
            /\ ~ st.skip /\ ch = "LF" /\ ~ st.line => x.done /\ x.context = st.context
            /\ ~ st.skip /\ ch = "LF" /\ st.line =>
                 /\ x.key = label /\ x.val = val /\ x.cur = <<>> /\ x.type = 0 /\ ~ x.skip /\ ~ x.line /\ ~ x.done
                 /\ x.context = Assigned(st.context, label, val)
            /\ ~ st.skip /\ ch = ":" /\ st.type = 0 =>
                 /\ x.key = st.cur /\ x.val = st.val /\ x.cur = <<>> /\ x.type = 1 /\ x.skip /\ x.line /\ ~ x.done
                 /\ x.context = st.context
            /\ ~ st.skip /\ ch = "CR" =>
                 /\ x.key = st.key /\ x.val = st.val /\ x.cur = st.cur /\ x.type = st.type
                 /\ ~ x.skip /\ x.line = st.line /\ ~ x.done /\ x.context = st.context
            /\ ~ st.skip /\ ch \notin {"CR", "LF"} /\ (ch # ":" \/ st.type = 1) =>
                 /\ x.key = st.key /\ x.val = st.val /\ x.cur = Append(st.cur, ch) /\ x.type = st.type
                 /\ ~ x.skip /\ x.line /\ ~ x.done /\ x.context = st.context
<1> DEFINE n == i + 1
           st == g[i]
           ch == W[n]
           x == g[n]
<1>1. /\ n \in f + 1 .. Len(W) /\ n - 1 = i /\ n \in Nat /\ i \in f .. Len(W) /\ n \in 1 .. Len(W)
      /\ n + 1 = i + 2
  OBVIOUS
<1> HIDE DEF n
<1>2. st \in HeaderStates /\ ch \in Chars /\ x = OneStep(st, ch, n)
  BY <1>1 DEF Run
<1> HIDE DEF st, ch, x
<1>3. ~ st.done
  BY DEF st
<1> DEFINE y == OneStep(st, ch, n)
           label == IF st.type = 0 THEN st.cur ELSE st.key
           val == IF st.type = 0 THEN st.val ELSE st.cur
<1>4.   /\ y.pos = n + 1
        /\ st.skip => /\ y.key = st.key /\ y.val = st.val /\ y.cur = st.cur /\ y.type = st.type
                      /\ ~ y.skip /\ y.line = st.line /\ ~ y.done /\ y.context = st.context
        /\ ~ st.skip /\ ch = "LF" /\ ~ st.line => y.done /\ y.context = st.context
        /\ ~ st.skip /\ ch = "LF" /\ st.line =>
             /\ y.key = label /\ y.val = val /\ y.cur = <<>> /\ y.type = 0 /\ ~ y.skip /\ ~ y.line /\ ~ y.done
             /\ y.context = Assigned(st.context, label, val)
        /\ ~ st.skip /\ ch = ":" /\ st.type = 0 =>
             /\ y.key = st.cur /\ y.val = st.val /\ y.cur = <<>> /\ y.type = 1 /\ y.skip /\ y.line /\ ~ y.done
             /\ y.context = st.context
        /\ ~ st.skip /\ ch = "CR" =>
             /\ y.key = st.key /\ y.val = st.val /\ y.cur = st.cur /\ y.type = st.type
             /\ ~ y.skip /\ y.line = st.line /\ ~ y.done /\ y.context = st.context
        /\ ~ st.skip /\ ch \notin {"CR", "LF"} /\ (ch # ":" \/ st.type = 1) =>
             /\ y.key = st.key /\ y.val = st.val /\ y.cur = Append(st.cur, ch) /\ y.type = st.type
             /\ ~ y.skip /\ y.line /\ ~ y.done /\ y.context = st.context
  BY <1>1, <1>2, <1>3, CharRead, SMTT(30)
<1>5. y = x
  BY <1>2
<1> HIDE DEF y
<1> QED
  BY <1>1, <1>4, <1>5, Zenon DEF x, st, ch, n

Keeps(x, st) == /\ x.key = st.key /\ x.val = st.val /\ x.type = st.type /\ x.context = st.context
                /\ ~ x.skip /\ ~ x.done

\* Characters of a name or of a value.
LEMMA Stretch ==
  ASSUME NEW W \in Seq(Chars), NEW f \in Nat, NEW g, Run(W, f, g),
         NEW p \in Nat, f <= p, NEW s \in Seq(Chars), At(W, p, s), p <= Len(W),
         ~ g[p].skip, ~ g[p].done, g[p].cur = <<>>,
         \A i \in 1 .. Len(s) : s[i] \notin {"CR", "LF"} /\ (s[i] # ":" \/ g[p].type = 1)
  PROVE  LET x == g[p + Len(s)]
         IN Keeps(x, g[p]) /\ x.cur = s /\ (x.line <=> g[p].line \/ s # <<>>)
<1> DEFINE st == g[p]
           l == Len(s)
           T == {k \in 0 .. l : /\ Keeps(g[p + k], st) /\ g[p + k].cur = SubSeq(s, 1, k)
                                /\ g[p + k].line <=> st.line \/ k # 0}
<1>1. l \in Nat /\ Len(W) \in Nat /\ p + l <= Len(W) /\ \A i \in 1 .. l : W[p + i] = s[i]
  BY DEF At
<1>2. SubSeq(s, 1, l) = s /\ SubSeq(s, 1, 0) = <<>>
  OBVIOUS
<1>3. \A k \in 0 .. l - 1 : SubSeq(s, 1, k + 1) = Append(SubSeq(s, 1, k), s[k + 1])
  OBVIOUS
<1>4. 0 \in T
  <2>1. p + 0 = p /\ 0 \in 0 .. l
    BY <1>1
  <2>2. Keeps(st, st) /\ st.cur = <<>>
    BY DEF Keeps
  <2> QED
    BY <1>2, <2>1, <2>2
<1>5. ASSUME NEW k \in 0 .. l - 1, k \in T PROVE k + 1 \in T
  <2> DEFINE i == p + k
             x == g[i]
             y == g[i + 1]
             ch == s[k + 1]
  <2>1. i \in f .. Len(W) - 1 /\ i + 1 = p + (k + 1) /\ k + 1 \in 1 .. l /\ k + 1 \in 0 .. l /\ k + 1 # 0
    BY <1>1
  <2>2. W[i + 1] = ch /\ ch \notin {"CR", "LF"} /\ (ch # ":" \/ st.type = 1)
    BY <1>1, <2>1
  <2>3. Keeps(x, st) /\ x.cur = SubSeq(s, 1, k)
    BY <1>5
  <2> HIDE DEF i, st, x, ch, y
  <2>4. ~ x.skip /\ ~ x.done /\ x.type = st.type
    BY <2>3 DEF Keeps
  <2>5. /\ y.key = x.key /\ y.val = x.val /\ y.cur = Append(x.cur, ch) /\ y.type = x.type
        /\ ~ y.skip /\ y.line /\ ~ y.done /\ y.context = x.context
    <3>1. ~ g[i].done /\ ~ g[i].skip /\ g[i].type = st.type
      BY <2>4 DEF x
    <3>2. /\ g[i+1].key = g[i].key /\ g[i+1].val = g[i].val /\ g[i+1].cur = Append(g[i].cur, W[i + 1])
          /\ g[i+1].type = g[i].type
          /\ ~ g[i+1].skip /\ g[i+1].line /\ ~ g[i+1].done /\ g[i+1].context = g[i].context
      BY <2>1, <2>2, <3>1, OneRead
    <3> QED
      BY <2>2, <3>2 DEF x, y
  <2>6. y.cur = SubSeq(s, 1, k + 1)
    BY <1>3, <2>3, <2>5 DEF ch
  <2>7. Keeps(y, st)
    BY <2>3, <2>5 DEF Keeps
  <2> QED
    BY <2>1, <2>5, <2>6, <2>7 DEF y
<1> HIDE DEF T, l
<1>6. \A k \in 0 .. l : k \in T
  BY <1>1, <1>4, <1>5, UpTo
<1>7. l \in T
  BY <1>1, <1>6
<1>8. l # 0 <=> s # <<>>
  BY DEF l
<1> QED
  BY <1>2, <1>7, <1>8 DEF T, l

\* A line of a header as transmit() writes it.
LineOf(entry) == entry[1] \o (IF entry[2] = Bare THEN <<>> ELSE <<":", SP>> \o entry[2]) \o <<"CR", "LF">>

\* Between two lines.
LineBegins(st) == st.cur = <<>> /\ st.type = 0 /\ ~ st.skip /\ ~ st.line /\ ~ st.done

\* The end of a line.
LEMMA EndRead ==
  ASSUME NEW W \in Seq(Chars), NEW f \in Nat, NEW g, Run(W, f, g), NEW p \in Nat, f <= p,
         At(W, p, <<"CR", "LF">>), ~ g[p].skip, ~ g[p].done
  PROVE  LET st == g[p]
             x == g[p + 2]
             label == IF st.type = 0 THEN st.cur ELSE st.key
             val == IF st.type = 0 THEN st.val ELSE st.cur
         IN /\ p + 2 <= Len(W) /\ ~ g[p + 1].done
            /\ IF st.line THEN LineBegins(x) /\ x.val = val /\ x.context = Assigned(st.context, label, val)
                          ELSE x.done /\ x.context = st.context /\ x.pos = p + 3
<1> DEFINE st == g[p]
           y == g[p + 1]
           x == g[p + 2]
           end == <<"CR", "LF">>
           label == IF st.type = 0 THEN st.cur ELSE st.key
           val == IF st.type = 0 THEN st.val ELSE st.cur
           key1 == IF y.type = 0 THEN y.cur ELSE y.key
           val1 == IF y.type = 0 THEN y.val ELSE y.cur
           i == p + 1
<1>1. Len(end) = 2 /\ end[1] = "CR" /\ end[2] = "LF"
  OBVIOUS
<1>2. p + Len(end) <= Len(W) /\ \A j \in 1 .. Len(end) : W[p + j] = end[j]
  BY DEF At
<1> HIDE DEF end
<1>3. p + 2 <= Len(W) /\ W[p + 1] = "CR" /\ W[p + 2] = "LF"
  <2>1. 1 \in 1 .. Len(end) /\ 2 \in 1 .. Len(end)
    BY <1>1
  <2> QED
    BY <1>1, <1>2, <2>1
<1>4. /\ p \in f .. Len(W) - 1 /\ i \in f .. Len(W) - 1 /\ i + 1 = p + 2 /\ i + 2 = p + 3
  BY <1>3
<1>5. /\ y.key = st.key /\ y.val = st.val /\ y.cur = st.cur /\ y.type = st.type
      /\ ~ y.skip /\ y.line = st.line /\ ~ y.done /\ y.context = st.context
  <2>1. ~ g[p].done /\ ~ g[p].skip /\ W[p + 1] = "CR"
    BY <1>3
  <2> QED
    BY <1>4, <2>1, OneRead
<1>6. /\ x.pos = p + 3
      /\ ~ y.line => x.done /\ x.context = y.context
      /\ y.line => /\ x.key = key1 /\ x.val = val1 /\ x.cur = <<>> /\ x.type = 0 /\ ~ x.skip /\ ~ x.line /\ ~ x.done
                   /\ x.context = Assigned(y.context, key1, val1)
  <2>1. ~ g[i].done /\ ~ g[i].skip /\ W[i + 1] = "LF"
    BY <1>3, <1>4, <1>5
  <2> HIDE DEF i
  <2> DEFINE a == g[i]
             z == g[i + 1]
             k == IF a.type = 0 THEN a.cur ELSE a.key
             v == IF a.type = 0 THEN a.val ELSE a.cur
  <2>2. /\ z.pos = i + 2
        /\ ~ a.line => z.done /\ z.context = a.context
        /\ a.line => /\ z.key = k /\ z.val = v /\ z.cur = <<>> /\ z.type = 0 /\ ~ z.skip /\ ~ z.line /\ ~ z.done
                     /\ z.context = Assigned(a.context, k, v)
    BY <1>4, <2>1, OneRead, SMTT(30)
  <2>3. z = x /\ a = y /\ k = key1 /\ v = val1
    BY <1>4 DEF i
  <2> HIDE DEF z, a, k, v, key1, val1, x, y
  <2> QED
    BY <1>4, <2>2, <2>3
<1>7. key1 = label /\ val1 = val
  BY <1>5
<1> HIDE DEF label, val, key1, val1
<1>8. IF st.line THEN LineBegins(x) /\ x.val = val /\ x.context = Assigned(st.context, label, val)
                 ELSE x.done /\ x.context = st.context /\ x.pos = p + 3
  BY <1>5, <1>6, <1>7 DEF LineBegins
<1> QED
  BY <1>3, <1>5, <1>8 DEF label, val

\* Names and values that the protocol can tell apart.
Legible(label, val) ==
  /\ label \in Seq(Chars) /\ val \in Seq(Chars) /\ (val = Bare => label # <<>>)
  /\ \A i \in 1 .. Len(label) : label[i] \notin {":", "CR", "LF"}
  /\ \A i \in 1 .. Len(val) : val[i] \notin {"CR", "LF"}

\* A line is read as it was meant; one without a colon keeps the value.
LEMMA LineRead ==
  ASSUME NEW W \in Seq(Chars), NEW f \in Nat, NEW g, Run(W, f, g), NEW p \in Nat, f <= p,
         NEW label, NEW val, Legible(label, val), At(W, p, LineOf(<<label, val>>)), LineBegins(g[p])
  PROVE  LET q == p + Len(LineOf(<<label, val>>))
             value == IF val = Bare THEN g[p].val ELSE val
         IN /\ LineBegins(g[q]) /\ g[q].val = value
            /\ g[q].context = Assigned(g[p].context, label, value)
<1> DEFINE line == LineOf(<<label, val>>)
           end == <<"CR", "LF">>
           colon == <<":", SP>>
           none == <<>>
           st == g[p]
           k == Len(label)
           v == Len(val)
           a == p + k
           x == g[a]
<1>0. /\ label \in Seq(Chars) /\ val \in Seq(Chars) /\ (val = Bare => label # <<>>)
      /\ \A i \in 1 .. Len(label) : label[i] \notin {":", "CR", "LF"}
      /\ \A i \in 1 .. Len(val) : val[i] \notin {"CR", "LF"}
  BY DEF Legible
<1> USE <1>0
<1>1. /\ end \in Seq(Chars) /\ Len(end) = 2
      /\ colon \in Seq(Chars) /\ Len(colon) = 2 /\ colon[1] = ":" /\ colon[2] = SP
      /\ none \in Seq(Chars) /\ label \o none = label
      /\ k \in Nat /\ v \in Nat
  BY FixedChars, ShortIs
<1>2. line = IF val = Bare THEN label \o end ELSE (label \o (colon \o val)) \o end
  <2>1. <<label, val>>[1] = label /\ <<label, val>>[2] = val
    OBVIOUS
  <2>2. line = (label \o (IF val = Bare THEN none ELSE colon \o val)) \o end
    BY <2>1 DEF LineOf
  <2> HIDE DEF line, colon, end, none
  <2>3. CASE val = Bare
    BY <1>1, <2>2, <2>3
  <2>4. CASE val # Bare
    BY <2>2, <2>4
  <2> QED
    BY <2>3, <2>4
<1> HIDE DEF line, colon, end, none
<1>3. At(W, p, line) /\ Len(W) \in Nat
  BY DEF line
<1>4. CASE val = Bare
  <2>1. /\ At(W, p, label) /\ At(W, p + Len(label), end)
    BY <1>1, <1>2, <1>3, <1>4, AtParts
  <2>2. p <= Len(W) /\ f <= a /\ a \in Nat
    <3>1. p + Len(label) <= Len(W)
      BY <2>1 DEF At
    <3> QED
      BY <1>1, <1>3, <3>1
  <2>3. ~ g[p].skip /\ ~ g[p].done /\ g[p].cur = <<>> /\ g[p].type = 0 /\ ~ g[p].line
    BY DEF LineBegins
  <2>4. Keeps(x, st) /\ x.cur = label /\ (x.line <=> st.line \/ label # <<>>)
    <3>1. \A i \in 1 .. Len(label) : label[i] \notin {"CR", "LF"} /\ (label[i] # ":" \/ g[p].type = 1)
      OBVIOUS
    <3> HIDE DEF LineBegins
    <3> QED
      BY <2>1, <2>2, <2>3, <3>1, Stretch
  <2>5. ~ x.skip /\ ~ x.done /\ x.type = 0 /\ x.line /\ x.val = st.val /\ x.context = st.context /\ x.cur = label
    BY <1>4, <2>3, <2>4 DEF Keeps
  <2> HIDE DEF a
  <2> DEFINE b == a + 2
             y == g[b]
             key1 == IF x.type = 0 THEN x.cur ELSE x.key
             val1 == IF x.type = 0 THEN x.val ELSE x.cur
  <2>6. LineBegins(y) /\ y.val = val1 /\ y.context = Assigned(x.context, key1, val1)
    <3>1. At(W, a, <<"CR", "LF">>) /\ ~ g[a].skip /\ ~ g[a].done /\ g[a].line
      BY <2>1, <2>5 DEF end, a
    <3> QED
      BY <2>2, <3>1, EndRead
  <2>7. key1 = label /\ val1 = st.val
    BY <2>5
  <2>8. b = p + Len(line)
    <3>1. line = label \o end /\ label \in Seq(Chars) /\ end \in Seq(Chars)
      BY <1>1, <1>2, <1>4
    <3>2. Len(label \o end) = Len(label) + Len(end)
      BY <3>1, TwoParts
    <3>3. Len(line) = Len(label) + 2
      BY <1>1, <3>1, <3>2
    <3> QED
      BY <1>1, <3>3 DEF a
  <2> HIDE DEF b, key1, val1, x
  <2>9. LineBegins(g[p + Len(line)]) /\ g[p + Len(line)].val = st.val
        /\ g[p + Len(line)].context = Assigned(st.context, label, st.val)
    BY <2>5, <2>6, <2>7, <2>8
  <2> QED
    BY <1>4, <2>9 DEF line
<1>5. CASE val # Bare
  <2> DEFINE mid == colon \o val
             all == label \o mid
             b == a + 1
             c == a + 2
             d == c + v
             y == g[c]
             z == g[d]
  <2>1. /\ mid \in Seq(Chars) /\ Len(mid) = 2 + v /\ all \in Seq(Chars) /\ Len(all) = k + (2 + v)
        /\ line = all \o end /\ Len(line) = k + (2 + v) + 2
    <3>0. colon \in Seq(Chars) /\ val \in Seq(Chars) /\ label \in Seq(Chars) /\ end \in Seq(Chars)
      BY <1>1
    <3>5. mid \in Seq(Chars) /\ Len(mid) = Len(colon) + Len(val)
      BY <3>0, TwoParts
    <3>1. mid \in Seq(Chars) /\ Len(mid) = 2 + v
      BY <1>1, <3>5
    <3> HIDE DEF mid
    <3>2. all \in Seq(Chars) /\ Len(all) = k + Len(mid)
      BY <3>0, <3>1, TwoParts, ZenonT(30)
    <3>3. line = all \o end
      BY <1>2, <1>5 DEF mid
    <3> HIDE DEF all
    <3>6. all \in Seq(Chars)
      BY <3>2
    <3>7. Len(all \o end) = Len(all) + Len(end)
      BY <3>0, <3>6, TwoParts
    <3>4. Len(line) = Len(all) + Len(end)
      BY <3>3, <3>7
    <3> HIDE DEF line
    <3> QED
      BY <1>1, <3>1, <3>2, <3>3, <3>4
  <2>2. /\ At(W, p, label) /\ At(W, a, colon) /\ At(W, c, val) /\ At(W, d, end)
    <3> HIDE DEF all, mid
    <3>1. At(W, p, all) /\ At(W, p + Len(all), end)
      BY <1>1, <1>3, <2>1, AtParts
    <3>2. At(W, p, label) /\ At(W, p + Len(label), mid)
      BY <2>1, <3>1, AtParts DEF all
    <3>3. a \in Nat /\ At(W, a, mid)
      BY <1>1, <3>2
    <3> HIDE DEF a
    <3>4. At(W, a, colon) /\ At(W, a + Len(colon), val)
      BY <1>1, <3>3, AtParts DEF mid
    <3>5. a + Len(colon) = c /\ p + Len(all) = d
      BY <1>1, <2>1 DEF a
    <3> QED
      BY <3>1, <3>2, <3>4, <3>5
  <2>3. /\ p <= Len(W) /\ f <= a /\ a \in Nat /\ a + 2 <= Len(W) /\ c \in Nat /\ f <= c /\ c <= Len(W)
        /\ d \in Nat /\ f <= d
        /\ W[a + 1] = ":" /\ a \in f .. Len(W) - 1 /\ b \in f .. Len(W) - 1 /\ b + 1 = c
    <3>1. a + Len(colon) <= Len(W) /\ \A i \in 1 .. Len(colon) : W[a + i] = colon[i]
      BY <2>2 DEF At
    <3>2. 1 \in 1 .. Len(colon)
      BY <1>1
    <3>3. W[a + 1] = ":"
      BY <1>1, <3>1, <3>2
    <3>4. a + 2 <= Len(W)
      BY <1>1, <3>1
    <3>5. At(W, c, val) => c + Len(val) <= Len(W)
      BY DEF At
    <3>6. a \in Nat /\ f <= a /\ p <= a
      BY <1>1
    <3> HIDE DEF a
    <3> QED
      BY <1>1, <1>3, <2>2, <3>3, <3>4, <3>5, <3>6, SMTT(30)
  <2>4. ~ g[p].skip /\ ~ g[p].done /\ g[p].cur = <<>> /\ g[p].type = 0 /\ ~ g[p].line
    BY DEF LineBegins
  <2>5. Keeps(x, st) /\ x.cur = label
    <3>1. \A i \in 1 .. Len(label) : label[i] \notin {"CR", "LF"} /\ (label[i] # ":" \/ g[p].type = 1)
      OBVIOUS
    <3>2. At(W, p, label) /\ p <= Len(W)
      BY <2>2, <2>3
    <3> DEFINE aa == p + Len(label)
               xx == g[aa]
    <3>3. Keeps(xx, g[p]) /\ xx.cur = label
      BY <2>4, <3>1, <3>2, Stretch
    <3> QED
      BY <3>3
  <2>6. ~ x.skip /\ ~ x.done /\ x.type = 0 /\ x.val = st.val /\ x.context = st.context
    BY <2>4, <2>5 DEF Keeps
  <2> HIDE DEF a
  <2> DEFINE w == g[b]
  <2>7. /\ w.key = x.cur /\ w.val = x.val /\ w.cur = <<>> /\ w.type = 1 /\ w.skip /\ w.line /\ ~ w.done
        /\ w.context = x.context
    BY <2>3, <2>6, OneRead
  <2>8. /\ y.key = w.key /\ y.val = w.val /\ y.cur = w.cur /\ y.type = w.type
        /\ ~ y.skip /\ y.line = w.line /\ ~ y.done /\ y.context = w.context
    <3> HIDE DEF b, c
    <3>1. ~ g[b].done /\ g[b].skip
      BY <2>7
    <3>2. /\ g[b+1].key = g[b].key /\ g[b+1].val = g[b].val /\ g[b+1].cur = g[b].cur /\ g[b+1].type = g[b].type
          /\ ~ g[b+1].skip /\ g[b+1].line = g[b].line /\ ~ g[b+1].done /\ g[b+1].context = g[b].context
      BY <2>3, <3>1, OneRead
    <3> QED
      BY <2>3, <3>2
  <2>9. /\ y.key = label /\ y.val = st.val /\ y.cur = <<>> /\ y.type = 1
        /\ ~ y.skip /\ y.line /\ ~ y.done /\ y.context = st.context
    <3> HIDE DEF w, y, x, st
    <3> QED
      BY <2>5, <2>6, <2>7, <2>8
  <2> HIDE DEF b, c, w
  <2>10. Keeps(z, y) /\ z.cur = val /\ z.line
    <3>1. \A i \in 1 .. Len(val) : val[i] \notin {"CR", "LF"} /\ (val[i] # ":" \/ g[c].type = 1)
      BY <2>9
    <3>2. ~ g[c].skip /\ ~ g[c].done /\ g[c].cur = <<>> /\ g[c].line
      BY <2>9
    <3> QED
      BY <2>2, <2>3, <3>1, <3>2, Stretch
  <2>11. ~ z.skip /\ ~ z.done /\ z.type = 1 /\ z.key = label /\ z.context = st.context
    BY <2>9, <2>10 DEF Keeps
  <2> HIDE DEF d
  <2> DEFINE u == g[d + 2]
             key1 == IF z.type = 0 THEN z.cur ELSE z.key
             val1 == IF z.type = 0 THEN z.val ELSE z.cur
  <2>12. LineBegins(u) /\ u.val = val1 /\ u.context = Assigned(z.context, key1, val1)
    <3>1. At(W, d, <<"CR", "LF">>) /\ ~ g[d].skip /\ ~ g[d].done /\ g[d].line
      BY <2>2, <2>10, <2>11 DEF end
    <3> QED
      BY <2>3, <3>1, EndRead
  <2>13. key1 = label /\ val1 = val
    BY <2>10, <2>11
  <2>14. d + 2 = p + Len(line)
    BY <1>1, <2>1 DEF a, c, d
  <2> HIDE DEF z, y, x, st, key1, val1
  <2>15. LineBegins(g[p + Len(line)]) /\ g[p + Len(line)].val = val
        /\ g[p + Len(line)].context = Assigned(st.context, label, val)
    BY <2>11, <2>12, <2>13, <2>14
  <2> QED
    BY <1>5, <2>15 DEF line, st
<1> QED
  BY <1>4, <1>5

\* The lines of a header one behind the other.
InRow(F, context) ==
  /\ F[0] = <<>>
  /\ \A i \in 1 .. Len(context) : F[i] = F[i - 1] \o LineOf(context[i])

LEMMA LineIs ==
  ASSUME NEW entry \in Pairs
  PROVE  LineOf(entry) \in Seq(Chars)
<1> DEFINE label == entry[1]
           val == entry[2]
           end == <<"CR", "LF">>
           colon == <<":", SP>>
           none == <<>>
           mid == IF val = Bare THEN none ELSE colon \o val
<1>1. /\ end \in Seq(Chars) /\ colon \in Seq(Chars) /\ none \in Seq(Chars)
      /\ label \in Seq(Chars) /\ val \in Seq(Chars)
  <2>1. end \in Seq(Chars) /\ colon \in Seq(Chars) /\ none \in Seq(Chars)
    BY FixedChars, ShortIs
  <2>2. label \in Seq(Chars) /\ val \in Seq(Chars)
    BY DEF Pairs
  <2> QED
    BY <2>1, <2>2
<1> HIDE DEF label, val, end, colon, none
<1>2. mid \in Seq(Chars)
  <2>1. colon \o val \in Seq(Chars)
    BY <1>1
  <2> QED
    BY <1>1, <2>1
<1>3. LineOf(entry) = (label \o mid) \o end
  BY DEF LineOf, label, val, end, colon, none
<1> HIDE DEF mid
<1>4. label \o mid \in Seq(Chars)
  BY <1>1, <1>2
<1>5. (label \o mid) \o end \in Seq(Chars)
  BY <1>1, <1>4
<1> QED
  BY <1>3, <1>5

LEMMA RowIs ==
  ASSUME NEW context \in Seq(Pairs)
  PROVE  \E F \in [0 .. Len(context) -> Seq(Chars)] :
           InRow(F, context) /\ F[Len(context)] = Lines(context)
<1> DEFINE n == Len(context)
           V == Seq(Chars)
           line(i) == LineOf(context[i])
           step == [i \in 1 .. n |-> [s \in V |-> s \o line(i)]]
           none == <<>>
           rows == [i \in DOMAIN context |->
                     context[i][1] \o (IF context[i][2] = Bare THEN <<>> ELSE <<":", SP>> \o context[i][2])
                     \o <<"CR", "LF">>]
<1>1. n \in Nat /\ DOMAIN context = 1 .. n /\ none \in V
  OBVIOUS
<1>2. \A i \in 1 .. n : line(i) \in V
  BY <1>1, LineIs
<1>3. rows = [i \in 1 .. n |-> line(i)]
  BY <1>1 DEF LineOf
<1>4. Lines(context) = FlattenSeq(rows)
  BY DEF Lines
<1> HIDE DEF rows, line
<1>5. \A i \in 1 .. n : \A s \in V : s \o line(i) \in V
  BY <1>2
<1> HIDE DEF n, none
<1>6. step \in [1 .. n -> [V -> V]]
  <2> HIDE DEF V
  <2> QED
    BY <1>5
<1> HIDE DEF V, step
<1>7. PICK F \in [0 .. n -> V] : Recurs(F, none, step, n)
  BY <1>1, <1>6, RecursionExists
<1>8. F[0] = none /\ \A i \in 1 .. n : F[i] = F[i - 1] \o line(i)
  <2>1. F[0] = none
    BY <1>7 DEF Recurs
  <2>2. ASSUME NEW i \in 1 .. n PROVE F[i] = F[i - 1] \o line(i)
    <3>1. F[i] = step[i][F[i - 1]] /\ F[i - 1] \in V
      BY <1>1, <1>7 DEF Recurs
    <3> QED
      BY <3>1 DEF step
  <2> QED
    BY <2>1, <2>2
<1>9. InRow(F, context)
  BY <1>8 DEF InRow, n, none, line
<1>10. F[n] = FlattenSeq(rows)
  <2> DEFINE Is(h) == h = [i \in 1 .. Len(rows) |-> IF i = 1 THEN rows[i] ELSE h[i - 1] \o rows[i]]
             flat == CHOOSE h : Is(h)
  <2>1. Len(rows) = n /\ rows \in Seq(V)
    BY <1>1, <1>2, <1>3
  <2>2. FlattenSeq(rows) = IF Len(rows) = 0 THEN rows ELSE flat[Len(rows)]
    BY DEF FlattenSeq
  <2>3. CASE n = 0
    <3>1. rows = <<>>
      BY <2>1, <2>3
    <3> QED
      BY <1>8, <2>1, <2>2, <2>3, <3>1 DEF none
  <2>4. CASE n # 0
    <3> DEFINE h == [i \in 1 .. n |-> F[i]]
    <3>1. \A i \in 1 .. n : F[i] = IF i = 1 THEN rows[i] ELSE h[i - 1] \o rows[i]
      <4> TAKE i \in 1 .. n
      <4>1. rows[i] = line(i) /\ line(i) \in V
        BY <1>2, <1>3
      <4>2. F[i] = F[i - 1] \o line(i)
        BY <1>8
      <4>3. CASE i = 1
        <5>1. i - 1 = 0
          BY <4>3
        <5>2. F[i - 1] = <<>>
          BY <1>8, <5>1 DEF none
        <5>3. <<>> \o line(i) = line(i)
          BY <4>1 DEF V
        <5> QED
          BY <4>1, <4>2, <4>3, <5>2, <5>3
      <4>4. CASE i # 1
        <5>1. i - 1 \in 1 .. n
          BY <1>1, <4>4
        <5> QED
          BY <4>1, <4>2, <4>4, <5>1
      <4> QED
        BY <4>3, <4>4
    <3>2. Is(h)
      <4>1. h = [i \in 1 .. n |-> IF i = 1 THEN rows[i] ELSE h[i - 1] \o rows[i]]
        BY <3>1
      <4> HIDE DEF h
      <4> QED
        BY <2>1, <4>1
    <3>3. Is(flat)
      <4> HIDE DEF Is
      <4> QED
        BY <3>2
    <3> HIDE DEF flat, h
    <3>4. \A i \in 1 .. n : flat[i] = IF i = 1 THEN rows[i] ELSE flat[i - 1] \o rows[i]
      BY <2>1, <3>3
    <3>5. \A k \in 0 .. n - 1 : k \in {j \in 0 .. n - 1 : flat[j + 1] = F[j + 1]}
      <4> DEFINE T == {j \in 0 .. n - 1 : flat[j + 1] = F[j + 1]}
                 l == n - 1
      <4>1. l \in Nat
        BY <1>1, <2>4
      <4>2. 0 \in T
        <5>1. 0 + 1 = 1 /\ 1 \in 1 .. n /\ 0 \in 0 .. n - 1
          BY <1>1, <2>4
        <5>2. flat[1] = rows[1]
          BY <3>4, <5>1
        <5>3. F[1] = rows[1]
          BY <3>1, <5>1
        <5> QED
          BY <5>1, <5>2, <5>3
      <4>3. ASSUME NEW k \in 0 .. l - 1, k \in T PROVE k + 1 \in T
        <5> DEFINE i == k + 2
        <5>1. /\ i \in 1 .. n /\ i - 1 \in 1 .. n /\ i # 1 /\ i - 1 = k + 1 /\ k + 1 + 1 = i
              /\ k + 1 \in 0 .. n - 1
          BY <1>1
        <5> HIDE DEF i
        <5>2. flat[i - 1] = F[i - 1]
          BY <4>3, <5>1
        <5>3. flat[i] = flat[i - 1] \o rows[i]
          BY <3>4, <5>1
        <5>4. F[i] = F[i - 1] \o rows[i]
          BY <3>1, <5>1 DEF h
        <5>5. flat[i] = F[i]
          BY <5>2, <5>3, <5>4
        <5> QED
          BY <5>1, <5>5
      <4> HIDE DEF T, l
      <4>4. \A k \in 0 .. l : k \in T
        BY <4>1, <4>2, <4>3, UpTo
      <4> QED
        BY <4>4 DEF T, l
    <3>6. n - 1 \in 0 .. n - 1 /\ n - 1 + 1 = n
      BY <1>1, <2>4
    <3>7. flat[n] = F[n]
      BY <3>5, <3>6
    <3> QED
      BY <2>1, <2>2, <2>4, <3>7
  <2> QED
    BY <2>3, <2>4
<1> QED
  BY <1>4, <1>7, <1>9, <1>10 DEF n, V

LEMMA RowAt ==
  ASSUME NEW W \in Seq(Chars), NEW p \in Nat, NEW context \in Seq(Pairs),
         NEW F \in [0 .. Len(context) -> Seq(Chars)], InRow(F, context), At(W, p, F[Len(context)])
  PROVE  \A i \in 1 .. Len(context) :
           /\ At(W, p + Len(F[i - 1]), LineOf(context[i]))
           /\ Len(F[i]) = Len(F[i - 1]) + Len(LineOf(context[i]))
<1> DEFINE n == Len(context)
           T == {j \in 0 .. n : At(W, p, F[n - j])}
<1>1. n \in Nat
  OBVIOUS
<1>2. ASSUME NEW i \in 1 .. n
      PROVE  /\ F[i] = F[i - 1] \o LineOf(context[i])
             /\ F[i - 1] \in Seq(Chars) /\ LineOf(context[i]) \in Seq(Chars)
  <2>1. context[i] \in Pairs /\ i - 1 \in 0 .. n
    BY <1>1
  <2> QED
    BY <2>1, LineIs DEF InRow
<1>3. ASSUME NEW i \in 1 .. n, At(W, p, F[i])
      PROVE  At(W, p, F[i - 1]) /\ At(W, p + Len(F[i - 1]), LineOf(context[i]))
  <2> DEFINE s == F[i - 1]
             t == LineOf(context[i])
  <2>1. s \in Seq(Chars) /\ t \in Seq(Chars) /\ At(W, p, s \o t)
    BY <1>2, <1>3
  <2> HIDE DEF s, t
  <2>2. At(W, p, s) /\ At(W, p + Len(s), t)
    BY <2>1, AtParts
  <2> QED
    BY <2>2 DEF s, t
<1>4. 0 \in T
  <2>1. n - 0 = n /\ 0 \in 0 .. n
    BY <1>1
  <2> QED
    BY <2>1
<1>5. ASSUME NEW k \in 0 .. n - 1, k \in T PROVE k + 1 \in T
  <2> DEFINE i == n - k
  <2>1. i \in 1 .. n /\ i - 1 = n - (k + 1) /\ k + 1 \in 0 .. n
    BY <1>1
  <2>2. At(W, p, F[i])
    BY <1>5
  <2> HIDE DEF i
  <2>3. At(W, p, F[i - 1])
    BY <1>3, <2>1, <2>2
  <2> QED
    BY <2>1, <2>3
<1> HIDE DEF T, n
<1>6. \A k \in 0 .. n : k \in T
  BY <1>1, <1>4, <1>5, UpTo
<1>7. ASSUME NEW i \in 1 .. n
      PROVE  /\ At(W, p + Len(F[i - 1]), LineOf(context[i]))
             /\ Len(F[i]) = Len(F[i - 1]) + Len(LineOf(context[i]))
  <2> DEFINE j == n - i
  <2>1. j \in 0 .. n /\ n - j = i
    BY <1>1
  <2> HIDE DEF j
  <2>2. At(W, p, F[n - j])
    BY <1>6, <2>1 DEF T
  <2>3. At(W, p, F[i])
    BY <2>1, <2>2
  <2> DEFINE s == F[i - 1]
             t == LineOf(context[i])
  <2>4. s \in Seq(Chars) /\ t \in Seq(Chars) /\ F[i] = s \o t
    BY <1>2
  <2> HIDE DEF s, t
  <2>5. Len(s \o t) = Len(s) + Len(t)
    BY <2>4, TwoParts
  <2> QED
    BY <1>3, <2>3, <2>4, <2>5 DEF s, t
<1> QED
  BY <1>7 DEF n

\* The value in the buffer behind i lines.
InBuffer(context, i) ==
  LET valued == {j \in 1 .. i : context[j][2] # Bare}
  IN IF valued = {} THEN <<"garbage">> ELSE context[Max(valued)][2]

LEMMA GreatestIs ==
  ASSUME NEW S \in SUBSET Int, NEW x \in S, \A y \in S : y <= x
  PROVE  Max(S) = x
<1>1. \A z \in S : (\A y \in S : z >= y) => z = x
  OBVIOUS
<1> QED
  BY <1>1 DEF Max

LEMMA BufferIs ==
  ASSUME NEW context \in Seq(Pairs)
  PROVE  /\ InBuffer(context, 0) = <<"garbage">>
         /\ \A i \in 0 .. Len(context) - 1 :
              InBuffer(context, i + 1) =
                IF context[i + 1][2] = Bare THEN InBuffer(context, i) ELSE context[i + 1][2]
<1> DEFINE valued(i) == {j \in 1 .. i : context[j][2] # Bare}
<1>1. InBuffer(context, 0) = <<"garbage">>
  <2>1. valued(0) = {}
    OBVIOUS
  <2> QED
    BY <2>1 DEF InBuffer
<1>2. ASSUME NEW i \in 0 .. Len(context) - 1
      PROVE  InBuffer(context, i + 1) =
                IF context[i + 1][2] = Bare THEN InBuffer(context, i) ELSE context[i + 1][2]
  <2> DEFINE n == i + 1
  <2>1. i \in Nat /\ n \in Nat /\ n \in 1 .. n /\ \A j \in 1 .. n : j \in 1 .. i \/ j = n
    OBVIOUS
  <2>2. 1 .. i \subseteq 1 .. n
    OBVIOUS
  <2> HIDE DEF n
  <2>3. CASE context[n][2] = Bare
    <3>1. valued(n) = valued(i)
      BY <2>1, <2>2, <2>3
    <3> HIDE DEF valued
    <3>2. InBuffer(context, n) = InBuffer(context, i)
      BY <3>1 DEF InBuffer, valued
    <3> QED
      BY <2>3, <3>2 DEF n
  <2>4. CASE context[n][2] # Bare
    <3>1. valued(n) \in SUBSET Int /\ n \in valued(n) /\ \A y \in valued(n) : y <= n
      BY <2>1, <2>4
    <3> HIDE DEF valued
    <3>2. Max(valued(n)) = n
      BY <3>1, GreatestIs
    <3>3. valued(n) # {}
      BY <3>1
    <3>4. InBuffer(context, n) = context[n][2]
      BY <3>2, <3>3 DEF InBuffer, valued
    <3> QED
      BY <2>4, <3>4 DEF n
  <2> QED
    BY <2>3, <2>4
<1> QED
  BY <1>1, <1>2

LEMMA ArrivingIs ==
  ASSUME NEW context \in Seq(Pairs)
  PROVE  /\ Arriving(context) \in Seq(Pairs) /\ Len(Arriving(context)) = Len(context)
         /\ \A i \in 1 .. Len(context) : Arriving(context)[i] = <<context[i][1], InBuffer(context, i)>>
         /\ \A i \in 0 .. Len(context) : InBuffer(context, i) \in Seq(Chars)
<1> DEFINE n == Len(context)
           T == {i \in 0 .. n : InBuffer(context, i) \in Seq(Chars)}
<1>1. n \in Nat /\ DOMAIN context = 1 .. n
  OBVIOUS
<1>2. \A i \in 1 .. n : context[i][1] \in Seq(Chars) /\ context[i][2] \in Seq(Chars)
  BY DEF Pairs
<1>3. 0 \in T
  <2>1. <<"garbage">> \in Seq(Chars)
    BY FixedChars
  <2> QED
    BY <1>1, <2>1, BufferIs
<1>4. ASSUME NEW k \in 0 .. n - 1, k \in T PROVE k + 1 \in T
  <2>1. k + 1 \in 1 .. n /\ k + 1 \in 0 .. n
    BY <1>1
  <2>2. InBuffer(context, k + 1) = IF context[k + 1][2] = Bare THEN InBuffer(context, k) ELSE context[k + 1][2]
    BY BufferIs
  <2> QED
    BY <1>2, <1>4, <2>1, <2>2
<1> HIDE DEF T, n
<1>5. \A k \in 0 .. n : k \in T
  BY <1>1, <1>3, <1>4, UpTo
<1>6. \A i \in 0 .. n : InBuffer(context, i) \in Seq(Chars)
  BY <1>5 DEF T
<1>7. Arriving(context) = [i \in 1 .. n |-> <<context[i][1], InBuffer(context, i)>>]
  BY <1>1 DEF Arriving, InBuffer
<1>8. \A i \in 1 .. n : <<context[i][1], InBuffer(context, i)>> \in Pairs
  <2>1. \A i \in 1 .. n : i \in 0 .. n
    BY <1>1
  <2> QED
    BY <1>2, <1>6, <2>1 DEF Pairs
<1> QED
  BY <1>1, <1>6, <1>7, <1>8 DEF n

\* Between line i and the next one.
Behind(st, context, i) ==
  LineBegins(st) /\ st.val = InBuffer(context, i) /\ st.context = SubSeq(Arriving(context), 1, i)

LEMMA LineOn ==
  ASSUME NEW W \in Seq(Chars), NEW f \in Nat, NEW g, Run(W, f, g), NEW p \in Nat, f <= p,
         NEW m \in Transmittable, Regular(m), NEW i \in 0 .. Len(m.context) - 1,
         At(W, p, LineOf(m.context[i + 1])), Behind(g[p], m.context, i)
  PROVE  Behind(g[p + Len(LineOf(m.context[i + 1]))], m.context, i + 1)
<1> DEFINE c == m.context
           n == Len(c)
           k == i + 1
           label == c[k][1]
           val == c[k][2]
           more == Arriving(c)
           st == g[p]
           q == p + Len(LineOf(<<label, val>>))
           value == IF val = Bare THEN st.val ELSE val
<1>1. c \in Seq(Pairs)
  BY MessageIs DEF Pairs
<1>2. n \in Nat /\ DOMAIN c = 1 .. n /\ k \in 1 .. n /\ k - 1 = i /\ i \in 0 .. n /\ i \in 0 .. n - 1
  BY <1>1
<1>3. c[k] \in Pairs
  BY <1>1, <1>2
<1>4. label \in Seq(Chars) /\ val \in Seq(Chars) /\ c[k] = <<label, val>>
  BY <1>3 DEF Pairs
<1>5. /\ \A x, y \in 1 .. n : c[x][1] = c[y][1] => x = y
      /\ \A j \in DOMAIN label : label[j] \notin {":", "CR", "LF"}
      /\ \A j \in DOMAIN val : val[j] \notin {"CR", "LF"}
      /\ val = Bare => label # <<>>
  BY <1>2 DEF Regular
<1>6. LineBegins(g[p]) /\ st.val = InBuffer(c, i) /\ st.context = SubSeq(more, 1, i)
  BY DEF Behind
<1> HIDE DEF label, val, c
<1>7. At(W, p, LineOf(<<label, val>>))
  BY <1>4 DEF c
<1>8. /\ \A j \in 1 .. Len(label) : label[j] \notin {":", "CR", "LF"}
      /\ \A j \in 1 .. Len(val) : val[j] \notin {"CR", "LF"}
  BY <1>4, <1>5
<1>9. LineBegins(g[q]) /\ g[q].val = value /\ g[q].context = Assigned(st.context, label, value)
  <2>1. Legible(label, val)
    BY <1>4, <1>5, <1>8 DEF Legible
  <2>2. LineBegins(g[p])
    BY <1>6
  <2> HIDE DEF n
  <2> QED
    BY <1>7, <2>1, <2>2, LineRead, SMTT(30)
<1>10. value = InBuffer(c, k) /\ value \in Seq(Chars)
  <2>1. InBuffer(c, i + 1) = IF c[i + 1][2] = Bare THEN InBuffer(c, i) ELSE c[i + 1][2]
    BY <1>1, <1>2, BufferIs
  <2>2. InBuffer(c, k) \in Seq(Chars)
    <3>1. k \in 0 .. n
      BY <1>2
    <3> QED
      BY <1>1, <3>1, ArrivingIs
  <2> QED
    BY <1>6, <2>1, <2>2 DEF val
<1>11. more \in Seq(Pairs) /\ Len(more) = n /\ \A j \in 1 .. n : more[j] = <<c[j][1], InBuffer(c, j)>>
  BY <1>1, ArrivingIs
<1> HIDE DEF more, value
<1> DEFINE front == SubSeq(more, 1, i)
<1>12. /\ front \in Seq(Pairs) /\ Len(front) = i /\ \A j \in 1 .. i : front[j] = more[j]
       /\ SubSeq(more, 1, k) = Append(front, more[k])
  BY <1>2, <1>11
<1>13. \A j \in 1 .. Len(front) : front[j][1] # label
  <2> TAKE j \in 1 .. Len(front)
  <2>1. j \in 1 .. n /\ j # k /\ j \in 1 .. i
    BY <1>2, <1>12
  <2>2. front[j] = <<c[j][1], InBuffer(c, j)>>
    BY <1>11, <1>12, <2>1
  <2>3. front[j][1] = c[j][1]
    BY <2>2
  <2> QED
    BY <1>2, <1>5, <2>1, <2>3 DEF label
<1>14. Assigned(front, label, value) = Append(front, <<label, value>>)
  <2> HIDE DEF front
  <2> QED
    BY <1>4, <1>10, <1>12, <1>13, NamedIs
<1>15. more[k] = <<label, value>>
  BY <1>2, <1>10, <1>11 DEF label
<1>16. g[q].context = SubSeq(more, 1, k)
  <2> HIDE DEF front, q, st
  <2> QED
    BY <1>6, <1>9, <1>12, <1>14, <1>15 DEF front
<1>17. Behind(g[q], c, k)
  BY <1>9, <1>10, <1>16 DEF Behind, more
<1> HIDE DEF k
<1> QED
  BY <1>4, <1>17 DEF c, k

\* A header that is done is the one that was sent, and nothing behind it is read.
LEMMA HeaderRead ==
  ASSUME NEW W \in Seq(Chars), NEW A \in Seq(Chars), Begins(A, W), NEW f \in Nat, f <= Len(A),
         NEW m \in Transmittable, Regular(m), At(W, f, Lines(m.context) \o <<"CR", "LF">>)
  PROVE  LET h == Header(A, f + 1)
         IN h.done => /\ h.pos = f + Len(Lines(m.context)) + 3 /\ h.pos <= Len(A) + 1
                      /\ h.context = Arriving(m.context)
<1> DEFINE c == m.context
           n == Len(c)
           lines == Lines(c)
           end == <<"CR", "LF">>
           N == Len(A)
           h == Header(A, f + 1)
           p == f + Len(lines)
           more == Arriving(c)
<1>1. c \in Seq(Pairs)
  BY MessageIs DEF Pairs
<1>2. PICK F \in [0 .. n -> Seq(Chars)] : InRow(F, c) /\ F[n] = lines
  BY <1>1, RowIs
<1>3. n \in Nat /\ lines \in Seq(Chars) /\ Len(lines) \in Nat
  <2>1. n \in Nat
    BY <1>1
  <2>2. n \in 0 .. n
    BY <2>1
  <2>3. lines \in Seq(Chars)
    BY <1>2, <2>2
  <2> QED
    BY <2>1, <2>3
<1>4. At(W, f, lines) /\ At(W, p, end)
  <2>1. At(W, f, lines \o end)
    OBVIOUS
  <2>2. end \in Seq(Chars)
    BY FixedChars, ShortIs
  <2> HIDE DEF lines, end
  <2> QED
    BY <1>3, <2>1, <2>2, AtParts
<1>5. N \in Nat /\ N <= Len(W) /\ Len(W) \in Nat
  BY DEF Begins
<1>6. PICK g : Run(W, f, g)
  BY <1>5, RunExists
<1>7. h = g[N]
  BY <1>6, HeaderIs
<1>8. \A i \in 1 .. n : /\ At(W, f + Len(F[i - 1]), LineOf(c[i]))
                        /\ Len(F[i]) = Len(F[i - 1]) + Len(LineOf(c[i]))
  <2>1. At(W, f, F[n])
    BY <1>2, <1>4
  <2> HIDE DEF c
  <2> QED
    BY <1>1, <1>2, <2>1, RowAt
<1>9. more \in Seq(Pairs) /\ Len(more) = n
  BY <1>1, ArrivingIs
<1> HIDE DEF lines, end, N, h, more
<1> DEFINE T == {i \in 0 .. n : Behind(g[f + Len(F[i])], c, i)}
<1>10. 0 \in T
  <2>1. F[0] = <<>> /\ Len(F[0]) = 0 /\ f + Len(F[0]) = f /\ 0 \in 0 .. n
    BY <1>2, <1>3 DEF InRow
  <2>2. g[f] = AtHeader(f + 1)
    BY <1>6 DEF Run
  <2>3. LineBegins(AtHeader(f + 1)) /\ AtHeader(f + 1).val = <<"garbage">> /\ AtHeader(f + 1).context = <<>>
    BY DEF LineBegins, AtHeader
  <2>4. SubSeq(more, 1, 0) = <<>>
    BY <1>9
  <2>5. Behind(g[f], c, 0)
    BY <1>1, <2>2, <2>3, <2>4, BufferIs DEF Behind, more
  <2> QED
    BY <2>1, <2>5
<1>11. ASSUME NEW i \in 0 .. n - 1, i \in T PROVE i + 1 \in T
  <2> DEFINE k == i + 1
             q == f + Len(F[i])
  <2>1. k \in 1 .. n /\ k - 1 = i /\ k \in 0 .. n /\ i \in 0 .. n
    BY <1>3
  <2>2. q \in Nat /\ f <= q /\ Len(F[i]) \in Nat
    <3>1. F[i] \in Seq(Chars)
      BY <1>2, <2>1
    <3> QED
      BY <3>1
  <2>3. At(W, q, LineOf(c[k])) /\ Len(F[k]) = Len(F[i]) + Len(LineOf(c[k]))
    BY <1>8, <2>1
  <2>4. Behind(g[q], c, i)
    BY <1>11
  <2> HIDE DEF q
  <2>5. Behind(g[q + Len(LineOf(c[k]))], c, k)
    BY <1>6, <2>2, <2>3, <2>4, LineOn
  <2>6. Len(LineOf(c[k])) \in Nat
    <3>1. c[k] \in Pairs
      BY <1>1, <2>1
    <3>2. LineOf(c[k]) \in Seq(Chars)
      BY <3>1, LineIs
    <3> QED
      BY <3>2
  <2>7. q + Len(LineOf(c[k])) = f + Len(F[k])
    <3> DEFINE x == Len(F[i])
               y == Len(LineOf(c[k]))
               z == Len(F[k])
    <3>1. z = x + y /\ q = f + x /\ x \in Nat /\ y \in Nat
      BY <2>2, <2>3, <2>6 DEF q
    <3> HIDE DEF x, y, z
    <3>2. q + y = f + z
      BY <3>1
    <3> QED
      BY <3>2 DEF y, z
  <2> QED
    BY <2>1, <2>5, <2>7
<1>12. \A i \in 0 .. n : i \in T
  <2> HIDE DEF T, n
  <2> QED
    BY <1>3, <1>10, <1>11, UpTo
<1>13. Behind(g[p], c, n)
  <2>0. n \in 0 .. n
    BY <1>3
  <2>1. n \in T
    <3> HIDE DEF T, n
    <3> QED
      BY <1>12, <2>0
  <2> QED
    BY <1>2, <2>1
<1> HIDE DEF T
<1>14. p \in Nat /\ f <= p
  BY <1>3
<1>15. /\ p + 2 <= Len(W) /\ ~ g[p + 1].done
       /\ g[p + 2].done /\ g[p + 2].context = more /\ g[p + 2].pos = p + 3
  <2>1. ~ g[p].skip /\ ~ g[p].done /\ ~ g[p].line /\ g[p].context = SubSeq(more, 1, n)
    BY <1>13 DEF Behind, LineBegins, more
  <2>2. SubSeq(more, 1, n) = more
    BY <1>9
  <2>3. At(W, p, <<"CR", "LF">>)
    BY <1>4 DEF end
  <2> HIDE DEF p
  <2> QED
    <3>1. /\ p + 2 <= Len(W) /\ ~ g[p + 1].done
          /\ g[p].line \/ (g[p + 2].done /\ g[p + 2].context = g[p].context /\ g[p + 2].pos = p + 3)
      BY <1>6, <1>14, <2>1, <2>3, EndRead
    <3> QED
      BY <2>1, <2>2, <3>1
<1>16. ASSUME h.done PROVE h.pos = p + 3 /\ h.pos <= N + 1 /\ h.context = more
  <2>1. N \in f .. Len(W) /\ f <= Len(W)
    BY <1>5 DEF N
  <2>2. \A i \in N .. Len(W) : g[i] = g[N]
    BY <1>6, <1>7, <1>16, <2>1, DoneStays
  <2>3. ~ (N <= p + 1)
    <3> SUFFICES ASSUME N <= p + 1 PROVE FALSE
      OBVIOUS
    <3>1. N \in Nat /\ Len(W) \in Nat
      BY <1>5
    <3>2. p + 1 \in N .. Len(W)
      <4>1. p \in Nat /\ p + 2 <= Len(W)
        BY <1>14, <1>15
      <4> HIDE DEF p
      <4> QED
        BY <3>1, <4>1
    <3> QED
      BY <1>7, <1>15, <1>16, <2>2, <3>2
  <2>4. p + 2 \in f .. Len(W) /\ N \in p + 2 .. Len(W)
    BY <1>5, <1>14, <1>15, <2>3
  <2>5. g[N] = g[p + 2]
    <3> DEFINE j == p + 2
    <3>1. j \in f .. Len(W) /\ g[j].done /\ N \in j .. Len(W)
      BY <1>15, <2>4
    <3> HIDE DEF j, p
    <3> QED
      BY <1>6, <2>1, <3>1, DoneStays DEF j
  <2> QED
    BY <1>5, <1>7, <1>14, <1>15, <2>3, <2>5
<1> QED
  BY <1>16 DEF h, N, more, lines

-----------------------------------------------------------------------------
(* Transmittable.                                                                   *)

\* With every name once, the value of a name is the one of its line.
LEMMA ValueIs ==
  ASSUME NEW context \in Seq(Pairs), \A i, j \in 1 .. Len(context) : context[i][1] = context[j][1] => i = j,
         NEW label, contain(context, label)
  PROVE  \E i \in 1 .. Len(context) : context[i][1] = label /\ ValueOf(context, label) = context[i][2]
<1> DEFINE k == CHOOSE i \in DOMAIN context : context[i][1] = label
<1>1. DOMAIN context = 1 .. Len(context)
  OBVIOUS
<1>2. k \in DOMAIN context /\ context[k][1] = label
  BY DEF contain
<1>3. ValueOf(context, label) = context[k][2]
  BY DEF ValueOf
<1> HIDE DEF k
<1> QED
  BY <1>1, <1>2, <1>3

LEMMA ValueArrives ==
  ASSUME NEW m \in Transmittable, Regular(m), NEW label
  PROVE  LET c == m.context
         IN /\ contain(Arriving(c), label) <=> contain(c, label)
            /\ contain(c, label) /\ ValueOf(c, label) # Bare => ValueOf(Arriving(c), label) = ValueOf(c, label)
<1> DEFINE c == m.context
           n == Len(c)
           more == Arriving(c)
<1>1. c \in Seq(Pairs)
  BY MessageIs DEF Pairs
<1>2. \A i, j \in 1 .. n : c[i][1] = c[j][1] => i = j
  <2>1. DOMAIN m.context = 1 .. n
    BY <1>1
  <2> QED
    BY <2>1 DEF Regular
<1> HIDE DEF c
<1>3. more \in Seq(Pairs) /\ Len(more) = n /\ \A i \in 1 .. n : more[i] = <<c[i][1], InBuffer(c, i)>>
  BY <1>1, ArrivingIs
<1>4. DOMAIN c = 1 .. n /\ DOMAIN more = 1 .. n /\ n \in Nat
  BY <1>1, <1>3
<1> HIDE DEF more
<1>5. \A i \in 1 .. n : more[i][1] = c[i][1] /\ more[i][2] = InBuffer(c, i)
  BY <1>3
<1>6. contain(more, label) <=> contain(c, label)
  BY <1>4, <1>5 DEF contain
<1>7. ASSUME contain(c, label), ValueOf(c, label) # Bare PROVE ValueOf(more, label) = ValueOf(c, label)
  <2>1. PICK i \in 1 .. n : c[i][1] = label /\ ValueOf(c, label) = c[i][2]
    BY <1>1, <1>2, <1>7, ValueIs
  <2>2. PICK j \in 1 .. n : more[j][1] = label /\ ValueOf(more, label) = more[j][2]
    <3>1. \A a, b \in 1 .. Len(more) : more[a][1] = more[b][1] => a = b
      BY <1>2, <1>3, <1>5
    <3>2. contain(more, label)
      BY <1>6, <1>7
    <3>3. \E j \in 1 .. Len(more) : more[j][1] = label /\ ValueOf(more, label) = more[j][2]
      BY <1>3, <3>1, <3>2, ValueIs
    <3> QED
      BY <1>3, <3>3
  <2>3. i = j
    BY <1>2, <1>5, <2>1, <2>2
  <2>4. InBuffer(c, i) = c[i][2]
    <3> DEFINE h == i - 1
    <3>1. h \in 0 .. n - 1 /\ h + 1 = i
      BY <1>4
    <3> HIDE DEF h
    <3>2. InBuffer(c, h + 1) = IF c[h + 1][2] = Bare THEN InBuffer(c, h) ELSE c[h + 1][2]
      BY <1>1, <3>1, BufferIs
    <3> QED
      BY <1>7, <2>1, <3>1, <3>2
  <2> QED
    BY <1>5, <2>1, <2>2, <2>3, <2>4
<1> QED
  BY <1>6, <1>7 DEF c, more

\* The length of the body that a header announces.
SizesOf(context) ==
  IF contain(context, <<"Content-Length">>) THEN Integer(ValueOf(context, <<"Content-Length">>)) ELSE {0}

LEMMA BareIsNoNumber == Integer(Bare) = {}
<1>1. 1 \in DOMAIN Bare /\ Bare[1] = "no-colon"
  BY DEF Bare
<1>2. DOMAIN Numeral = {"zero", "one", "two"}
  BY DEF Numeral
<1>3. "no-colon" \notin DOMAIN Numeral
  BY <1>2
<1>4. \E i \in DOMAIN Bare : Bare[i] \notin DOMAIN Numeral
  BY <1>1, <1>3
<1> QED
  BY <1>4 DEF Integer

LEMMA FramedSize ==
  ASSUME NEW m \in Transmittable, Regular(m), Framed(m)
  PROVE  SizesOf(Arriving(m.context)) = {Len(m.content)}
<1> DEFINE label == <<"Content-Length">>
           c == m.context
<1>1. CASE contain(c, label)
  <2>1. Integer(ValueOf(c, label)) = {Len(m.content)}
    BY <1>1 DEF Framed
  <2>2. ValueOf(c, label) # Bare
    BY <2>1, BareIsNoNumber
  <2> HIDE DEF label
  <2>3. contain(Arriving(c), label) /\ ValueOf(Arriving(c), label) = ValueOf(c, label)
    BY <1>1, <2>2, ValueArrives
  <2> QED
    BY <2>1, <2>3 DEF SizesOf, label
<1>2. CASE ~ contain(c, label)
  <2>1. m.content = <<>>
    BY <1>2 DEF Framed
  <2> HIDE DEF label
  <2>2. ~ contain(Arriving(c), label)
    BY <1>2, ValueArrives
  <2>3. Len(m.content) = 0
    BY <2>1
  <2> QED
    BY <2>2, <2>3 DEF SizesOf, label
<1> QED
  BY <1>1, <1>2

LEMMA BodylessSize ==
  ASSUME NEW m \in Transmittable, Regular(m), ~ contain(m.context, <<"Content-Length">>)
  PROVE  SizesOf(Arriving(m.context)) = {0}
<1> DEFINE label == <<"Content-Length">>
           c == m.context
<1>1. ~ contain(c, label)
  OBVIOUS
<1> HIDE DEF label
<1>2. ~ contain(Arriving(c), label)
  BY <1>1, ValueArrives
<1> QED
  BY <1>2 DEF SizesOf, label

\* The question for "Connection".
LEMMA AskedIs ==
  ASSUME NEW m \in Transmittable, Regular(m)
  PROVE  LET c == m.context
             asked == Named(Arriving(c), <<"Connection">>)
         IN /\ Headers(asked, c) /\ Headers(Arriving(c), c)
            /\ ValueOf(asked, <<"Connection">>) = <<"close">> => Closes(m)
<1> DEFINE label == <<"Connection">>
           c == m.context
           more == Arriving(c)
           asked == Named(more, label)
           none == <<>>
           new == <<label, none>>
           yes == <<"close">>
<1>1. c \in Seq(Pairs) /\ more \in Seq(Pairs)
  <2>1. c \in Seq(Pairs)
    BY MessageIs DEF Pairs
  <2> QED
    BY <2>1, ArrivingIs
<1>2. label \in Seq(Chars) /\ none \in Seq(Chars) /\ yes # none
  BY FixedChars
<1>3. asked = IF contain(more, label) THEN more ELSE Append(more, new)
  BY DEF Named
<1>4. /\ Closes(m) <=> contain(c, label) /\ ValueOf(more, label) = yes
      /\ \A x : Headers(x, c) <=> x = more \/ (~ contain(c, label) /\ x = Append(more, new))
  BY DEF Closes, Headers
<1> HIDE DEF label, asked, none, yes
<1>5. contain(more, label) <=> contain(c, label)
  BY ValueArrives
<1> HIDE DEF c, more
<1>6. CASE contain(c, label)
  BY <1>3, <1>4, <1>5, <1>6 DEF asked, label, yes, more, c
<1>7. CASE ~ contain(c, label)
  <2> DEFINE n == Len(more)
  <2>1. new \in Pairs /\ new[1] = label /\ new[2] = none
    BY <1>2 DEF Pairs
  <2> HIDE DEF new
  <2>2. /\ asked = Append(more, new) /\ DOMAIN asked = 1 .. n + 1 /\ DOMAIN more = 1 .. n /\ n \in Nat
        /\ asked[n + 1] = new /\ \A i \in 1 .. n : asked[i] = more[i]
    BY <1>1, <1>3, <1>5, <1>7, <2>1
  <2>3. \A i \in DOMAIN asked : asked[i][1] = label => i = n + 1
    <3> SUFFICES ASSUME NEW i \in DOMAIN asked, asked[i][1] = label, i # n + 1 PROVE FALSE
      OBVIOUS
    <3>1. i \in 1 .. n
      BY <2>2
    <3> QED
      BY <1>5, <1>7, <2>2, <3>1 DEF contain
  <2>4. n + 1 \in DOMAIN asked /\ asked[n + 1][1] = label
    BY <2>1, <2>2
  <2>5. (CHOOSE i \in DOMAIN asked : asked[i][1] = label) = n + 1
    BY <2>3, <2>4
  <2>6. ValueOf(asked, label) = none
    BY <2>1, <2>2, <2>5 DEF ValueOf
  <2>7. Headers(asked, c) /\ Headers(more, c)
    BY <1>4, <1>7, <2>2
  <2> QED
    BY <1>2, <2>6, <2>7 DEF asked, label, yes, more, c
<1> QED
  BY <1>6, <1>7

LEMMA Associates ==
  ASSUME NEW S, NEW s \in Seq(S), NEW t \in Seq(S), NEW u \in Seq(S)
  PROVE  (s \o t) \o u = s \o (t \o u)
<1> DEFINE a == (s \o t) \o u
           y == t \o u
           b == s \o y
           f == Len(s)
           l == Len(t)
<1>1. /\ a \in Seq(S) /\ Len(a) = f + l + Len(u) /\ f \in Nat /\ l \in Nat /\ Len(u) \in Nat
      /\ \A i \in 1 .. f : a[i] = s[i]
      /\ \A i \in 1 .. l : a[f + i] = t[i]
      /\ \A i \in 1 .. Len(u) : a[f + l + i] = u[i]
  <2>1. LET x == (s \o t) \o u
        IN /\ x \in Seq(S) /\ Len(x) = Len(s) + Len(t) + Len(u)
           /\ Len(s) \in Nat /\ Len(t) \in Nat /\ Len(u) \in Nat
           /\ \A i \in 1 .. Len(s) : x[i] = s[i]
           /\ \A i \in 1 .. Len(t) : x[Len(s) + i] = t[i]
           /\ \A i \in 1 .. Len(u) : x[Len(s) + Len(t) + i] = u[i]
    BY ThreeParts
  <2> QED
    BY <2>1
<1>2. /\ y \in Seq(S) /\ Len(y) = l + Len(u)
      /\ \A i \in 1 .. l : y[i] = t[i]
      /\ \A i \in 1 .. Len(u) : y[l + i] = u[i]
  BY TwoParts
<1> HIDE DEF a, y
<1>3. /\ b \in Seq(S) /\ Len(b) = f + Len(y)
      /\ \A i \in 1 .. f : b[i] = s[i]
      /\ \A i \in 1 .. Len(y) : b[f + i] = y[i]
  <2>1. y \in Seq(S)
    BY <1>2
  <2>2. LET x == s \o y
        IN /\ x \in Seq(S) /\ Len(x) = Len(s) + Len(y)
           /\ \A i \in 1 .. Len(s) : x[i] = s[i]
           /\ \A i \in 1 .. Len(y) : x[Len(s) + i] = y[i]
    BY <2>1, TwoParts
  <2> QED
    BY <2>2
<1> HIDE DEF b, f, l
<1>4. Len(a) = Len(b)
  BY <1>1, <1>2, <1>3
<1>5. \A i \in 1 .. Len(a) : a[i] = b[i]
  <2> TAKE i \in 1 .. Len(a)
  <2>1. CASE i <= f
    <3>1. i \in 1 .. f
      BY <1>1, <2>1
    <3> QED
      BY <1>1, <1>3, <3>1
  <2>2. CASE i > f /\ i <= f + l
    <3> DEFINE j == i - f
    <3>1. j \in 1 .. l /\ j \in 1 .. Len(y) /\ f + j = i
      BY <1>1, <1>2, <2>2
    <3> HIDE DEF j
    <3> QED
      BY <1>1, <1>2, <1>3, <3>1
  <2>3. CASE i > f + l
    <3> DEFINE j == i - f - l
               k == l + j
    <3>1. j \in 1 .. Len(u) /\ k \in 1 .. Len(y) /\ f + k = i /\ l + j = k /\ f + l + j = i
      BY <1>1, <1>2, <2>3
    <3> HIDE DEF j, k
    <3>2. a[i] = u[j]
      BY <1>1, <3>1
    <3>3. y[k] = u[j]
      BY <1>2, <3>1
    <3>4. b[i] = y[k]
      BY <1>3, <3>1
    <3> QED
      BY <3>2, <3>3, <3>4
  <2> QED
    BY <1>1, <2>1, <2>2, <2>3
<1>6. a = b
  <2>1. a \in Seq(S) /\ b \in Seq(S)
    BY <1>1, <1>3
  <2> QED
    BY <1>4, <1>5, <2>1, SMTT(30)
<1> QED
  BY <1>6 DEF a, b, y

LEMMA FirstLineIs ==
  ASSUME NEW m \in Transmittable, Sendable(m)
  PROVE  FirstLine(m) \in Seq(Chars)
<1>1. m.url \in Seq(Chars) /\ m.bound \in {"client", "server"}
  BY MessageIs
<1>2. CASE m.bound = "client"
  <2> DEFINE s == MethodName(m.method)
             t == <<SP>>
             v == <<SP, "HTTP/1.1", "CR", "LF">>
             url == m.url
             none == <<>>
  <2>1. t \in Seq(Chars) /\ v \in Seq(Chars) /\ none \in Seq(Chars)
    BY FixedChars, ShortIs
  <2>2. s \in Seq(Chars)
    <3> DEFINE name == METHODS[m.method]
               one == <<name>>
    <3>1. name \in Chars
      BY <1>2 DEF Chars, Sendable
    <3>2. s = IF name = NoName THEN none ELSE one
      BY DEF MethodName
    <3> HIDE DEF name, none, s
    <3>3. one \in Seq(Chars)
      BY <3>1
    <3> QED
      BY <2>1, <3>2, <3>3
  <2>3. FirstLine(m) = ((s \o t) \o url) \o v
    BY <1>2 DEF FirstLine
  <2>4. url \in Seq(Chars)
    BY <1>1
  <2> HIDE DEF s, t, v, url
  <2>5. ((s \o t) \o url) \in Seq(Chars)
    BY <2>1, <2>2, <2>4
  <2>6. ((s \o t) \o url) \o v \in Seq(Chars)
    BY <2>1, <2>5
  <2> QED
    BY <2>3, <2>6
<1>3. CASE m.bound = "server"
  BY <1>3, ServerLine
<1> QED
  BY <1>1, <1>2, <1>3

\* A message is its first line, the lines of its header, the empty one and its body.
LEMMA WireIs ==
  ASSUME NEW m \in Transmittable, Sendable(m)
  PROVE  /\ FirstLine(m) \in Seq(Chars) /\ Lines(m.context) \in Seq(Chars) /\ m.content \in Seq(Chars)
         /\ Wire(m) \in Seq(Chars)
         /\ Len(Wire(m)) = Len(FirstLine(m)) + Len(Lines(m.context)) + 2 + Len(m.content)
         /\ \A W \in Seq(Chars) : At(W, 0, Wire(m)) =>
              /\ At(W, 0, FirstLine(m))
              /\ At(W, Len(FirstLine(m)), Lines(m.context) \o <<"CR", "LF">>)
              /\ At(W, Len(FirstLine(m)) + Len(Lines(m.context)) + 2, m.content)
<1> DEFINE first == FirstLine(m)
           lines == Lines(m.context)
           end == <<"CR", "LF">>
           body == m.content
           x == first \o lines
           y == lines \o end
           z == x \o end
<1>1. first \in Seq(Chars) /\ body \in Seq(Chars) /\ end \in Seq(Chars) /\ Len(end) = 2
  BY FirstLineIs, MessageIs, FixedChars, ShortIs
<1>2. lines \in Seq(Chars)
  <2> DEFINE c == m.context
             n == Len(c)
  <2>1. c \in Seq(Pairs)
    BY MessageIs DEF Pairs
  <2>2. n \in 0 .. n
    BY <2>1
  <2> HIDE DEF c
  <2>3. PICK F \in [0 .. n -> Seq(Chars)] : InRow(F, c) /\ F[n] = Lines(c)
    BY <2>1, RowIs
  <2> QED
    BY <2>2, <2>3 DEF c
<1>3. Wire(m) = ((first \o lines) \o end) \o body
  BY DEF Wire
<1> HIDE DEF first, lines, end, body
<1>4. Wire(m) = z \o body
  BY <1>3
<1>5. x \in Seq(Chars) /\ Len(x) = Len(first) + Len(lines) /\ Len(first) \in Nat /\ Len(lines) \in Nat
  BY <1>1, <1>2, TwoParts
<1>6. z = first \o y /\ y \in Seq(Chars) /\ Len(y) = Len(lines) + 2
  <2>1. y \in Seq(Chars) /\ Len(y) = Len(lines) + Len(end)
    BY <1>1, <1>2, TwoParts
  <2>2. (first \o lines) \o end = first \o (lines \o end)
    BY <1>1, <1>2, Associates
  <2> QED
    BY <1>1, <2>1, <2>2
<1> HIDE DEF x, y
<1>7. z \in Seq(Chars) /\ Len(z) = Len(x) + Len(end)
  BY <1>1, <1>5, TwoParts
<1> HIDE DEF z
<1>8. z \o body \in Seq(Chars) /\ Len(z \o body) = Len(z) + Len(body)
  BY <1>1, <1>7, TwoParts, ZenonT(30)
<1>9. Len(z) = Len(first) + Len(lines) + 2 /\ Len(z) \in Nat
  BY <1>1, <1>5, <1>7
<1>10. ASSUME NEW W \in Seq(Chars), At(W, 0, Wire(m))
       PROVE  At(W, 0, first) /\ At(W, Len(first), y) /\ At(W, Len(first) + Len(lines) + 2, body)
  <2> DEFINE o == 0
  <2>1. o \in Nat /\ At(W, o, z \o body) /\ o + Len(z) = Len(first) + Len(lines) + 2
        /\ o + Len(first) = Len(first)
    BY <1>4, <1>5, <1>9, <1>10
  <2> HIDE DEF o
  <2>2. At(W, o, z) /\ At(W, o + Len(z), body)
    BY <1>1, <1>7, <2>1, AtParts
  <2>3. At(W, o, first) /\ At(W, o + Len(first), y)
    BY <1>1, <1>6, <2>1, <2>2, AtParts
  <2> QED
    BY <2>1, <2>2, <2>3 DEF o
<1> QED
  BY <1>1, <1>2, <1>4, <1>8, <1>9, <1>10 DEF first, lines, body, y, end

\* What receive() returns of a message: the header and the first line that were
\* sent, and of its body what the header announces or what there is.
LEMMA ReceiveIs ==
  ASSUME NEW W \in Seq(Chars), NEW A \in Seq(Chars), Begins(A, W), NEW m \in Transmittable, Sendable(m),
         Regular(m), At(W, 0, Wire(m)), NEW size \in Nat, SizesOf(Arriving(m.context)) = {size}
  PROVE  LET first == ReadFirst(A, m.bound)
             r == ReceiveOf(A, m.bound, first, Header(A, first.pos))
             e == Len(FirstLine(m)) + Len(Lines(m.context)) + 2
         IN r.status = "ok" =>
              /\ e \in Nat /\ e + size <= Len(A) /\ r.message.bound = m.bound
              /\ IF m.bound = "client" THEN r.message.method = m.method /\ r.message.url = m.url
                                       ELSE r.message.status = m.status
              /\ Headers(r.message.context, m.context)
              /\ r.message.content = SubSeq(A, e + 1, r.pos - 1)
              /\ \/ r.pos = e + size + 1
                 \/ Closes(m) /\ Len(A) > e + size /\ r.pos = Len(A) + 1
<1> DEFINE c == m.context
           N == Len(A)
           f == Len(FirstLine(m))
           l == Len(Lines(c))
           e == f + l + 2
           more == Arriving(c)
           first == ReadFirst(A, m.bound)
           heading == Header(A, first.pos)
           r == ReceiveOf(A, m.bound, first, heading)
           length == <<"Content-Length">>
           asking == <<"Connection">>
           sizes == IF contain(heading.context, length) THEN Integer(ValueOf(heading.context, length)) ELSE {0}
           given == CHOOSE n \in sizes : TRUE
           available == N - (heading.pos - 1 + given)
           asked == IF available > 0 THEN Named(heading.context, asking) ELSE heading.context
           rest == available > 0 /\ ValueOf(asked, asking) = <<"close">>
           end == IF rest THEN N ELSE heading.pos - 1 + given
           method == IF m.bound = "client" THEN CHOOSE id \in MethodId(first.words[1][1]) : TRUE ELSE 0
           url == IF m.bound = "client" THEN first.words[2] ELSE <<>>
           status == IF m.bound = "client" THEN <<>> ELSE first.words[1]
           content == SubSeq(A, heading.pos, end)
           message == [EmptyMessage EXCEPT !.bound = m.bound, !.context = asked, !.content = content,
                                           !.method = method, !.url = url, !.status = status]
<1> SUFFICES ASSUME r.status = "ok"
             PROVE  /\ e \in Nat /\ e + size <= N /\ r.message.bound = m.bound
                    /\ IF m.bound = "client" THEN r.message.method = m.method /\ r.message.url = m.url
                                             ELSE r.message.status = m.status
                    /\ Headers(r.message.context, c)
                    /\ r.message.content = SubSeq(A, e + 1, r.pos - 1)
                    /\ \/ r.pos = e + size + 1
                       \/ Closes(m) /\ N > e + size /\ r.pos = N + 1
  OBVIOUS
<1>1. r = IF first.status # "ok" THEN Failed(first.status)
          ELSE IF ~heading.done THEN Failed("wait")
          ELSE IF sizes = {} THEN Failed("fault")
          ELSE IF available < 0 THEN Failed("wait")
          ELSE [status |-> "ok", pos |-> end + 1, message |-> message]
  BY DEF ReceiveOf
<1>2. \A s : Failed(s).status = s
  BY DEF Failed
<1>3. /\ message.bound = m.bound /\ message.context = asked /\ message.content = content
      /\ message.method = method /\ message.url = url /\ message.status = status
  <2> HIDE DEF asked, content, method, url, status
  <2> QED
    BY DEF EmptyMessage
<1>4. At(W, 0, FirstLine(m)) /\ At(W, f, Lines(c) \o <<"CR", "LF">>) /\ f \in Nat /\ l \in Nat
  <2>1. /\ FirstLine(m) \in Seq(Chars) /\ Lines(m.context) \in Seq(Chars)
        /\ At(W, 0, FirstLine(m)) /\ At(W, Len(FirstLine(m)), Lines(m.context) \o <<"CR", "LF">>)
    BY WireIs
  <2>2. f \in Nat /\ l \in Nat
    BY <2>1
  <2> QED
    BY <2>1, <2>2
<1>5. N \in Nat
  OBVIOUS
<1> HIDE DEF r, first, heading, sizes, available, end, message, N, c, f, l
<1>6. /\ first.status = "ok" /\ heading.done /\ ~ (available < 0)
      /\ r = [status |-> "ok", pos |-> end + 1, message |-> message]
  BY <1>1, <1>2
<1>7. /\ first.pos = f + 1 /\ first.pos <= N + 1
      /\ IF m.bound = "client" THEN first.words[1] = <<METHODS[m.method]>> /\ first.words[2] = m.url
                               ELSE first.words[1] = m.status
  BY <1>4, <1>6, FirstRead DEF first, f, N
<1>8. heading.pos = e + 1 /\ heading.pos <= N + 1 /\ heading.context = more
  <2>1. f <= Len(A)
    BY <1>4, <1>5, <1>7 DEF N
  <2>2. heading = Header(A, f + 1)
    BY <1>7 DEF heading
  <2>3. At(W, f, Lines(m.context) \o <<"CR", "LF">>)
    BY <1>4 DEF c
  <2> DEFINE h == Header(A, f + 1)
  <2>4. h.done => /\ h.pos = f + Len(Lines(m.context)) + 3 /\ h.pos <= Len(A) + 1
                  /\ h.context = Arriving(m.context)
    BY <1>4, <2>1, <2>3, HeaderRead
  <2>5. heading.pos = f + l + 3 /\ heading.pos <= N + 1 /\ heading.context = more
    BY <1>6, <2>2, <2>4 DEF l, c, N
  <2> QED
    BY <1>4, <2>5
<1>9. sizes = {size} /\ given = size
  <2>1. sizes = SizesOf(heading.context)
    BY DEF sizes, SizesOf
  <2>2. sizes = {size}
    BY <1>8, <2>1 DEF c
  <2> QED
    BY <2>2
<1>10. e \in Nat
  BY <1>4
<1> HIDE DEF e, more, given, method, url, status, asked, rest
<1>11. /\ available = N - (e + size) /\ e + size <= N
       /\ end = IF rest THEN N ELSE e + size
  <2>1. heading.pos - 1 + given = e + size
    BY <1>8, <1>9, <1>10
  <2>2. available = N - (e + size) /\ end = IF rest THEN N ELSE e + size
    BY <2>1 DEF available, end
  <2> QED
    BY <1>5, <1>6, <1>10, <2>2
<1>12. Headers(asked, c) /\ (rest => Closes(m))
  <2>1. /\ Headers(Named(more, asking), c) /\ Headers(more, c)
        /\ ValueOf(Named(more, asking), asking) = <<"close">> => Closes(m)
    BY AskedIs DEF more, c
  <2>2. asked = IF available > 0 THEN Named(more, asking) ELSE more
    BY <1>8 DEF asked
  <2>3. rest <=> available > 0 /\ ValueOf(asked, asking) = <<"close">>
    BY DEF rest
  <2> HIDE DEF asking
  <2>4. CASE available > 0
    BY <2>1, <2>2, <2>3, <2>4
  <2>5. CASE ~ (available > 0)
    BY <2>1, <2>2, <2>3, <2>5
  <2> QED
    BY <2>4, <2>5
<1>13. rest => N > e + size
  <2>1. rest => available > 0
    BY DEF rest
  <2> QED
    BY <1>5, <1>10, <1>11, <2>1
<1>14. IF m.bound = "client" THEN message.method = m.method /\ message.url = m.url
                             ELSE message.status = m.status
  <2>1. CASE m.bound = "client"
    <3>1. m.method \in DOMAIN METHODS /\ METHODS[m.method] # NoName
      BY <2>1 DEF Sendable, Regular
    <3>2. MethodId(METHODS[m.method]) = {m.method}
      BY <3>1, NamesAre
    <3> DEFINE name == METHODS[m.method]
    <3>3. first.words[1][1] = name
      BY <1>7, <2>1
    <3> HIDE DEF name
    <3>4. MethodId(first.words[1][1]) = {m.method}
      BY <3>2, <3>3 DEF name
    <3>5. method = m.method
      BY <2>1, <3>4 DEF method
    <3>6. url = m.url
      BY <1>7, <2>1 DEF url
    <3> QED
      BY <1>3, <2>1, <3>5, <3>6
  <2>2. CASE m.bound # "client"
    <3>1. first.words[1] = m.status
      BY <1>7, <2>2
    <3>2. status = m.status
      BY <2>2, <3>1 DEF status
    <3> QED
      BY <1>3, <2>2, <3>2
  <2> QED
    BY <2>1, <2>2
<1>15. r.message = message /\ r.pos = end + 1
  BY <1>6
<1>16. r.pos - 1 = end /\ message.content = SubSeq(A, e + 1, end)
  <2>1. end \in Nat
    BY <1>5, <1>10, <1>11
  <2>2. content = SubSeq(A, e + 1, end)
    BY <1>8
  <2> QED
    BY <1>3, <1>15, <2>1, <2>2
<1>17. r.pos = e + size + 1 \/ (Closes(m) /\ N > e + size /\ r.pos = N + 1)
  <2>1. CASE rest
    BY <1>11, <1>12, <1>13, <1>15, <2>1
  <2>2. CASE ~ rest
    BY <1>11, <1>15, <2>2
  <2> QED
    BY <2>1, <2>2
<1> QED
  BY <1>3, <1>10, <1>11, <1>12, <1>14, <1>15, <1>16, <1>17

-----------------------------------------------------------------------------
(* What arrives.                                                               *)

LEMMA EqualIs ==
  ASSUME NEW S, NEW s \in Seq(S), NEW t \in Seq(S), Len(s) = Len(t), \A i \in 1 .. Len(t) : s[i] = t[i]
  PROVE  s = t
  OBVIOUS

\* In front of what is left of a sequence is what was taken from it.
LEMMA RestJoins ==
  ASSUME NEW S, NEW s \in Seq(S), NEW n \in 0 .. Len(s)
  PROVE  /\ SubSeq(s, 1, n) \in Seq(S) /\ SubSeq(s, n + 1, Len(s)) \in Seq(S)
         /\ SubSeq(s, 1, n) \o SubSeq(s, n + 1, Len(s)) = s
<1> DEFINE a == SubSeq(s, 1, n)
           b == SubSeq(s, n + 1, Len(s))
           x == a \o b
<1>1. a \in Seq(S) /\ Len(a) = n /\ \A i \in 1 .. n : a[i] = s[i]
  OBVIOUS
<1>2. b \in Seq(S) /\ Len(b) = Len(s) - n /\ \A i \in 1 .. Len(s) - n : b[i] = s[n + i]
  OBVIOUS
<1> HIDE DEF a, b
<1>3. /\ x \in Seq(S) /\ Len(x) = Len(a) + Len(b)
      /\ \A i \in 1 .. Len(a) : x[i] = a[i]
      /\ \A i \in 1 .. Len(b) : x[Len(a) + i] = b[i]
  BY <1>1, <1>2, TwoParts
<1> HIDE DEF x
<1>4. \A i \in 1 .. Len(s) : x[i] = s[i]
  <2> TAKE i \in 1 .. Len(s)
  <2>1. CASE i <= n
    BY <1>1, <1>3, <2>1
  <2>2. CASE i > n
    <3> DEFINE j == i - n
    <3>1. j \in 1 .. Len(b) /\ n + j = i
      BY <1>2, <2>2
    <3> HIDE DEF j
    <3> QED
      BY <1>1, <1>2, <1>3, <3>1
  <2> QED
    BY <2>1, <2>2
<1>5. x = s
  <2>1. Len(x) = Len(s) /\ s \in Seq(S) /\ x \in Seq(S)
    BY <1>1, <1>2, <1>3
  <2> QED
    BY <1>4, <2>1
<1> QED
  BY <1>1, <1>2, <1>5 DEF a, b, x

\* What is left of two sequences in a row when a first part is taken from them.
LEMMA LeftIs ==
  ASSUME NEW S, NEW A \in Seq(S), NEW B \in Seq(S), NEW v \in Seq(S), NEW w \in Seq(S),
         A \o B = v \o w, Len(v) <= Len(A)
  PROVE  /\ SubSeq(A, Len(v) + 1, Len(A)) \in Seq(S)
         /\ SubSeq(A, Len(v) + 1, Len(A)) \o B = w
<1> DEFINE p == Len(v)
           l == Len(A) - p
           t == SubSeq(A, p + 1, Len(A))
           x == t \o B
           y == A \o B
<1>1. p \in Nat /\ l \in Nat /\ Len(A) = p + l /\ Len(B) \in Nat /\ Len(w) \in Nat
  OBVIOUS
<1>2. t \in Seq(S) /\ Len(t) = l /\ \A i \in 1 .. l : t[i] = A[p + i]
  BY <1>1
<1>3. /\ y \in Seq(S) /\ Len(y) = Len(A) + Len(B)
      /\ \A i \in 1 .. Len(A) : y[i] = A[i]
      /\ \A i \in 1 .. Len(B) : y[Len(A) + i] = B[i]
  <2>1. \A a, b \in Seq(S) : /\ a \o b \in Seq(S) /\ Len(a \o b) = Len(a) + Len(b)
                             /\ \A i \in 1 .. Len(a) : (a \o b)[i] = a[i]
                             /\ \A i \in 1 .. Len(b) : (a \o b)[Len(a) + i] = b[i]
    BY TwoParts
  <2>2. A \in Seq(S) /\ B \in Seq(S)
    OBVIOUS
  <2> QED
    BY <2>1, <2>2
<1>4. Len(y) = p + Len(w) /\ \A i \in 1 .. Len(w) : y[p + i] = w[i]
  <2>1. LET z == v \o w
        IN /\ z \in Seq(S) /\ Len(z) = Len(v) + Len(w)
           /\ \A i \in 1 .. Len(w) : z[Len(v) + i] = w[i]
    BY TwoParts
  <2> QED
    BY <2>1
<1> HIDE DEF t, y
<1>5. /\ x \in Seq(S) /\ Len(x) = Len(t) + Len(B)
      /\ \A i \in 1 .. Len(t) : x[i] = t[i]
      /\ \A i \in 1 .. Len(B) : x[Len(t) + i] = B[i]
  <2>1. t \in Seq(S)
    BY <1>2
  <2>2. LET z == t \o B
        IN /\ z \in Seq(S) /\ Len(z) = Len(t) + Len(B)
           /\ \A i \in 1 .. Len(t) : z[i] = t[i]
           /\ \A i \in 1 .. Len(B) : z[Len(t) + i] = B[i]
    BY <2>1, TwoParts
  <2> QED
    BY <2>2
<1> HIDE DEF x, p, l
<1>6. Len(x) = Len(w)
  BY <1>1, <1>2, <1>3, <1>4, <1>5
<1>7. \A i \in 1 .. Len(w) : x[i] = w[i]
  <2> TAKE i \in 1 .. Len(w)
  <2> DEFINE k == p + i
  <2>1. y[k] = w[i]
    BY <1>4
  <2>2. CASE i <= l
    <3>1. i \in 1 .. l /\ k \in 1 .. Len(A)
      BY <1>1, <2>2
    <3> HIDE DEF k
    <3>2. x[i] = t[i] /\ y[k] = A[k]
      BY <1>2, <1>3, <1>5, <3>1
    <3>3. t[i] = A[k]
      BY <1>2, <3>1 DEF k
    <3> QED
      BY <2>1, <3>2, <3>3
  <2>3. CASE i > l
    <3> DEFINE j == i - l
    <3>1. j \in 1 .. Len(B) /\ l + j = i /\ Len(A) + j = k
      BY <1>1, <1>3, <1>4, <2>3
    <3> HIDE DEF j, k
    <3>2. x[i] = B[j] /\ y[k] = B[j]
      BY <1>2, <1>3, <1>5, <3>1
    <3> QED
      BY <2>1, <3>2
  <2> QED
    BY <2>2, <2>3, <1>1
<1>8. x = w
  <2>1. x \in Seq(S) /\ w \in Seq(S)
    BY <1>5
  <2> QED
    BY <1>6, <1>7, <2>1, EqualIs
<1> QED
  BY <1>2, <1>8 DEF x, t, p

\* Nothing is received of nothing, and what cannot be received ends the connection.
LEMMA ReceiveEnds ==
  ASSUME NEW A, NEW bound, NEW heading, bound \in {"client", "server"}
  PROVE  LET r == ReceiveOf(A, bound, ReadFirst(A, bound), heading)
         IN r.status \in {"ok", "wait", "throw", "fault"} /\ (A = <<>> => r.status # "ok")
<1> DEFINE first == ReadFirst(A, bound)
           r == ReceiveOf(A, bound, first, heading)
           begin == [words |-> <<>>, pos |-> 1, status |-> "ok"]
           st == ReadWord(A, ReadWord(A, ReadWord(A, begin)))
<1>1. first.status \in {"ok", "wait", "throw", "fault"} /\ (A = <<>> => first.status = "wait")
  <2>1. CASE bound = "client"
    <3>1. first = IF st.status = "wait" \/ st.pos + 1 > Len(A) THEN [st EXCEPT !.status = "wait"]
                  ELSE [st EXCEPT !.pos = @ + 2,
                                  !.status = IF MethodId(st.words[1][1]) = {} THEN "throw" ELSE "ok"]
      BY <2>1 DEF ReadFirst
    <3>2. PICK words, pos, status : st = [words |-> words, pos |-> pos, status |-> status]
      <4> DEFINE x == ReadWord(A, ReadWord(A, begin))
      <4> HIDE DEF x
      <4>1. \E words, pos, status : ReadWord(A, x) = [words |-> words, pos |-> pos, status |-> status]
        BY ReadShape
      <4> QED
        BY <4>1 DEF x
    <3>3. A = <<>> => st.status = "wait"
      <4> SUFFICES ASSUME A = <<>> PROVE st.status = "wait"
        OBVIOUS
      <4>1. \A s : ReadWord(A, s).status \in {"wait", s.status}
        BY DEF ReadWord
      <4>2. ReadWord(A, begin).status = "wait"
        <5>2. Min({1}) = 1
          BY LeastIs
        <5>3. begin.pos = 1 /\ begin.status = "ok" /\ Len(A) = 0 /\ Len(A) + 1 = 1
          OBVIOUS
        <5> HIDE DEF begin
        <5> DEFINE n == Len(A)
                   p == begin.pos
                   start == Min({i \in p .. n + 1 : i > n \/ A[i] \notin Space})
                   end == Min({i \in start .. n + 1 : i > n \/ A[i] \in Space})
        <5>4. ReadWord(A, begin).status = IF end > n THEN "wait" ELSE begin.status
          BY DEF ReadWord
        <5>5. start = 1
          <6>1. {i \in p .. n + 1 : i > n \/ A[i] \notin Space} = {1}
            BY <5>3
          <6> QED
            BY <5>2, <6>1
        <5>6. end = 1
          <6> HIDE DEF start
          <6>1. {i \in start .. n + 1 : i > n \/ A[i] \in Space} = {1}
            BY <5>3, <5>5
          <6> QED
            BY <5>2, <6>1
        <5> HIDE DEF end
        <5> QED
          BY <5>3, <5>4, <5>6
      <4> HIDE DEF begin
      <4> QED
        BY <4>1, <4>2
    <3> HIDE DEF st, first
    <3>4. \/ first.status = "wait"
          \/ first.status \in {"throw", "ok"} /\ st.status # "wait"
      BY <3>1, <3>2
    <3> QED
      BY <3>3, <3>4
  <2>2. CASE bound = "server"
    <3> DEFINE e == Min({i \in 7 .. Len(A) + 7 : i > Len(A) \/ A[i] = "LF"})
               reason == {i \in 7 .. e - 1 : i <= Len(A) /\ A[i] # "CR"}
               long == Cardinality(reason) > ReasonRoom
    <3>1. first = IF long THEN [words |-> <<>>, pos |-> e, status |-> "fault"]
                  ELSE IF e > Len(A) THEN [words |-> <<>>, pos |-> e, status |-> "wait"]
                  ELSE [words |-> <<SubSeq(A, 3, 5)>>, pos |-> e + 1, status |-> "ok"]
      BY <2>2 DEF ReadFirst
    <3>2. A = <<>> => e > Len(A) /\ ~long
      <4> SUFFICES ASSUME A = <<>> PROVE e > Len(A) /\ ~long
        OBVIOUS
      <4> DEFINE ends == {i \in 7 .. Len(A) + 7 : i > Len(A) \/ A[i] = "LF"}
      <4>1. ends = {7} /\ Len(A) = 0
        OBVIOUS
      <4>2. Min({7}) = 7
        BY LeastIs
      <4>3. e = Min(ends)
        OBVIOUS
      <4> HIDE DEF ends
      <4>4. e = 7
        BY <4>1, <4>2, <4>3
      <4> HIDE DEF e
      <4>5. reason = {}
        BY <4>1, <4>4
      <4>6. Cardinality(reason) = 0 /\ ReasonRoom \in Nat
        BY <4>5, FS_EmptySet, HttpAssumption
      <4> QED
        BY <4>1, <4>4, <4>6
    <3> HIDE DEF long
    <3> HIDE DEF e
    <3> QED
      BY <3>1, <3>2
  <2> QED
    BY <2>1, <2>2
<1> HIDE DEF first
<1>2. \/ r = Failed(first.status) /\ first.status # "ok"
      \/ r = Failed("wait") /\ first.status = "ok"
      \/ r = Failed("fault") /\ first.status = "ok"
      \/ first.status = "ok" /\ \E pos, message : r = [status |-> "ok", pos |-> pos, message |-> message]
  BY ZenonT(30) DEF ReceiveOf
<1>3. \A s : Failed(s).status = s
  BY DEF Failed
<1> HIDE DEF r
<1>4. ASSUME first.status # "ok" PROVE r.status \in {"ok", "wait", "throw", "fault"} /\ r.status # "ok"
  <2>1. r = Failed(first.status)
    BY <1>2, <1>4
  <2>2. r.status = first.status
    BY <1>3, <2>1
  <2> QED
    BY <1>1, <1>4, <2>2
<1>5. ASSUME first.status = "ok" PROVE r.status \in {"ok", "wait", "throw", "fault"} /\ A # <<>>
  <2>1. A # <<>>
    BY <1>1, <1>5
  <2>2. r.status \in {"ok", "wait", "fault"}
    <3>1. r = Failed("wait") => r.status = "wait"
      BY <1>3
    <3>2. r = Failed("fault") => r.status = "fault"
      BY <1>3
    <3>3. (\E pos, message : r = [status |-> "ok", pos |-> pos, message |-> message]) => r.status = "ok"
      OBVIOUS
    <3> QED
      BY <1>2, <1>5, <3>1, <3>2, <3>3
  <2> QED
    BY <2>1, <2>2
<1> QED
  BY <1>4, <1>5 DEF r, first

\* A stretch of one message at the front, the others behind it, and what has
\* arrived of them.
InFront(m, W, G, A) == /\ m \in Transmittable /\ Sendable(m) /\ Regular(m)
                     /\ W \in Seq(Chars) /\ G \in Seq(Chars) /\ A \in Seq(Chars)
                     /\ W = Wire(m) \o G /\ Begins(A, W)

Returned(m, A) == LET first == ReadFirst(A, m.bound)
               IN ReceiveOf(A, m.bound, first, Header(A, first.pos))

\* A message that says where it ends, and does not ask for the rest of the
\* connection unless it is all there is of it, is received as it was sent.
LEMMA FramedReceived ==
  ASSUME NEW m, NEW W, NEW G, NEW A, InFront(m, W, G, A), Framed(m), Closes(m) => G = <<>>,
         Returned(m, A).status = "ok"
  PROVE  Same(Returned(m, A).message, m) /\ Returned(m, A).pos = Len(Wire(m)) + 1 /\ Len(Wire(m)) <= Len(A)
<1> DEFINE r == Returned(m, A)
           e == Len(FirstLine(m)) + Len(Lines(m.context)) + 2
           size == Len(m.content)
           v == Wire(m)
<1>1. /\ m \in Transmittable /\ Sendable(m) /\ Regular(m) /\ W \in Seq(Chars) /\ G \in Seq(Chars)
      /\ A \in Seq(Chars) /\ W = v \o G /\ Begins(A, W)
  BY DEF InFront
<1>2. /\ v \in Seq(Chars) /\ Len(v) = e + size /\ m.content \in Seq(Chars) /\ size \in Nat
      /\ \A X \in Seq(Chars) : At(X, 0, v) => At(X, e, m.content)
  <2>1. /\ v \in Seq(Chars) /\ Len(v) = e + size /\ m.content \in Seq(Chars)
        /\ \A X \in Seq(Chars) : At(X, 0, v) => At(X, e, m.content)
    BY <1>1, WireIs
  <2> QED
    BY <2>1
<1> HIDE DEF v
<1>3. At(W, 0, v) /\ Len(W) = Len(v) + Len(G) /\ Len(v) \in Nat /\ Len(G) \in Nat
  <2> DEFINE x == v \o G
  <2>1. /\ x \in Seq(Chars) /\ Len(x) = Len(v) + Len(G) /\ Len(v) \in Nat /\ Len(G) \in Nat
        /\ \A i \in 1 .. Len(v) : x[i] = v[i]
    <3>1. v \in Seq(Chars) /\ G \in Seq(Chars)
      BY <1>1, <1>2
    <3> QED
      BY <3>1, TwoParts
  <2>2. W = x
    BY <1>1
  <2> HIDE DEF x
  <2>3. At(x, 0, v)
    BY <2>1 DEF At
  <2> QED
    BY <2>1, <2>2, <2>3
<1>4. SizesOf(Arriving(m.context)) = {size}
  BY <1>1, FramedSize
<1>5. /\ e \in Nat /\ e + size <= Len(A) /\ r.message.bound = m.bound
      /\ IF m.bound = "client" THEN r.message.method = m.method /\ r.message.url = m.url
                               ELSE r.message.status = m.status
      /\ Headers(r.message.context, m.context)
      /\ r.message.content = SubSeq(A, e + 1, r.pos - 1)
      /\ \/ r.pos = e + size + 1
         \/ Closes(m) /\ Len(A) > e + size /\ r.pos = Len(A) + 1
  <2> DEFINE first == ReadFirst(A, m.bound)
             t == ReceiveOf(A, m.bound, first, Header(A, first.pos))
  <2>1. r = t
    BY DEF Returned
  <2>2. At(W, 0, Wire(m))
    BY <1>3 DEF v
  <2>3. t.status = "ok" =>
          /\ e \in Nat /\ e + size <= Len(A) /\ t.message.bound = m.bound
          /\ IF m.bound = "client" THEN t.message.method = m.method /\ t.message.url = m.url
                                   ELSE t.message.status = m.status
          /\ Headers(t.message.context, m.context)
          /\ t.message.content = SubSeq(A, e + 1, t.pos - 1)
          /\ \/ t.pos = e + size + 1
             \/ Closes(m) /\ Len(A) > e + size /\ t.pos = Len(A) + 1
    <3> HIDE DEF size
    <3> QED
      <4>1. m \in Transmittable /\ Sendable(m) /\ Regular(m) /\ A \in Seq(Chars) /\ Begins(A, W)
        BY <1>1
      <4>2. W \in Seq(Chars) /\ size \in Nat
        BY <1>1, <1>2
      <4> QED
        BY <1>4, <2>2, <4>1, <4>2, ReceiveIs
  <2> HIDE DEF t, r
  <2> QED
    BY <2>1, <2>3 DEF r
<1> HIDE DEF r, e, size
<1>6. r.pos = e + size + 1
  <2>1. Closes(m) => Len(A) <= e + size
    <3> SUFFICES ASSUME Closes(m) PROVE Len(A) <= e + size
      OBVIOUS
    <3>1. Len(G) = 0
      OBVIOUS
    <3>2. Len(A) <= Len(W)
      BY <1>1 DEF Begins
    <3> QED
      BY <1>2, <1>3, <3>1, <3>2
  <2>2. Len(A) \in Nat
    BY <1>1
  <2> QED
    BY <1>2, <1>5, <2>1, <2>2
<1>7. r.message.content = m.content
  <2>1. r.pos - 1 = e + size
    BY <1>2, <1>5, <1>6
  <2>2. At(W, e, m.content)
    BY <1>1, <1>2, <1>3
  <2>3. SubSeq(A, e + 1, e + Len(m.content)) = m.content
    <3>1. e + Len(m.content) <= Len(A) /\ e \in Nat
      BY <1>5 DEF size
    <3> QED
      BY <1>1, <1>2, <2>2, <3>1, PieceIs
  <2> QED
    BY <1>5, <2>1, <2>3 DEF size
<1>8. Same(r.message, m)
  BY <1>5, <1>7 DEF Same
<1> QED
  BY <1>2, <1>5, <1>6, <1>8 DEF r, v

\* Of a body without a length what is received is a beginning.
LEMMA BodyReceived ==
  ASSUME NEW m, NEW A, InFront(m, Wire(m), <<>>, A), ~ contain(m.context, <<"Content-Length">>),
         Returned(m, A).status = "ok"
  PROVE  IsPrefix(Returned(m, A).message.content, m.content)
<1> DEFINE r == Returned(m, A)
           e == Len(FirstLine(m)) + Len(Lines(m.context)) + 2
           s == m.content
           W == Wire(m)
           t == r.message.content
           N == Len(A)
<1>1. m \in Transmittable /\ Sendable(m) /\ Regular(m) /\ A \in Seq(Chars) /\ Begins(A, W)
  BY DEF InFront
<1>2. W \in Seq(Chars) /\ Len(W) = e + Len(s) /\ s \in Seq(Chars)
  BY <1>1, WireIs
<1>3. At(W, 0, W) /\ Len(W) \in Nat
  <2>1. W \in Seq(Chars)
    BY <1>2
  <2> HIDE DEF W
  <2> QED
    BY <2>1 DEF At
<1>4. At(W, e, s)
  <2>1. \A X \in Seq(Chars) : At(X, 0, W) => At(X, e, s)
    BY <1>1, WireIs
  <2> HIDE DEF W, e, s
  <2> QED
    BY <1>2, <1>3, <2>1
<1>5. SizesOf(Arriving(m.context)) = {0}
  BY <1>1, BodylessSize
<1> DEFINE size == 0
<1>6. e \in Nat /\ e + size <= N /\ t = SubSeq(A, e + 1, r.pos - 1)
      /\ (r.pos = e + size + 1 \/ r.pos = N + 1)
  <2> DEFINE first == ReadFirst(A, m.bound)
             u == ReceiveOf(A, m.bound, first, Header(A, first.pos))
  <2>1. r = u
    BY DEF Returned
  <2>2. size \in Nat /\ SizesOf(Arriving(m.context)) = {size}
    BY <1>5
  <2> HIDE DEF size
  <2>3. u.status = "ok" =>
          /\ e \in Nat /\ e + size <= N
          /\ u.message.content = SubSeq(A, e + 1, u.pos - 1)
          /\ \/ u.pos = e + size + 1
             \/ Closes(m) /\ N > e + size /\ u.pos = N + 1
    BY <1>1, <1>2, <1>3, <2>2, ReceiveIs
  <2> HIDE DEF u, r
  <2> QED
    BY <2>1, <2>3 DEF r
<1>7. N <= Len(W) /\ N \in Nat /\ \A i \in 1 .. N : A[i] = W[i]
  BY <1>1 DEF Begins
<1> HIDE DEF r, e, s, W, t, N
<1>8. \E n \in Nat : e + n <= N /\ t = SubSeq(A, e + 1, e + n)
  <2>1. r.pos - 1 = e \/ r.pos - 1 = N
    BY <1>6, <1>7
  <2>2. CASE r.pos - 1 = e
    <3>1. 0 \in Nat /\ e + 0 <= N /\ e + 0 = e
      BY <1>6, <1>7
    <3> QED
      BY <1>6, <2>2, <3>1
  <2>3. CASE r.pos - 1 = N
    <3> DEFINE n == N - e
    <3>1. n \in Nat /\ e + n <= N /\ e + n = N
      BY <1>6, <1>7
    <3> HIDE DEF n
    <3> QED
      BY <1>6, <2>3, <3>1
  <2> QED
    BY <2>1, <2>2, <2>3
<1>9. PICK n \in Nat : e + n <= N /\ t = SubSeq(A, e + 1, e + n)
  BY <1>8
<1>10. n <= Len(s) /\ Len(s) \in Nat
  BY <1>2, <1>6, <1>7, <1>9
<1>11. t \in Seq(Chars) /\ Len(t) = n /\ \A i \in 1 .. n : t[i] = A[e + i]
  <2> DEFINE a == e + 1
             b == e + n
  <2>1. a \in 1 .. N + 1 /\ b \in 0 .. N /\ b - a + 1 = n /\ \A i \in 1 .. n : a + i - 1 = e + i
    BY <1>6, <1>7, <1>9
  <2>2. t = SubSeq(A, a, b) /\ A \in Seq(Chars) /\ N = Len(A)
    BY <1>1, <1>9 DEF N
  <2> HIDE DEF a, b
  <2> DEFINE x == SubSeq(A, a, b)
  <2>3. x \in Seq(Chars) /\ Len(x) = b - a + 1 /\ \A i \in 1 .. Len(x) : x[i] = A[a + i - 1]
    <3>1. a \in 1 .. Len(A) + 1 /\ b \in 0 .. Len(A) /\ b - a + 1 \in Nat
      BY <1>10, <2>1, <2>2, <1>7, <1>9
    <3>2. A \in Seq(Chars)
      BY <2>2
    <3> QED
      BY <3>1, <3>2, SMTT(30)
  <2> HIDE DEF x
  <2>4. t = x
    BY <2>2 DEF x
  <2> QED
    BY <2>1, <2>3, <2>4
<1> DEFINE front == SubSeq(s, 1, n)
<1>12. front \in Seq(Chars) /\ Len(front) = n /\ \A i \in 1 .. n : front[i] = s[i]
  BY <1>2, <1>10
<1>13. SubSeq(t, 1, n) = t
  BY <1>11
<1> HIDE DEF front
<1>14. \A i \in 1 .. n : t[i] = front[i]
  <2> TAKE i \in 1 .. n
  <2>1. e + i \in 1 .. N /\ i \in 1 .. Len(s)
    BY <1>6, <1>7, <1>9, <1>10
  <2>2. W[e + i] = s[i]
    BY <1>4, <2>1 DEF At
  <2> QED
    BY <1>7, <1>11, <1>12, <2>1, <2>2
<1>15. t = front
  BY <1>11, <1>12, <1>14, EqualIs
<1> QED
  BY <1>10, <1>11, <1>13, <1>15 DEF IsPrefix, front, s, t, r

\* Of the messages s, all behind the first k stand in a row in `rest`: F[j] is
\* what is there behind message j.
RowOf(s, k, rest, F) ==
  /\ F \in [k .. Len(s) -> Seq(Chars)] /\ F[Len(s)] = <<>> /\ F[k] = rest
  /\ \A j \in k + 1 .. Len(s) : F[j - 1] = Wire(s[j]) \o F[j]

\* Transmittable that transmit() has written down, all in one direction.
Written(s) == /\ s \in Seq(Transmittable)
              /\ \A i \in 1 .. Len(s) : Sendable(s[i]) /\ s[i].bound = s[1].bound

HtType == /\ Written(htSent) /\ htFlight \in Seq(Chars)
          /\ \E S : htReceived \in Seq(S)
          /\ htOver \in BOOLEAN /\ htEnd \in {"open", "throw", "fault"}

\* While all messages that were received were whole, what has arrived and what is
\* on its way are the ones that are left, from the first byte of the next one.
AllWhole(k) == \A j \in 1 .. k : j <= Len(htSent) => Complete(j)
Aligned == AllWhole(Len(htReceived)) =>
             /\ Len(htReceived) <= Len(htSent)
             /\ htEnd = "open" =>
                  /\ htArrived \in Seq(Chars)
                  /\ \E F : RowOf(htSent, Len(htReceived), htArrived \o htFlight, F)

HtInv == HtType /\ Aligned /\ MessagesArrive

LEMMA CharsAssociate == \A a, b, c \in Seq(Chars) : (a \o b) \o c = a \o (b \o c)
  BY Associates

LEMMA RowGrows ==
  ASSUME NEW s, Written(s), NEW m \in Transmittable, Sendable(m), NEW k \in 0 .. Len(s),
         NEW A \in Seq(Chars), NEW B \in Seq(Chars), NEW F, RowOf(s, k, A \o B, F)
  PROVE  \E G : RowOf(Append(s, m), k, A \o (B \o Wire(m)), G)
<1> DEFINE n == Len(s)
           v == Wire(m)
           t == Append(s, m)
           none == <<>>
           G == [j \in k .. n + 1 |-> IF j = n + 1 THEN none ELSE F[j] \o v]
<1>1. s \in Seq(Transmittable) /\ n \in Nat /\ \A i \in 1 .. n : Sendable(s[i]) /\ s[i] \in Transmittable
  BY DEF Written
<1>2. Len(t) = n + 1 /\ t[n + 1] = m /\ \A i \in 1 .. n : t[i] = s[i]
  BY <1>1
<1>3. v \in Seq(Chars) /\ \A i \in 1 .. n : Wire(s[i]) \in Seq(Chars)
  BY <1>1, WireIs
<1>4. /\ F \in [k .. n -> Seq(Chars)] /\ F[n] = none /\ F[k] = A \o B
      /\ \A j \in k + 1 .. n : F[j - 1] = Wire(s[j]) \o F[j]
  BY DEF RowOf
<1> HIDE DEF v, t, none, n
<1>5. none \in Seq(Chars) /\ none \o v = v /\ v \o none = v
  BY <1>3 DEF none
<1>6. k \in Nat /\ k <= n
  BY DEF n
<1>7. G \in [k .. n + 1 -> Seq(Chars)]
  <2> SUFFICES ASSUME NEW j \in k .. n + 1, j # n + 1 PROVE F[j] \o v \in Seq(Chars)
    BY <1>5
  <2>1. j \in k .. n
    BY <1>1, <1>6
  <2>2. F[j] \in Seq(Chars)
    BY <1>4, <2>1
  <2> QED
    BY <1>3, <2>2
<1>8. G[n + 1] = none /\ \A j \in k .. n : G[j] = F[j] \o v
  BY <1>1, <1>6
<1> HIDE DEF G
<1>9. G[k] = A \o (B \o v)
  <2>1. k \in k .. n
    BY <1>1, <1>6
  <2>2. G[k] = (A \o B) \o v
    BY <1>4, <1>8, <2>1
  <2> QED
    BY <1>3, <2>2, Associates, SMTT(30)
<1>10. \A j \in k + 1 .. n + 1 : G[j - 1] = Wire(t[j]) \o G[j]
  <2> TAKE j \in k + 1 .. n + 1
  <2> DEFINE h == j - 1
  <2>1. h \in k .. n
    BY <1>1, <1>6
  <2>2. G[h] = F[h] \o v
    BY <1>8, <2>1
  <2>3. CASE j = n + 1
    <3>1. h = n
      BY <1>1, <2>3
    <3>2. G[h] = v
      BY <1>4, <1>5, <2>2, <3>1
    <3>3. Wire(t[j]) = v /\ G[j] = none
      BY <1>2, <1>8, <2>3 DEF v
    <3> QED
      BY <1>5, <3>2, <3>3
  <2>4. CASE j # n + 1
    <3>1. j \in 1 .. n /\ j \in k .. n /\ j \in k + 1 .. n
      BY <1>1, <1>6, <2>4
    <3>2. F[h] = Wire(s[j]) \o F[j] /\ t[j] = s[j]
      BY <1>2, <1>4, <3>1
    <3> DEFINE w == Wire(s[j])
               x == F[j]
    <3>3. w \in Seq(Chars) /\ x \in Seq(Chars)
      BY <1>3, <1>4, <3>1
    <3>4. G[j] = x \o v /\ G[h] = (w \o x) \o v
      BY <1>8, <2>2, <3>1, <3>2
    <3>5. Wire(t[j]) = w
      BY <3>2
    <3> HIDE DEF w, x, h
    <3>6. (w \o x) \o v = w \o (x \o v)
      BY <1>3, <3>3, CharsAssociate, SMTT(30)
    <3> QED
      BY <3>4, <3>5, <3>6 DEF h
  <2> QED
    BY <2>3, <2>4
<1>11. RowOf(t, k, A \o (B \o v), G)
  BY <1>2, <1>7, <1>8, <1>9, <1>10 DEF RowOf, none
<1> QED
  BY <1>11 DEF t, v

\* The next message of a row.
LEMMA RowNext ==
  ASSUME NEW s, Written(s), NEW k \in 0 .. Len(s) - 1,
         NEW A \in Seq(Chars), NEW B \in Seq(Chars), NEW F, RowOf(s, k, A \o B, F)
  PROVE  LET m == s[k + 1]
         IN /\ m \in Transmittable /\ Sendable(m) /\ m.bound = s[1].bound
            /\ F[k + 1] \in Seq(Chars) /\ A \o B = Wire(m) \o F[k + 1]
            /\ (k + 1 = Len(s) => F[k + 1] = <<>>)
            /\ Regular(m) => InFront(m, A \o B, F[k + 1], A)
            /\ Len(Wire(m)) <= Len(A) =>
                 \E G : RowOf(s, k + 1, SubSeq(A, Len(Wire(m)) + 1, Len(A)) \o B, G)
<1> DEFINE n == Len(s)
           h == k + 1
           m == s[h]
           v == Wire(m)
           rest == A \o B
           w == F[h]
<1>1. s \in Seq(Transmittable) /\ \A i \in 1 .. n : Sendable(s[i]) /\ s[i].bound = s[1].bound
  BY DEF Written
<1>2. n \in Nat /\ k \in Nat /\ h \in 1 .. n /\ h \in k .. n /\ h \in k + 1 .. n /\ h - 1 = k
  BY <1>1
<1>3. m \in Transmittable /\ Sendable(m) /\ m.bound = s[1].bound
  BY <1>1, <1>2
<1>4. /\ F \in [k .. n -> Seq(Chars)] /\ F[n] = <<>> /\ F[k] = rest
      /\ \A j \in k + 1 .. n : F[j - 1] = Wire(s[j]) \o F[j]
  BY DEF RowOf
<1> HIDE DEF rest
<1>5. w \in Seq(Chars) /\ rest = v \o w /\ (h = n => w = <<>>)
  BY <1>2, <1>4
<1> HIDE DEF h, w
<1>6. v \in Seq(Chars)
  BY <1>3, WireIs
<1>7. rest \in Seq(Chars) /\ Begins(A, rest)
  <2>1. LET x == A \o B
        IN /\ x \in Seq(Chars) /\ Len(x) = Len(A) + Len(B) /\ Len(A) \in Nat /\ Len(B) \in Nat
           /\ \A i \in 1 .. Len(A) : x[i] = A[i]
    BY TwoParts
  <2>2. /\ rest \in Seq(Chars) /\ Len(rest) = Len(A) + Len(B) /\ Len(A) \in Nat /\ Len(B) \in Nat
        /\ \A i \in 1 .. Len(A) : rest[i] = A[i]
    BY <2>1 DEF rest
  <2> QED
    BY <2>2 DEF Begins
<1>8. Regular(m) => InFront(m, rest, w, A)
  BY <1>3, <1>5, <1>7 DEF InFront
<1>9. ASSUME Len(v) <= Len(A)
      PROVE  \E G : RowOf(s, h, SubSeq(A, Len(v) + 1, Len(A)) \o B, G)
  <2> DEFINE left == SubSeq(A, Len(v) + 1, Len(A)) \o B
             G == [j \in h .. n |-> F[j]]
  <2>1. left = w
    <3>1. A \o B = v \o w
      BY <1>5 DEF rest
    <3> HIDE DEF v
    <3> QED
      <4>1. v \in Seq(Chars) /\ w \in Seq(Chars) /\ Len(v) <= Len(A)
        BY <1>5, <1>6, <1>9
      <4> QED
        BY <3>1, <4>1, LeftIs, ZenonT(30)
  <2> HIDE DEF left
  <2>2. \A j \in h .. n : j \in k .. n
    BY <1>2
  <2>3. G \in [h .. n -> Seq(Chars)] /\ \A j \in h .. n : G[j] = F[j]
    BY <1>4, <2>2
  <2>4. n \in h .. n /\ h \in h .. n
    BY <1>2
  <2> HIDE DEF G
  <2>5. \A j \in h + 1 .. n : j \in h .. n /\ j - 1 \in h .. n /\ j \in k + 1 .. n
    BY <1>2
  <2>6. \A j \in h + 1 .. n : G[j - 1] = Wire(s[j]) \o G[j]
    <3> TAKE j \in h + 1 .. n
    <3>1. F[j - 1] = Wire(s[j]) \o F[j]
      BY <1>4, <2>5
    <3> QED
      BY <2>3, <2>5, <3>1
  <2>7. RowOf(s, h, left, G)
    BY <1>4, <2>1, <2>3, <2>4, <2>6 DEF RowOf, w
  <2> QED
    BY <2>7 DEF left
<1> QED
  BY <1>3, <1>5, <1>8, <1>9 DEF h, w, rest

LEMMA HttpInitially == HtInit => HtInv
<1> SUFFICES ASSUME HtInit PROVE HtInv
  OBVIOUS
<1>1. /\ htSent = <<>> /\ htFlight = <<>> /\ htArrived = <<>> /\ htReceived = <<>>
      /\ htOver = FALSE /\ htEnd = "open"
  BY DEF HtInit
<1>2. HtType
  <2>1. Written(htSent)
    BY <1>1 DEF Written
  <2>2. \E S : htReceived \in Seq(S)
    <3>1. htReceived \in Seq({})
      BY <1>1
    <3> QED
      BY <3>1
  <2>3. htFlight \in Seq(Chars)
    BY <1>1
  <2> QED
    BY <1>1, <2>1, <2>2, <2>3 DEF HtType
<1>3. Aligned
  <2> DEFINE none == <<>>
             F == [j \in 0 .. 0 |-> none]
  <2>1. none \in Seq(Chars) /\ Len(none) = 0 /\ none \o none = none
    OBVIOUS
  <2>2. F \in [0 .. 0 -> Seq(Chars)] /\ F[0] = none
    BY <2>1
  <2> HIDE DEF F
  <2>3. \A j \in 0 + 1 .. 0 : F[j - 1] = Wire(none[j]) \o F[j]
    OBVIOUS
  <2> HIDE DEF none
  <2>4. RowOf(none, 0, none, F)
    BY <2>1, <2>2, <2>3 DEF RowOf, none
  <2>5. htSent = none /\ htReceived = none /\ htArrived \in Seq(Chars) /\ htArrived \o htFlight = none
    BY <1>1, <2>1 DEF none
  <2> QED
    BY <2>1, <2>4, <2>5 DEF Aligned
<1>4. MessagesArrive
  BY <1>1 DEF MessagesArrive, FramedArrive, BodyIsPrefix
<1> QED
  BY <1>2, <1>3, <1>4 DEF HtInv

\* transmit(): the messages in front stay as they are; only the last may turn out
\* not to have ended where it closed.
LEMMA StillWhole ==
  ASSUME HtType, NEW m \in Transmittable, htSent' = Append(htSent, m), NEW j \in 1 .. Len(htSent), Complete(j)'
  PROVE  Complete(j) /\ htSent'[j] = htSent[j]
<1>1. htSent \in Seq(Transmittable) /\ Len(htSent) \in Nat
  BY DEF HtType, Written
<1>2. htSent'[j] = htSent[j] /\ Len(htSent') = Len(htSent) + 1
  BY <1>1
<1>3. Framed(htSent[j]) /\ Regular(htSent[j]) /\ ~ Closes(htSent[j])
  <2>1. Framed(htSent'[j]) /\ Regular(htSent'[j]) /\ (j < Len(htSent') => ~ Closes(htSent'[j]))
    BY DEF Complete
  <2>2. j < Len(htSent')
    BY <1>1, <1>2
  <2> QED
    BY <1>2, <2>1, <2>2
<1> QED
  BY <1>2, <1>3 DEF Complete

LEMMA Transmitted ==
  ASSUME HtInv, NEW m \in Transmittable, Sendable(m), \A i \in DOMAIN htSent : htSent[i].bound = m.bound,
         htSent' = Append(htSent, m), htFlight' = htFlight \o Wire(m),
         UNCHANGED <<htArrived, htOver, htReceived, htEnd>>
  PROVE  HtInv'
<1> DEFINE n == Len(htSent)
           k == Len(htReceived)
<1>1. /\ Written(htSent) /\ htFlight \in Seq(Chars)
      /\ htOver \in BOOLEAN /\ htEnd \in {"open", "throw", "fault"} /\ HtType
  BY DEF HtInv, HtType
<1>2. PICK S : htReceived \in Seq(S)
  BY DEF HtInv, HtType
<1>3. htSent \in Seq(Transmittable) /\ n \in Nat /\ k \in Nat /\ \A i \in 1 .. n : Sendable(htSent[i])
  BY <1>1, <1>2 DEF Written
<1>4. /\ htSent' \in Seq(Transmittable) /\ Len(htSent') = n + 1 /\ htSent'[n + 1] = m
      /\ \A i \in 1 .. n : htSent'[i] = htSent[i] /\ htSent[i].bound = m.bound
  <2>1. DOMAIN htSent = 1 .. n
    BY <1>3
  <2> QED
    BY <1>3, <2>1
<1>5. Wire(m) \in Seq(Chars)
  BY WireIs
<1>6. \A j \in 1 .. n : Complete(j)' => Complete(j)
  BY <1>1, StillWhole
<1>7. AllWhole(k)' => AllWhole(k) /\ k <= n
  <2> SUFFICES ASSUME AllWhole(k)' PROVE AllWhole(k) /\ k <= n
    OBVIOUS
  <2>1. \A j \in 1 .. k : j <= n => Complete(j)
    <3> TAKE j \in 1 .. k
    <3>1. j <= Len(htSent') => Complete(j)'
      BY DEF AllWhole
    <3> QED
      BY <1>3, <1>4, <1>6, <3>1
  <2>2. AllWhole(k)
    BY <2>1 DEF AllWhole
  <2> QED
    BY <2>2 DEF HtInv, Aligned
<1>8. HtType'
  <2>1. Written(htSent)'
    <3> SUFFICES ASSUME NEW i \in 1 .. n + 1
                 PROVE  Sendable(htSent'[i]) /\ htSent'[i].bound = htSent'[1].bound
      BY <1>4 DEF Written
    <3>1. i = n + 1 \/ i \in 1 .. n
      BY <1>3
    <3>2. htSent'[1].bound = m.bound
      <4>1. 1 = n + 1 \/ 1 \in 1 .. n
        BY <1>3
      <4> QED
        BY <1>4, <4>1
    <3> QED
      BY <1>3, <1>4, <3>1, <3>2
  <2>2. htFlight' \in Seq(Chars)
    BY <1>1, <1>5
  <2> QED
    BY <1>1, <1>2, <2>1, <2>2 DEF HtType
<1>9. Aligned'
  <2> SUFFICES ASSUME AllWhole(k)'
               PROVE  k <= Len(htSent') /\ (htEnd = "open" => /\ htArrived \in Seq(Chars)
                        /\ \E F : RowOf(htSent', k, htArrived \o htFlight', F))
    BY DEF Aligned
  <2>1. k <= n + 1 /\ k \in 0 .. n
    BY <1>3, <1>7
  <2>2. ASSUME htEnd = "open"
        PROVE  htArrived \in Seq(Chars) /\ \E F : RowOf(htSent', k, htArrived \o htFlight', F)
    <3>1. htArrived \in Seq(Chars) /\ \E F : RowOf(htSent, k, htArrived \o htFlight, F)
      BY <1>7, <2>2 DEF HtInv, Aligned
    <3>2. PICK F : RowOf(htSent, k, htArrived \o htFlight, F)
      BY <3>1
    <3> HIDE DEF k
    <3>3. \E G : RowOf(Append(htSent, m), k, htArrived \o (htFlight \o Wire(m)), G)
      BY <1>1, <2>1, <3>1, <3>2, RowGrows
    <3> QED
      BY <3>1, <3>3
  <2> QED
    BY <1>4, <2>1, <2>2
<1>10. FramedArrive'
  <2> SUFFICES ASSUME NEW i \in DOMAIN htReceived, i <= Len(htSent'), \A j \in 1 .. i : Complete(j)'
               PROVE  Same(htReceived[i], htSent'[i])
    BY DEF FramedArrive
  <2>1. i \in 1 .. k
    BY <1>2
  <2>2. i <= n
    <3> SUFFICES ASSUME i = n + 1 PROVE FALSE
      BY <1>3, <1>4, <2>1
    <3>1. AllWhole(k)'
      <4> SUFFICES ASSUME NEW j \in 1 .. k, j <= Len(htSent') PROVE Complete(j)'
        BY DEF AllWhole
      <4>1. j \in 1 .. i
        BY <1>3, <1>4
      <4> QED
        BY <4>1
    <3> QED
      BY <1>3, <1>7, <2>1, <3>1
  <2>3. \A j \in 1 .. i : Complete(j)
    <3> TAKE j \in 1 .. i
    <3>1. j \in 1 .. n
      BY <1>3, <2>1, <2>2
    <3> QED
      BY <1>6, <3>1
  <2>4. Same(htReceived[i], htSent[i])
    BY <2>2, <2>3 DEF HtInv, MessagesArrive, FramedArrive
  <2> QED
    BY <1>3, <1>4, <2>1, <2>2, <2>4
<1>11. BodyIsPrefix'
  <2> SUFFICES ASSUME k = Len(htSent'), \A j \in 1 .. k - 1 : Complete(j)' PROVE FALSE
    BY DEF BodyIsPrefix
  <2>1. k = n + 1
    BY <1>4
  <2>2. AllWhole(k)
    <3> SUFFICES ASSUME NEW j \in 1 .. k, j <= n PROVE Complete(j)
      BY DEF AllWhole
    <3>1. j \in 1 .. k - 1 /\ j \in 1 .. n
      BY <1>3, <2>1
    <3> QED
      BY <1>6, <3>1
  <2>3. k <= n
    BY <2>2 DEF HtInv, Aligned
  <2> QED
    BY <1>3, <2>1, <2>3
<1> QED
  BY <1>8, <1>9, <1>10, <1>11 DEF HtInv, MessagesArrive

\* What leaves the messages sent and received alone.
LEMMA MessagesKept ==
  ASSUME MessagesArrive, UNCHANGED <<htSent, htReceived>>
  PROVE  MessagesArrive' /\ (AllWhole(Len(htReceived))' <=> AllWhole(Len(htReceived)))
<1>1. \A j : Complete(j)' <=> Complete(j)
  BY DEF Complete
<1>2. FramedArrive'
  BY <1>1 DEF MessagesArrive, FramedArrive
<1>3. BodyIsPrefix'
  BY <1>1 DEF MessagesArrive, BodyIsPrefix
<1>4. AllWhole(Len(htReceived))' <=> AllWhole(Len(htReceived))
  BY <1>1 DEF AllWhole
<1> QED
  BY <1>2, <1>3, <1>4 DEF MessagesArrive

\* The connection ends, and nothing is received of it any more.
LEMMA ConnectionEnds ==
  ASSUME HtInv, UNCHANGED <<htSent, htReceived, htOver>>, htFlight' \in Seq(Chars), htEnd' \in {"throw", "fault"}
  PROVE  HtInv'
<1>1. HtType'
  BY DEF HtInv, HtType
<1>2. MessagesArrive' /\ (AllWhole(Len(htReceived))' <=> AllWhole(Len(htReceived)))
  BY MessagesKept DEF HtInv
<1>3. Aligned'
  BY <1>2 DEF HtInv, Aligned
<1> QED
  BY <1>1, <1>2, <1>3 DEF HtInv

LEMMA TransmitArrives ==
  ASSUME HtInv, NEW m \in Transmittable, Transmit(m)
  PROVE  HtInv'
<1>1. /\ \A i \in DOMAIN htSent : htSent[i].bound = m.bound
      /\ UNCHANGED <<htArrived, htOver, htReceived>>
  BY DEF Transmit
<1>2. htFlight \in Seq(Chars)
  BY DEF HtInv, HtType
<1>3. CASE htEnd' = "throw" /\ UNCHANGED <<htSent, htFlight>>
  BY <1>1, <1>2, <1>3, ConnectionEnds
<1>4. CASE htEnd' = "throw" /\ htFlight' = htFlight \o StatusWords(m) /\ UNCHANGED htSent
  <2> DEFINE t == StatusWords(m)
  <2>1. t \in Seq(Chars)
    BY StatusWordsAre
  <2> HIDE DEF t
  <2>2. htFlight \o t \in Seq(Chars)
    BY <1>2, <2>1
  <2>3. htFlight' \in Seq(Chars)
    BY <1>4, <2>2 DEF t
  <2> QED
    BY <1>1, <1>4, <2>3, ConnectionEnds
<1>5. CASE /\ Sendable(m) /\ htSent' = Append(htSent, m) /\ htFlight' = htFlight \o Wire(m)
           /\ UNCHANGED htEnd
  BY <1>1, <1>5, Transmitted
<1>6. \/ htEnd' = "throw" /\ UNCHANGED <<htSent, htFlight>>
      \/ htEnd' = "throw" /\ htFlight' = htFlight \o StatusWords(m) /\ UNCHANGED htSent
      \/ /\ Sendable(m) /\ htSent' = Append(htSent, m) /\ htFlight' = htFlight \o Wire(m)
         /\ UNCHANGED htEnd
  <2> DEFINE unknown == m.bound = "client" /\ m.method \notin DOMAIN METHODS
             unheard == m.bound = "server" /\ ~KnownStatus(m.status)
             words == StatusWords(m)
             wire == Wire(m)
  <2>1. IF unknown THEN htEnd' = "throw" /\ UNCHANGED <<htSent, htFlight>>
        ELSE IF unheard THEN htEnd' = "throw" /\ htFlight' = htFlight \o words /\ UNCHANGED htSent
        ELSE htSent' = Append(htSent, m) /\ htFlight' = htFlight \o wire /\ UNCHANGED htEnd
    BY DEF Transmit
  <2>2. ~ unknown /\ ~ unheard => Sendable(m)
    BY DEF Sendable
  <2> HIDE DEF unknown, unheard, words, wire
  <2>3. \/ htEnd' = "throw" /\ UNCHANGED <<htSent, htFlight>>
        \/ htEnd' = "throw" /\ htFlight' = htFlight \o words /\ UNCHANGED htSent
        \/ /\ Sendable(m) /\ htSent' = Append(htSent, m) /\ htFlight' = htFlight \o wire
           /\ UNCHANGED htEnd
    BY <2>1, <2>2
  <2> QED
    BY <2>3 DEF words, wire
<1> QED
  BY <1>3, <1>4, <1>5, <1>6

LEMMA CloseArrives ==
  ASSUME HtInv, CloseEnd
  PROVE  HtInv'
<1>1. htOver' = TRUE /\ UNCHANGED <<htSent, htFlight, htArrived, htReceived, htEnd>>
  BY DEF CloseEnd
<1>2. HtType'
  BY <1>1 DEF HtInv, HtType
<1>3. MessagesArrive' /\ (AllWhole(Len(htReceived))' <=> AllWhole(Len(htReceived)))
  BY <1>1, MessagesKept DEF HtInv
<1>4. Aligned'
  BY <1>1, <1>3 DEF HtInv, Aligned
<1> QED
  BY <1>2, <1>3, <1>4 DEF HtInv

LEMMA DeliverArrives ==
  ASSUME HtInv, NEW n \in 1 .. Len(htFlight), Deliver(n)
  PROVE  HtInv'
<1> DEFINE a == SubSeq(htFlight, 1, n)
           b == SubSeq(htFlight, n + 1, Len(htFlight))
<1>1. /\ htArrived' = htArrived \o a /\ htFlight' = b
      /\ UNCHANGED <<htSent, htOver, htReceived, htEnd>>
  BY DEF Deliver
<1>2. htFlight \in Seq(Chars)
  BY DEF HtInv, HtType
<1>3. a \in Seq(Chars) /\ b \in Seq(Chars) /\ a \o b = htFlight
  <2>1. n \in 0 .. Len(htFlight)
    BY <1>2
  <2> QED
    BY <1>2, <2>1, RestJoins
<1> HIDE DEF a, b
<1>4. htFlight' \in Seq(Chars)
  BY <1>1, <1>3
<1>5. ASSUME htArrived \in Seq(Chars)
      PROVE  htArrived' \in Seq(Chars) /\ htArrived' \o htFlight' = htArrived \o htFlight
  <2>1. (htArrived \o a) \o b = htArrived \o (a \o b)
    BY <1>3, <1>5, CharsAssociate
  <2>2. htArrived \o a \in Seq(Chars)
    BY <1>3, <1>5
  <2> QED
    BY <1>1, <1>3, <2>1, <2>2
<1>6. HtType'
  BY <1>1, <1>4 DEF HtInv, HtType
<1>7. MessagesArrive' /\ (AllWhole(Len(htReceived))' <=> AllWhole(Len(htReceived)))
  BY <1>1, MessagesKept DEF HtInv
<1>8. Aligned'
  <2>1. Aligned
    BY DEF HtInv
  <2> QED
    BY <1>1, <1>5, <1>7, <2>1 DEF Aligned
<1> QED
  BY <1>6, <1>7, <1>8 DEF HtInv

\* receive() returns the next message.
LEMMA ReceivedNext ==
  ASSUME HtInv, htEnd = "open", htSent # <<>>,
         NEW r, r = Returned([bound |-> htSent[1].bound], htArrived), r.status = "ok",
         htReceived' = Append(htReceived, r.message),
         htArrived' = SubSeq(htArrived, r.pos, Len(htArrived)),
         UNCHANGED <<htSent, htFlight, htOver, htEnd>>
  PROVE  HtInv'
<1> DEFINE n == Len(htSent)
           k == Len(htReceived)
           h == k + 1
           A == htArrived
           B == htFlight
<1>1. /\ Written(htSent) /\ B \in Seq(Chars)
      /\ htOver \in BOOLEAN /\ htEnd \in {"open", "throw", "fault"}
  BY DEF HtInv, HtType
<1>2. PICK S : htReceived \in Seq(S)
  BY DEF HtInv, HtType
<1>3. n \in Nat /\ k \in Nat /\ h \in Nat /\ Len(htReceived') = h /\ htReceived'[h] = r.message
      /\ \A i \in 1 .. k : htReceived'[i] = htReceived[i]
  <2>1. htReceived \in Seq(S \cup {r.message})
    BY <1>2
  <2> QED
    BY <1>1, <2>1 DEF Written
<1>4. \A j : Complete(j)' <=> Complete(j)
  BY DEF Complete
<1>5. ASSUME AllWhole(k)
      PROVE  /\ k <= n - 1 /\ h <= n /\ A \in Seq(Chars)
             /\ \E F : RowOf(htSent, k, A \o B, F)
  <2>1. k <= n /\ A \in Seq(Chars) /\ \E F : RowOf(htSent, k, A \o B, F)
    BY <1>5 DEF HtInv, Aligned
  <2>2. k # n
    <3> SUFFICES ASSUME k = n PROVE FALSE
      OBVIOUS
    <3>1. PICK F : RowOf(htSent, k, A \o B, F)
      BY <2>1
    <3>2. A \o B = <<>>
      BY <3>1 DEF RowOf
    <3>3. A = <<>>
      BY <1>1, <2>1, <3>2
    <3> DEFINE bound == htSent[1].bound
               m == [bound |-> bound]
    <3>4. bound \in {"client", "server"}
      <4>1. htSent[1] \in Transmittable
        BY <1>1 DEF Written
      <4> QED
        BY <4>1, MessageIs
    <3>5. r.status # "ok"
      <4>1. m.bound = bound
        OBVIOUS
      <4> HIDE DEF bound, m
      <4>2. r = Returned(m, A)
        BY DEF m, bound
      <4> DEFINE first == ReadFirst(A, bound)
                 head == Header(A, first.pos)
      <4>3. r = ReceiveOf(A, bound, ReadFirst(A, bound), head)
        BY <4>1, <4>2 DEF Returned
      <4> HIDE DEF first, head
      <4>4. ReceiveOf(A, bound, ReadFirst(A, bound), head).status # "ok"
        BY <3>3, <3>4, ReceiveEnds
      <4> QED
        BY <4>3, <4>4
    <3> QED
      BY <3>5
  <2> QED
    BY <1>3, <2>1, <2>2
\* Message h is the one that was received.
<1>6. ASSUME AllWhole(k)
      PROVE  LET m == htSent[h]
             IN /\ m \in Transmittable /\ Sendable(m) /\ r = Returned(m, A)
                /\ Regular(m) /\ h = n => InFront(m, Wire(m), <<>>, A)
                /\ Complete(h) => /\ Same(r.message, m)
                                  /\ htArrived' \in Seq(Chars)
                                  /\ \E G : RowOf(htSent, h, htArrived' \o B, G)
  <2> DEFINE m == htSent[h]
  <2>1. k \in 0 .. n - 1 /\ h <= n /\ A \in Seq(Chars)
    BY <1>3, <1>5, <1>6
  <2>2. PICK F : RowOf(htSent, k, A \o B, F)
    BY <1>5, <1>6
  <2> DEFINE v == Wire(m)
             w == F[h]
  <2>3. /\ m \in Transmittable /\ Sendable(m) /\ m.bound = htSent[1].bound
        /\ w \in Seq(Chars) /\ A \o B = v \o w /\ (h = n => w = <<>>)
        /\ Regular(m) => InFront(m, A \o B, w, A)
        /\ Len(v) <= Len(A) => \E G : RowOf(htSent, h, SubSeq(A, Len(v) + 1, Len(A)) \o B, G)
    <3>1. LET q == htSent[k + 1]
          IN /\ q \in Transmittable /\ Sendable(q) /\ q.bound = htSent[1].bound
             /\ F[k + 1] \in Seq(Chars) /\ A \o B = Wire(q) \o F[k + 1]
             /\ (k + 1 = Len(htSent) => F[k + 1] = <<>>)
             /\ Regular(q) => InFront(q, A \o B, F[k + 1], A)
             /\ Len(Wire(q)) <= Len(A) =>
                  \E G : RowOf(htSent, k + 1, SubSeq(A, Len(Wire(q)) + 1, Len(A)) \o B, G)
      <4>1. Written(htSent) /\ B \in Seq(Chars)
        BY <1>1
      <4> HIDE DEF k
      <4> QED
        BY <2>1, <2>2, <4>1, RowNext
    <3> QED
      BY <3>1
  <2>4. r = Returned(m, A)
    <3> DEFINE b == [bound |-> htSent[1].bound]
    <3>1. b.bound = m.bound
      BY <2>3
    <3>2. r = Returned(b, A)
      OBVIOUS
    <3> HIDE DEF b, m
    <3> QED
      BY <3>1, <3>2 DEF Returned
  <2> HIDE DEF m
  <2>5. v \in Seq(Chars)
    BY <2>3, WireIs
  <2> HIDE DEF v, w
  <2>6. Regular(m) /\ h = n => InFront(m, Wire(m), <<>>, A)
    <3> SUFFICES ASSUME Regular(m), h = n PROVE InFront(m, Wire(m), <<>>, A)
      OBVIOUS
    <3>1. w = <<>> /\ A \o B = v
      BY <2>3, <2>5
    <3>2. InFront(m, A \o B, w, A)
      BY <2>3
    <3>3. A \o B = v \o w
      BY <2>3
    <3> QED
      BY <3>1, <3>2 DEF v
  <2>7. ASSUME Complete(h)
        PROVE  /\ Same(r.message, m) /\ htArrived' \in Seq(Chars)
               /\ \E G : RowOf(htSent, h, htArrived' \o B, G)
    <3>1. Framed(m) /\ Regular(m) /\ (Closes(m) => h = n)
      <4>1. Framed(m) /\ Regular(m) /\ (h < n => ~ Closes(m))
        BY <2>7 DEF Complete, m
      <4> QED
        BY <1>3, <2>1, <4>1
    <3>2. Closes(m) => w = <<>>
      BY <2>3, <3>1
    <3>3. InFront(m, A \o B, w, A)
      BY <2>3, <3>1
    <3>4. Same(r.message, m) /\ r.pos = Len(v) + 1 /\ Len(v) <= Len(A)
      <4>1. Returned(m, A).status = "ok"
        BY <2>4
      <4>2. Same(Returned(m, A).message, m) /\ Returned(m, A).pos = Len(Wire(m)) + 1 /\ Len(Wire(m)) <= Len(A)
        BY <3>1, <3>2, <3>3, <4>1, FramedReceived
      <4> QED
        BY <2>4, <4>2 DEF v
    <3>5. htArrived' = SubSeq(A, Len(v) + 1, Len(A))
      BY <3>4
    <3>6. SubSeq(A, Len(v) + 1, Len(A)) \in Seq(Chars)
      BY <2>1, <2>5
    <3> QED
      BY <2>3, <3>4, <3>5, <3>6
  <2> QED
    BY <2>3, <2>4, <2>6, <2>7 DEF m
<1>7. HtType'
  <2>1. htReceived' \in Seq(S \cup {r.message})
    BY <1>2
  <2>2. \E T : htReceived' \in Seq(T)
    BY <2>1
  <2> QED
    BY <1>1, <2>2 DEF HtType
<1>8. ASSUME AllWhole(Len(htReceived))' PROVE AllWhole(k) /\ (h <= n => Complete(h))
  <2>1. \A j \in 1 .. h : j <= n => Complete(j)
    BY <1>3, <1>4, <1>8 DEF AllWhole
  <2>2. \A j \in 1 .. k : j \in 1 .. h
    BY <1>3
  <2>3. h \in 1 .. h
    BY <1>3
  <2> QED
    BY <2>1, <2>2, <2>3 DEF AllWhole
<1>9. Aligned'
  <2> SUFFICES ASSUME AllWhole(Len(htReceived))'
               PROVE  h <= n /\ htArrived' \in Seq(Chars) /\ \E G : RowOf(htSent, h, htArrived' \o B, G)
    BY <1>3 DEF Aligned
  <2> QED
    BY <1>5, <1>6, <1>8
<1>10. FramedArrive'
  <2> SUFFICES ASSUME NEW i \in DOMAIN htReceived', i <= n, \A j \in 1 .. i : Complete(j)
               PROVE  Same(htReceived'[i], htSent[i])
    BY <1>4 DEF FramedArrive
  <2>1. i \in 1 .. h
    <3>1. htReceived' \in Seq(S \cup {r.message})
      BY <1>2
    <3> QED
      BY <1>3, <3>1
  <2>2. CASE i = h
    <3>1. AllWhole(k)
      <4> SUFFICES ASSUME NEW j \in 1 .. k PROVE Complete(j)
        BY DEF AllWhole
      <4>1. j \in 1 .. i
        BY <1>3, <2>2
      <4> QED
        BY <4>1
    <3>2. i \in 1 .. i
      BY <2>1
    <3>3. Complete(h)
      BY <2>2, <3>2
    <3> QED
      BY <1>3, <1>6, <2>2, <3>1, <3>3
  <2>3. CASE i # h
    <3>1. i \in 1 .. k
      BY <1>3, <2>1, <2>3
    <3>2. i \in DOMAIN htReceived
      BY <1>2, <3>1
    <3>3. Same(htReceived[i], htSent[i])
      BY <3>2 DEF HtInv, MessagesArrive, FramedArrive
    <3> QED
      BY <1>3, <3>1, <3>3
  <2> QED
    BY <2>2, <2>3
<1>11. BodyIsPrefix'
  <2> DEFINE m == htSent[h]
             label == <<"Content-Length">>
  <2> SUFFICES ASSUME h = n, \A j \in 1 .. h - 1 : Complete(j), Regular(m), ~ contain(m.context, label)
               PROVE  IsPrefix(htReceived'[h].content, m.content)
    BY <1>3, <1>4 DEF BodyIsPrefix
  <2>1. AllWhole(k)
    <3>1. \A j \in 1 .. k : j \in 1 .. h - 1
      BY <1>3
    <3> QED
      BY <3>1 DEF AllWhole
  <2>2. InFront(m, Wire(m), <<>>, A) /\ r = Returned(m, A)
    BY <1>6, <2>1
  <2>3. IsPrefix(Returned(m, A).message.content, m.content)
    <3>1. Returned(m, A).status = "ok"
      BY <2>2
    <3> HIDE DEF m
    <3> QED
      BY <2>2, <3>1, BodyReceived
  <2>4. htReceived'[h] = Returned(m, A).message
    BY <1>3, <2>2
  <2> HIDE DEF m
  <2> QED
    BY <2>3, <2>4
<1> QED
  BY <1>7, <1>9, <1>10, <1>11 DEF HtInv, MessagesArrive

LEMMA ReceiveArrives ==
  ASSUME HtInv, Receive
  PROVE  HtInv'
<1> DEFINE bound == htSent[1].bound
           m == [bound |-> bound]
           r == Returned(m, htArrived)
           over == r.status = "wait" /\ htOver /\ htFlight = <<>>
<1>1. /\ htEnd = "open" /\ htSent # <<>> /\ (r.status # "wait" \/ over)
      /\ htEnd' = IF over THEN "throw" ELSE IF r.status = "ok" THEN "open" ELSE r.status
      /\ htReceived' = IF r.status = "ok" THEN Append(htReceived, r.message) ELSE htReceived
      /\ htArrived' = IF r.status = "ok" THEN SubSeq(htArrived, r.pos, Len(htArrived)) ELSE <<>>
      /\ UNCHANGED <<htSent, htFlight, htOver>>
  <2>1. m.bound = bound
    OBVIOUS
  <2> HIDE DEF m
  <2> QED
    BY <2>1 DEF Receive, Returned
<1>2. htSent[1] \in Transmittable /\ htFlight \in Seq(Chars)
  BY <1>1 DEF HtInv, HtType, Written
<1>3. r.status \in {"ok", "wait", "throw", "fault"}
  <2>1. bound \in {"client", "server"} /\ m.bound = bound
    BY <1>2, MessageIs
  <2> HIDE DEF bound, m
  <2> QED
    BY <2>1, ReceiveEnds DEF Returned
<1>4. CASE r.status = "ok"
  <2> HIDE DEF r
  <2>1. htEnd' = "open"
    BY <1>1, <1>4
  <2>2. /\ htReceived' = Append(htReceived, r.message)
        /\ htArrived' = SubSeq(htArrived, r.pos, Len(htArrived))
        /\ UNCHANGED <<htSent, htFlight, htOver, htEnd>>
    BY <1>1, <1>4, <2>1
  <2>3. r = Returned([bound |-> htSent[1].bound], htArrived)
    BY DEF r
  <2> QED
    BY <1>1, <1>4, <2>2, <2>3, ReceivedNext
<1>5. CASE r.status # "ok"
  <2> HIDE DEF r
  <2>1. htEnd' \in {"throw", "fault"} /\ UNCHANGED <<htSent, htReceived, htOver, htFlight>>
    BY <1>1, <1>3, <1>5
  <2> QED
    BY <1>2, <2>1, ConnectionEnds
<1> QED
  BY <1>4, <1>5

\* Whatever is transmitted and however it is delivered, the invariant of an HTTP
\* connection holds (ConnectionManager.cpp).
THEOREM HttpInvariance == HtSpec => []HtInv
<1>1. HtInit => HtInv
  BY HttpInitially
<1>2. HtInv /\ [HtNext]_htVars => HtInv'
  <2> SUFFICES ASSUME HtInv, [HtNext]_htVars PROVE HtInv'
    OBVIOUS
  <2>1. ASSUME NEW m \in Transmittable, Transmit(m) PROVE HtInv'
    BY <2>1, TransmitArrives
  <2>2. CASE CloseEnd
    BY <2>2, CloseArrives
  <2>3. ASSUME NEW n \in 1 .. Len(htFlight), Deliver(n) PROVE HtInv'
    BY <2>3, DeliverArrives
  <2>4. CASE Receive
    BY <2>4, ReceiveArrives
  <2>5. CASE UNCHANGED htVars
    <3>1. UNCHANGED <<htSent, htFlight, htArrived, htOver, htReceived, htEnd>>
      BY <2>5 DEF htVars
    <3>2. HtType'
      BY <3>1 DEF HtInv, HtType
    <3>3. MessagesArrive' /\ (AllWhole(Len(htReceived))' <=> AllWhole(Len(htReceived)))
      BY <3>1, MessagesKept DEF HtInv
    <3>4. Aligned'
      BY <3>1, <3>3 DEF HtInv, Aligned
    <3> QED
      BY <3>2, <3>3, <3>4 DEF HtInv
  <2> QED
    BY <2>1, <2>2, <2>3, <2>4, <2>5 DEF HtNext
<1> QED
  BY <1>1, <1>2, PTL DEF HtSpec

\* As long as every message says where it ends, the n-th one received is the n-th
\* one sent (ConnectionManager::receive).
THEOREM MessagesCorrect == HtSpec => []MessagesArrive
<1>1. HtInv => MessagesArrive
  BY DEF HtInv
<1> QED
  BY <1>1, HttpInvariance, PTL
=============================================================================
