--------------------------- MODULE WebSocketFrame ---------------------------
(***************************************************************************)
(* The frame format of CWS: what WebSocket::frame writes for a message,    *)
(* and how the size field is read back.  A byte is a number; only the      *)
(* exclusive or of the masking is a parameter, of which nothing is used    *)
(* but what is assumed.                                                    *)
(***************************************************************************)
EXTENDS Naturals, Sequences

CONSTANT XorByte(_, _)

Byte == 0 .. 255

ASSUME XorAssumption ==
  \A a, k \in Byte : /\ XorByte(a, k) \in Byte
                     /\ XorByte(XorByte(a, k), k) = a
                     /\ XorByte(a, 0) = a

OPC_CONTINUATION == 0
OPC_TEXT == 1
OPC_BINARY == 2
OPC_CLOSE == 8
OPC_PING == 9
OPC_PONG == 10

Message == [FIN : {0, 1}, RSV : 0 .. 7, MSK : {0, 1}, OPC : 0 .. 15,
            context : Seq(Byte)]

\* How many more bytes the length takes, and the 7-bit length field.
Extension(length) == IF length < 126 THEN 0 ELSE IF length < 65536 THEN 2 ELSE 8
Length7(length) ==
  IF length < 126 THEN length ELSE IF length < 65536 THEN 126 ELSE 127

\* The extended length, most significant byte first; a QWORD is taken apart
\* three bytes at a time.
Extended2(length) == <<(length \div 256) % 256, length % 256>>
Extended8(length) ==
  LET middle == length \div 16777216
      high == middle \div 16777216
  IN  <<(high \div 256) % 256, high % 256, (middle \div 65536) % 256,
        (middle \div 256) % 256, middle % 256, (length \div 65536) % 256,
        (length \div 256) % 256, length % 256>>
Extended(length) ==
  CASE Extension(length) = 0 -> <<>>
    [] Extension(length) = 2 -> Extended2(length)
    [] OTHER -> Extended8(length)

Prefix(msg) ==
  <<msg.FIN * 128 + (msg.RSV % 8) * 16 + (msg.OPC % 16),
    msg.MSK * 128 + Length7(Len(msg.context))>> \o Extended(Len(msg.context))

NoKey == <<0, 0, 0, 0>>
Masked(context, key) ==
  [i \in DOMAIN context |-> XorByte(context[i], key[((i - 1) % 4) + 1])]

-------------------------------------------------------------------------------
(***************************************************************************)
(* Faulty variants.                                                        *)
(***************************************************************************)
FIN_Shift6(byte) == byte \div 64      \* shifted by one bit too few
Announced_Not126(byte) == IF byte % 128 = 127 THEN 8 ELSE 0

-------------------------------------------------------------------------------
(***************************************************************************)
(* Reading back.                                                           *)
(***************************************************************************)
FIN(byte) == (byte \div 128) % 2
RSV(byte) == (byte \div 16) % 8
OPC(byte) == byte % 16
MASK(byte) == (byte \div 128) % 2

\* How many more bytes of length the second byte of a frame announces.
Announced(byte) ==
  CASE byte % 128 = 126 -> 2 [] byte % 128 = 127 -> 8 [] OTHER -> 0

Length2(b) == b[1] * 256 + b[2]
Length8(b) == (((((((b[1] * 256 + b[2]) * 256 + b[3]) * 256 + b[4]) * 256
                 + b[5]) * 256 + b[6]) * 256 + b[7]) * 256 + b[8])
Length(byte, b) ==
  CASE Announced(byte) = 0 -> byte % 128
    [] Announced(byte) = 2 -> Length2(b)
    [] OTHER -> Length8(b)
===============================================================================
