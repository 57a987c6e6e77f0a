------------------------------- MODULE Endian --------------------------------
(***************************************************************************)
(* Memory's byte orders: how a number of up to 64 bits is laid out in      *)
(* bytes, and read back.                                                   *)
(***************************************************************************)
EXTENDS Naturals, Sequences

Byte == 0 .. 255

\* (x >> 8 * i) & 0xFF; three bytes at a time, for the sake of TLC's numbers.
Octet(x, i) ==
  LET high == IF i < 3 THEN x
              ELSE IF i < 6 THEN x \div 16777216
              ELSE (x \div 16777216) \div 16777216
  IN  (high \div <<1, 256, 65536>>[(i % 3) + 1]) % 256

SaveAsLEndian(x, n) == [i \in 1 .. n |-> Octet(x, i - 1)]
SaveAsBEndian(x, n) == [i \in 1 .. n |-> Octet(x, n - i)]

\* Eight bytes read back; the loops shift what is read so far by a byte.
GetAsBEndian(b) == (((((((b[1] * 256 + b[2]) * 256 + b[3]) * 256 + b[4]) * 256
                      + b[5]) * 256 + b[6]) * 256 + b[7]) * 256 + b[8])
GetAsLEndian(b) == (((((((b[8] * 256 + b[7]) * 256 + b[6]) * 256 + b[5]) * 256
                      + b[4]) * 256 + b[3]) * 256 + b[2]) * 256 + b[1])
===============================================================================
