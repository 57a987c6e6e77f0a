--------------------------- MODULE MCMessageDigest ---------------------------
EXTENDS MessageDigest

Digest(sz, field, order, first, output, extends) ==
  [size |-> sz, field |-> field, order |-> order, first |-> first,
   output |-> output, extends |-> extends]

\* MD5 and SHA1 (also MD4, SHA224, SHA256), SHA384 (also SHA512), SHA3-512 and
\* SHAKE128, with the sizes the code has.
MCTypes ==
  { Digest(64, 8, "LE", 128, 128, FALSE), Digest(64, 8, "BE", 128, 160, FALSE),
    Digest(128, 16, "BE", 128, 384, FALSE), Digest(72, 0, "LE", 6, 512, FALSE),
    Digest(168, 0, "LE", 31, 0, TRUE), Digest(168, 0, "LE", 31, 2693, TRUE) }

\* Calls that fill a block, leave one byte, or none, for the padding.
MCData == { [i \in 1 .. n |-> (7 * i + n) % 256] : n \in {0, 7, 55, 64} }
===============================================================================
