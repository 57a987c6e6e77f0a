------------------------------ MODULE BrotliCodes -----------------------------
(***************************************************************************)
(* The codes of a Brotli command: the tables of insert and copy lengths,   *)
(* the cells of IACC, and the arithmetic on distance codes, all of         *)
(* DecodeCompressedMetaBlock in Compression/src/Brotli.cpp.                *)
(***************************************************************************)
EXTENDS Integers, Sequences, FiniteSets, FiniteSetsExt, Functions

INSERT_AND_COPY_CODE == << <<0, 0>>, <<0, 8>>, <<0, 0>>, <<0, 8>>, <<8, 0>>, <<8, 8>>,
                           <<0, 16>>, <<16, 0>>, <<8, 16>>, <<16, 8>>, <<16, 16>> >>
INSERT_LENGTH == <<0, 1, 2, 3, 4, 5, 6, 8, 10, 14, 18, 26, 34, 50, 66, 98, 130, 194, 322, 578,
                   1090, 2114, 6210, 22594>>
INSERT_EXTRA == <<0, 0, 0, 0, 0, 0, 1, 1, 2, 2, 3, 3, 4, 4, 5, 5, 6, 7, 8, 9, 10, 12, 14, 24>>
COPY_LENGTH == <<2, 3, 4, 5, 6, 7, 8, 9, 10, 12, 14, 18, 22, 30, 38, 54, 70, 102, 134, 198, 326,
                 582, 1094, 2118>>
COPY_EXTRA == <<0, 0, 0, 0, 0, 0, 0, 0, 1, 1, 2, 2, 3, 3, 4, 4, 5, 5, 6, 7, 8, 9, 10, 24>>

Cell(iacc) == INSERT_AND_COPY_CODE[(iacc \div 64) + 1]
InsertCode(iacc) == Cell(iacc)[1] + ((iacc \div 8) % 8)
CopyCode(iacc) == Cell(iacc)[2] + (iacc % 8)

(* The lengths a code stands for, up to a limit. *)
LengthsOf(base, extra, code, limit) ==
  base[code + 1] .. Min({base[code + 1] + 2 ^ extra[code + 1] - 1, limit})

(* A distance code of 16 or more, and the extra bits read after it. *)
DistanceOf(npostfix, ndirect, dcode, dextra) ==
  IF dcode < ndirect + 16 THEN dcode - 15
  ELSE LET rest == dcode - ndirect - 16
           ndistbits == 1 + (rest \div 2 ^ (npostfix + 1))
           hcode == rest \div 2 ^ npostfix
           lcode == rest % 2 ^ npostfix
           offset == (2 + (hcode % 2)) * 2 ^ ndistbits - 4
       IN (offset + dextra) * 2 ^ npostfix + lcode + ndirect + 1
ExtraBits(npostfix, ndirect, dcode) ==
  IF dcode < ndirect + 16 THEN 0 ELSE 1 + ((dcode - ndirect - 16) \div 2 ^ (npostfix + 1))

(* The codes and extra bits that reach no farther than a limit. *)
Reaching(npostfix, ndirect, limit) ==
  UNION {{<<dcode, dextra>> :
            dextra \in {x \in 0 .. Min({2 ^ ExtraBits(npostfix, ndirect, dcode) - 1, limit}) :
                          DistanceOf(npostfix, ndirect, dcode, x) \in 1 .. limit}}
         : dcode \in {c \in 16 .. 15 + ndirect + 48 * 2 ^ npostfix :
                        DistanceOf(npostfix, ndirect, c, 0) \in 1 .. limit}}

-----------------------------------------------------------------------------
(* A table of codes covers every length from its first, each once. *)
Covers(base, extra) ==
  \A n \in base[1] .. 300 :
    Cardinality({c \in DOMAIN base : base[c] <= n /\ n < base[c] + 2 ^ extra[c]}) = 1

OneToOne(f, T) == IsInjective(f) /\ Range(f) = T

(* Every insert length, every copy length and every pair of their codes has one *)
(* encoding: the tables (lines 17-21) and the cells of IACC (lines 644-657)     *)
(* leave no hole and do not overlap.                                            *)
LengthsCover ==
  /\ Covers(INSERT_LENGTH, INSERT_EXTRA) /\ Covers(COPY_LENGTH, COPY_EXTRA)
  /\ OneToOne([x \in 128 .. 703 |-> <<InsertCode(x), CopyCode(x)>>], (0 .. 23) \X (0 .. 23))

(* So has every distance, whatever NPOSTFIX and NDIRECT (lines 697-712). *)
DistancesCover(npostfix, ndirect, limit) ==
  LET codes == Reaching(npostfix, ndirect, limit)
  IN OneToOne([x \in codes |-> DistanceOf(npostfix, ndirect, x[1], x[2])], 1 .. limit)
=============================================================================
