------------------------------- MODULE Keccak -------------------------------
(* The permutation of SHA-3 and SHAKE (SPONGE.cpp, SHA3.cpp), with lanes of    *)
(* 2 ^ KeccakL bits: the source calls it with 64, FIPS 202 defines it for all. *)
(* A lane is the set of the positions of its ones, a string of bits too, and   *)
(* the array A is the set of the places <<x, y, z>> of the ones of its lanes.  *)
EXTENDS Integers, Sequences, FiniteSets, Polynomials
LOCAL INSTANCE FiniteSetsExt
LOCAL INSTANCE SequencesExt

CONSTANT KeccakL

w == 2 ^ KeccakL
b == 25 * w
Five == 0 .. 4
Places == {<<x, y, z>> : x \in Five, y \in Five, z \in 0 .. w - 1}

Lane(A, x, y) == {z \in 0 .. w - 1 : <<x, y, z>> \in A}
Array(LaneAt(_, _)) ==
  UNION {{<<x, y, z>> : z \in LaneAt(x, y)} : x \in Five, y \in Five}

-----------------------------------------------------------------------------
(* NibbleReader: `bits` bits of a stream from a position.                      *)

Read(stream, position, bits) == {i \in 0 .. bits - 1 : position + i \in stream}
Write(stream, position, x, bits) ==
  (stream \ (position .. position + bits - 1)) \cup {position + i : i \in x}

-----------------------------------------------------------------------------
(* The steps of a round, each in place on the array.                           *)

\* Turned to the left; a machine shifts by 64 as by 0, which MASK relies on.
ROTL(lane, n) == {(z + n) % w : z \in lane}

theta(A) ==
  LET C(x) == FoldLeft(Plus, {}, [y \in 1 .. 5 |-> Lane(A, x % 5, y - 1)])
      D(x) == Plus(C(x + 4), ROTL(C(x + 1), 1))
  IN Array(LAMBDA x, y : Plus(Lane(A, x, y), D(x)))
\* rho's loop walks over the lanes, and turns each by the numbers of its visits.
RhoWalk ==
  LET at[t \in 0 .. 23] ==
        IF t = 0 THEN <<1, 0>>
        ELSE LET p == at[t - 1] IN <<p[2], (2 * p[1] + 3 * p[2]) % 5>>
  IN [t \in 0 .. 23 |-> at[t]]
RhoTurn(t) == (((t + 1) * (t + 2)) \div 2) % w
rho(A) ==
  LET Turns(x, y) == MapThenSumSet(RhoTurn, {t \in 0 .. 23 : RhoWalk[t] = <<x, y>>})
  IN Array(LAMBDA x, y : ROTL(Lane(A, x, y), Turns(x, y)))

\* Each lane gets the one written after it here, the last one the first.
PiOrder == <<<<0, 2>>, <<1, 0>>, <<1, 1>>, <<4, 1>>, <<2, 4>>, <<4, 2>>, <<0, 4>>, <<2, 0>>,
             <<2, 2>>, <<3, 2>>, <<4, 3>>, <<3, 4>>, <<0, 3>>, <<4, 0>>, <<4, 4>>, <<1, 4>>,
             <<3, 1>>, <<1, 3>>, <<0, 1>>, <<3, 0>>, <<3, 3>>, <<2, 3>>, <<1, 2>>, <<2, 1>>>>
PiSource(lane) ==
  LET at == {i \in 1 .. 24 : PiOrder[i] = lane}
  IN IF at = {} THEN lane ELSE PiOrder[((CHOOSE i \in at : TRUE) % 24) + 1]
pi(A) == Array(LAMBDA x, y : LET from == PiSource(<<x, y>>) IN Lane(A, from[1], from[2]))

chi(A) ==
  Array(LAMBDA x, y : Plus(Lane(A, x, y), Lane(A, (x + 2) % 5, y) \ Lane(A, (x + 1) % 5, y)))

\* KECCAKRC[t], from a register of nine bits that is turned t times.
RcTurn(r) == {e - 1 : e \in (IF 0 \in r THEN Plus(r, {8, 4, 3, 2}) ELSE r) \ {0}}
RECURSIVE RcTurned(_, _)
RcTurned(r, turns) == IF r = {} \/ turns = 0 THEN r ELSE RcTurned(RcTurn(r), turns - 1)
KECCAKRC(t) ==
  LET sixteenth[q \in 0 .. 15] == IF q = 0 THEN {7} ELSE RcTurned(sixteenth[q - 1], 16)
  IN 7 \in RcTurned(sixteenth[t \div 16], t % 16)
iota(A, ir) ==
  Plus(A, {<<0, 0, 2 ^ j - 1>> : j \in {j \in 0 .. KeccakL : KECCAKRC((j + 7 * ir) % 255)}})

Rnd(A, ir) == iota(chi(pi(rho(theta(A)))), ir)

\* The lanes are read row by row, and written where they were read.
ArrayOf(S) == Array(LAMBDA x, y : Read(S, w * (5 * y + x), w))
StringOf(A, T) ==
  FoldLeft(LAMBDA stream, i :
             Write(stream, w * (i - 1), Lane(A, (i - 1) % 5, (i - 1) \div 5), w),
           T, [i \in 1 .. 25 |-> i])
\* UNION binds the array of each round once.
RECURSIVE Rounds(_, _, _, _)
Rounds(A, ir, t, T) ==
  IF ir = t THEN StringOf(A, T) ELSE UNION {Rounds(next, ir + 1, t, T) : next \in {Rnd(A, ir)}}
KeccakP(nr, S, T) ==
  LET t == 12 + 2 * KeccakL IN Rounds(ArrayOf(S), t - nr, t, T)
KeccakF(S, T) == KeccakP(12 + 2 * KeccakL, S, T)
\* All b bits of a block are added; the ones behind its rate are 0.
Sponge(S, P) == KeccakF(Plus(S, P), Plus(S, P))

-----------------------------------------------------------------------------
(* FIPS 202, section 3.2: the steps bit by bit.                                *)

In(A, x, y, z) == <<x % 5, y % 5, z % w>> \in A
Parity(A, x, z) == Cardinality({y \in Five : In(A, x, y, z)}) % 2

Theta(A) == {<<x, y, z>> \in Places :
  (IF In(A, x, y, z) THEN 1 ELSE 0) + Parity(A, x + 4, z) + Parity(A, x + 1, z + w - 1) \in {1, 3}}
\* Table 2, by y and x.
Offset == <<<<0, 1, 190, 28, 91>>, <<36, 300, 6, 55, 276>>, <<3, 10, 171, 153, 231>>,
            <<105, 45, 15, 21, 136>>, <<210, 66, 253, 120, 78>>>>
Rho(A) == {<<x, y, z>> \in Places : In(A, x, y, z + 300 * w - Offset[y + 1][x + 1])}
Pi(A) == {<<x, y, z>> \in Places : In(A, x + 3 * y, x, z)}
Chi(A) == {<<x, y, z>> \in Places :
  In(A, x, y, z) # (~In(A, x + 1, y, z) /\ In(A, x + 2, y, z))}
\* Section 3.2.5: rc(t) is the constant term of x^t mod x^8 + x^6 + x^5 + x^4 + 1.
Rc(t) == 0 \in Remainder({t % 255}, {0, 4, 5, 6, 8}, 8)
Iota(A, ir) ==
  Plus(A, {<<0, 0, 2 ^ j - 1>> : j \in {j \in 0 .. KeccakL : Rc(j + 7 * ir)}})
RECURSIVE Permuted(_, _)
Permuted(A, ir) ==
  IF ir = 12 + 2 * KeccakL THEN A
  ELSE UNION {Permuted(next, ir + 1) : next \in {Iota(Chi(Pi(Rho(Theta(A)))), ir)}}
Bit(i) == <<(i \div w) % 5, i \div (5 * w), i % w>>

\* The steps, written for whole lanes in place, are those of FIPS 202 on every
\* bit, and so is the permutation of a string (SPONGE.cpp, SHA3.cpp:7-52).
KeccakExact(S) ==
  LET A == ArrayOf(S)
  IN /\ A = {Bit(i) : i \in S}
     /\ theta(A) = Theta(A)
     /\ rho(A) = Rho(A)
     /\ pi(A) = Pi(A)
     /\ chi(A) = Chi(A)
     /\ {Bit(i) : i \in Sponge({}, S)} = Permuted(A, 0)
=============================================================================
