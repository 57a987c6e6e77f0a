----------------------------- MODULE DataLemmas ------------------------------
(***************************************************************************)
(* What the other proofs rest on: induction over numbers, stated for sets  *)
(* and functions, and numbers taken apart into bytes.                      *)
(***************************************************************************)
EXTENDS Naturals, Sequences, WellFoundedInduction, TLAPS

\* A set of numbers has a least one.
LEMMA LeastNumber ==
  ASSUME NEW T \in SUBSET Nat, T # {}
  PROVE  \E x \in T : \A y \in T : x <= y
<1> DEFINE R == OpToRel(<, Nat)
<1>1. IsWellFoundedOn(R, Nat)
  BY NatLessThanWellFounded
<1>2. \A x, y \in Nat : y < x => <<y, x>> \in R
  BY DEF OpToRel
<1> HIDE DEF R
<1>3. PICK x \in T : \A y \in T : ~ (<<y, x>> \in R)
  BY <1>1, WFMin
<1>4. \A y \in T : ~ (y < x)
  BY <1>2, <1>3
<1>5. \A y \in T : x \in Nat /\ y \in Nat
  OBVIOUS
<1> QED
  BY <1>4, <1>5

\* Induction: a set with 0 and the successors of its numbers has them all.
LEMMA NumberInduction ==
  ASSUME NEW T, 0 \in T, \A n \in Nat : n \in T => n + 1 \in T
  PROVE  Nat \subseteq T
<1> SUFFICES ASSUME Nat \ T # {} PROVE FALSE
  OBVIOUS
<1>1. PICK x \in Nat \ T : \A y \in Nat \ T : x <= y
  BY LeastNumber
<1> QED
  BY <1>1

\* A sequence without its last element.
LEMMA FrontIs ==
  ASSUME NEW S, NEW s \in Seq(S), s # <<>>
  PROVE  /\ Len(s) \in Nat \ {0} /\ SubSeq(s, 1, Len(s) - 1) \in Seq(S)
         /\ Len(SubSeq(s, 1, Len(s) - 1)) = Len(s) - 1
         /\ \A k \in 1 .. Len(s) - 1 : SubSeq(s, 1, Len(s) - 1)[k] = s[k]
<1>1. Len(s) \in Nat \ {0} /\ DOMAIN s = 1 .. Len(s) /\ \A k \in 1 .. Len(s) : s[k] \in S
  OBVIOUS
<1> DEFINE n == Len(s) - 1
           t == SubSeq(s, 1, n)
<1>2. n \in Nat /\ n <= Len(s)
  BY <1>1
<1> HIDE DEF n
<1>3. t = [k \in 1 .. n |-> s[k]]
  BY <1>1, <1>2
<1>4. Len(t) = n
  BY <1>2, <1>3
<1>5. t \in Seq(S)
  BY <1>1, <1>2, <1>3
<1> QED
  BY <1>1, <1>2, <1>3, <1>4, <1>5 DEF n

\* Whether a number takes 64 bits at most.
In64Bits(n) == (n \div 16777216) \div 16777216 < 65536

\* A number is its last byte and what a shift by one byte leaves.
LEMMA Shift8 ==
  ASSUME NEW n \in Nat
  PROVE  n \div 256 \in Nat /\ n % 256 \in 0 .. 255 /\ n = (n \div 256) * 256 + (n % 256)
  BY SMT

\* Shifting by two or three bytes is shifting by one byte as often.
LEMMA Shift16 ==
  ASSUME NEW n \in Nat
  PROVE  n \div 65536 = (n \div 256) \div 256
  BY SMT
LEMMA Shift24 ==
  ASSUME NEW n \in Nat
  PROVE  n \div 16777216 = (n \div 65536) \div 256
  BY SMT

\* What a number leaves above its last three bytes.
LEMMA Split24 ==
  ASSUME NEW n \in Nat
  PROVE  /\ n \div 16777216 \in Nat
         /\ n = (((n \div 16777216) * 256 + ((n \div 65536) % 256)) * 256
                  + ((n \div 256) % 256)) * 256 + (n % 256)
<1>1. n = (n \div 256) * 256 + (n % 256) /\ n \div 256 \in Nat
  BY Shift8
<1>2. /\ n \div 256 = (n \div 65536) * 256 + ((n \div 256) % 256)
      /\ n \div 65536 \in Nat
  BY <1>1, Shift8, Shift16
<1>3. /\ n \div 65536 = (n \div 16777216) * 256 + ((n \div 65536) % 256)
      /\ n \div 16777216 \in Nat
  BY <1>2, Shift8, Shift24
<1> QED
  BY <1>1, <1>2, <1>3

\* The eight bytes of a number of 64 bits.
LEMMA Split64 ==
  ASSUME NEW n \in Nat, In64Bits(n)
  PROVE  LET middle == n \div 16777216
             high == middle \div 16777216
         IN  /\ middle \in Nat /\ high \in Nat
             /\ (high \div 256) % 256 = high \div 256
             /\ n = (((((((((high \div 256) % 256) * 256 + (high % 256)) * 256
                       + ((middle \div 65536) % 256)) * 256
                       + ((middle \div 256) % 256)) * 256 + (middle % 256)) * 256
                       + ((n \div 65536) % 256)) * 256
                       + ((n \div 256) % 256)) * 256 + (n % 256))
<1> DEFINE middle == n \div 16777216
           high == middle \div 16777216
<1>1. /\ middle \in Nat
      /\ n = ((middle * 256 + ((n \div 65536) % 256)) * 256
              + ((n \div 256) % 256)) * 256 + (n % 256)
  BY Split24
<1>2. /\ high \in Nat
      /\ middle = ((high * 256 + ((middle \div 65536) % 256)) * 256
                   + ((middle \div 256) % 256)) * 256 + (middle % 256)
  BY <1>1, Split24
<1>4. high < 65536
  BY DEF In64Bits
<1>5. (high \div 256) % 256 = high \div 256
  BY <1>2, <1>4
<1>6. high = ((high \div 256) % 256) * 256 + (high % 256)
  BY <1>2, <1>5, Shift8
<1> HIDE DEF middle, high
<1>7. n = (((((((((high \div 256) % 256) * 256 + (high % 256)) * 256
              + ((middle \div 65536) % 256)) * 256
              + ((middle \div 256) % 256)) * 256 + (middle % 256)) * 256
              + ((n \div 65536) % 256)) * 256
              + ((n \div 256) % 256)) * 256 + (n % 256))
  BY <1>1, <1>2, <1>6
<1> QED
  BY <1>1, <1>2, <1>5, <1>7 DEF middle, high

(***************************************************************************)
(* Quotient and remainder by any number.                                   *)
(***************************************************************************)
LEMMA DivMod ==
  ASSUME NEW s \in Nat, s > 0, NEW n \in Nat
  PROVE  /\ n \div s \in Nat /\ n % s \in 0 .. s - 1 /\ n = s * (n \div s) + (n % s)
  BY SMTT(30)
LEMMA Quotient ==
  ASSUME NEW s \in Nat, s > 0, NEW t \in Nat, NEW j \in 0 .. s - 1, NEW n \in Nat, n = s * t + j
  PROVE  n \div s = t /\ n % s = j
<1> DEFINE q == n \div s
           r == n % s
<1>1. /\ q \in Nat /\ r \in 0 .. s - 1 /\ n = s * q + r
  BY DivMod
<1> HIDE DEF q, r
<1>2. s * (q - t) = j - r
  BY <1>1, SMTT(30)
<1>3. ~ (q - t >= 1)
  <2> SUFFICES ASSUME q - t >= 1 PROVE FALSE
    OBVIOUS
  <2>1. s * (q - t) >= s
    BY <1>1, SMTT(30)
  <2> QED
    BY <1>1, <1>2, <2>1
<1>4. ~ (t - q >= 1)
  <2> SUFFICES ASSUME t - q >= 1 PROVE FALSE
    OBVIOUS
  <2>1. s * (t - q) >= s
    BY <1>1, SMTT(30)
  <2>2. s * (t - q) = r - j
    BY <1>1, SMTT(30)
  <2> QED
    BY <1>1, <2>1, <2>2
<1>5. q = t
  BY <1>1, <1>3, <1>4
<1>6. r = j
  BY <1>1, <1>5
<1> QED
  BY <1>5, <1>6 DEF q, r

(***************************************************************************)
(* Recursion over numbers, as functions that apply a step of their own to  *)
(* each value.                                                             *)
(***************************************************************************)
Recurs(f, first, step, n) ==
  f[0] = first /\ \A k \in 1 .. n : f[k] = step[k][f[k - 1]]

\* There is a function that goes on as the steps say.
LEMMA RecursionExists ==
  ASSUME NEW V, NEW first \in V, NEW n \in Nat, NEW step \in [1 .. n -> [V -> V]]
  PROVE  \E f \in [0 .. n -> V] : Recurs(f, first, step, n)
<1> DEFINE T == {m \in Nat : m <= n => \E f \in [0 .. m -> V] : Recurs(f, first, step, m)}
<1>1. 0 \in T
  <2> DEFINE f == [k \in 0 .. 0 |-> first]
  <2>1. f \in [0 .. 0 -> V] /\ f[0] = first
    OBVIOUS
  <2> HIDE DEF f
  <2> QED
    BY <2>1 DEF Recurs
<1>2. ASSUME NEW m \in Nat, m \in T PROVE m + 1 \in T
  <2> SUFFICES ASSUME m + 1 <= n
               PROVE  \E f \in [0 .. m + 1 -> V] : Recurs(f, first, step, m + 1)
    OBVIOUS
  <2>1. PICK g \in [0 .. m -> V] : Recurs(g, first, step, m)
    BY <1>2
  <2> DEFINE f == [k \in 0 .. m + 1 |-> IF k = m + 1 THEN step[m + 1][g[m]] ELSE g[k]]
  <2>2. step[m + 1][g[m]] \in V
    OBVIOUS
  <2>3. f \in [0 .. m + 1 -> V] /\ f[m + 1] = step[m + 1][g[m]] /\ \A k \in 0 .. m : f[k] = g[k]
    BY <2>2
  <2> HIDE DEF f
  <2>4. Recurs(f, first, step, m + 1)
    <3>1. f[0] = first
      BY <2>1, <2>3 DEF Recurs
    <3>2. \A k \in 1 .. m : f[k] = step[k][f[k - 1]]
      BY <2>1, <2>3 DEF Recurs
    <3>3. f[m + 1] = step[m + 1][f[(m + 1) - 1]]
      BY <2>3
    <3> QED
      BY <3>1, <3>2, <3>3 DEF Recurs
  <2> QED
    BY <2>3, <2>4
<1> HIDE DEF T
<1>3. n \in T
  BY <1>1, <1>2, NumberInduction
<1> QED
  BY <1>3 DEF T

\* Induction up to a number.
LEMMA UpTo ==
  ASSUME NEW n \in Nat, NEW T, 0 \in T, \A k \in 0 .. n - 1 : k \in T => k + 1 \in T
  PROVE  \A k \in 0 .. n : k \in T
<1> DEFINE R == {m \in Nat : m <= n => m \in T}
<1>1. 0 \in R
  OBVIOUS
<1>2. \A m \in Nat : m \in R => m + 1 \in R
  OBVIOUS
<1> HIDE DEF R
<1>3. Nat \subseteq R
  BY <1>1, <1>2, NumberInduction
<1> QED
  BY <1>3 DEF R

===============================================================================
