----------------------------- MODULE MachineWord -----------------------------
(* The unbounded integers of String/src/MWORD.cpp, which the decimal texts of  *)
(* doubles are computed with: bytes from the lowest on, of which the first     *)
(* `length' count.  A byte has WordBits bits (8 in the source), so that every  *)
(* pair of small numbers can be tried; a shift moves whole bytes, then bits.   *)
EXTENDS Integers, Sequences, SequencesExt, FiniteSetsExt

CONSTANT WordBits

Base == 2 ^ WordBits
LongerOf(m, n) == IF m > n THEN m ELSE n
ByteAt(bytes, i) == IF i \in DOMAIN bytes THEN bytes[i] ELSE 0

\* What the bytes stand for.
ValueOf(w) == FoldRight(LAMBDA byte, value : value * Base + byte, SubSeq(w.address, 1, w.length), 0)

\* clear(): the bytes above the highest one that is not zero do not count.
Clear(address) ==
  [address |-> address, length |-> Max({0} \cup {i \in DOMAIN address : address[i] # 0})]

Size(value) == CHOOSE n \in 0 .. 31 : value < Base ^ n /\ (n = 0 \/ Base ^ (n - 1) <= value)
FromQword(value) ==
  [address |-> [i \in 1 .. Size(value) |-> (value \div Base ^ (i - 1)) % Base], length |-> Size(value)]
ToQword(w, qwordBits) == ValueOf(w) % 2 ^ qwordBits

\* Move construction and assignment leave nothing behind.
MovedFrom == [address |-> <<>>, length |-> 0]

\* operator+=: byte by byte with carry, into one byte more than the longer one.
Plus(a, b) ==
  LET size == LongerOf(a.length, b.length)
      At(w, i) == IF i <= w.length THEN w.address[i] ELSE 0
      carry[i \in 0 .. size] == IF i = 0 THEN 0 ELSE (carry[i - 1] + At(a, i) + At(b, i)) \div Base
  IN Clear([i \in 1 .. size + 1 |->
              IF i > size THEN carry[size] ELSE (carry[i - 1] + At(a, i) + At(b, i)) % Base])

\* operator-=: the complement of the smaller one plus 1 is added, and the byte
\* that came on top is taken off.
Minus(a, b) ==
  LET complement == [b EXCEPT !.address = [i \in DOMAIN b.address |->
                       IF i <= b.length THEN Base - 1 - b.address[i] ELSE b.address[i]]]
      sum == Plus(a, Plus(complement, FromQword(1)))
  IN IF b.length = 0 THEN a ELSE Clear([sum.address EXCEPT ![sum.length] = 0])

\* operator*=: one row of the product after the other.
Row(sums, byte, i, b) ==
  LET width == Len(sums)
      At(j) == IF i + j \in DOMAIN sums THEN sums[i + j] ELSE 0
      carry[j \in 0 .. width] ==
        IF j = 0 THEN 0 ELSE (carry[j - 1] + byte * ByteAt(b.address, j) + At(j - 1)) \div Base
  IN [k \in DOMAIN sums |->
        IF k < i THEN sums[k]
        ELSE (carry[k - i] + byte * ByteAt(b.address, k - i + 1) + sums[k]) % Base]
Times(a, b) ==
  Clear(FoldLeft(LAMBDA sums, i : Row(sums, a.address[i], i, b),
                 [k \in 1 .. a.length + b.length |-> 0], [i \in 1 .. a.length |-> i]))

\* operator<<=: bytes and bits upwards; operator>>=: only bits, as it is used.
ShiftLeft(w, val) ==
  LET bytes == val \div WordBits
      bits == 2 ^ (val % WordBits)
      At(i) == IF i \in 1 .. w.length THEN w.address[i] ELSE 0
  IN Clear([i \in 1 .. w.length + bytes + 1 |->
              IF i <= bytes THEN 0
              ELSE ((At(i - bytes) * bits) % Base) + ((At(i - bytes - 1) * bits) \div Base)])
ShiftRight(w, bit) ==
  Clear([i \in DOMAIN w.address |->
           IF i > w.length THEN w.address[i]
           ELSE (w.address[i] \div 2 ^ bit)
                + (IF i < w.length THEN (w.address[i + 1] * 2 ^ (WordBits - bit)) % Base ELSE 0)])

\* operator<, operator>, operator>=: the lengths first, then from the top.
Greater(a, b) ==
  \/ a.length > b.length
  \/ a.length = b.length
     /\ \E i \in 1 .. a.length : /\ a.address[i] > b.address[i]
                                 /\ \A j \in i + 1 .. a.length : a.address[j] = b.address[j]
Less(a, b) ==
  \/ a.length < b.length
  \/ a.length = b.length
     /\ \E i \in 1 .. a.length : /\ a.address[i] < b.address[i]
                                 /\ \A j \in i + 1 .. a.length : a.address[j] = b.address[j]
NotLess(a, b) ==
  IF a.length # b.length THEN a.length > b.length
  ELSE \/ \A i \in 1 .. a.length : a.address[i] = b.address[i]
       \/ Greater(a, b)
Compare(a, b) == IF Greater(a, b) THEN 1 ELSE IF Less(a, b) THEN -1 ELSE 0

width(w) ==
  IF w.length = 0 THEN 0
  ELSE (WordBits * (w.length - 1)) + (CHOOSE n \in 1 .. WordBits :
         2 ^ (n - 1) <= w.address[w.length] /\ w.address[w.length] < 2 ^ n)

\* division(): the divisor as far up as the dividend, then down bit by bit.
DivisionStep(st) ==
  LET fits == NotLess(st.rest, st.divisor)
  IN [rest |-> IF fits THEN Minus(st.rest, st.divisor) ELSE st.rest,
      quotient |-> IF fits THEN Plus(st.quotient, st.one) ELSE st.quotient,
      divisor |-> ShiftRight(st.divisor, 1), one |-> ShiftRight(st.one, 1)]
division(a, b) ==
  LET shift == width(a) - width(b)
      run[n \in 0 .. shift + 1] ==
        IF n = 0 THEN [rest |-> a, quotient |-> FromQword(0),
                       divisor |-> ShiftLeft(b, shift), one |-> ShiftLeft(FromQword(1), shift)]
        ELSE LET st == run[n - 1]
             IN IF st.one.length > 0 /\ st.rest.length > 0 THEN DivisionStep(st) ELSE st
  IN IF shift < 0 THEN [quotient |-> FromQword(0), rest |-> a]
     ELSE [quotient |-> run[shift + 1].quotient, rest |-> run[shift + 1].rest]

\* POWER: a squared once a bit of n.
POWER(a, n) ==
  LET run[k \in 0 .. 6] ==
        IF k = 0 THEN [r |-> FromQword(1), a |-> a, n |-> n]
        ELSE LET st == run[k - 1]
             IN IF st.n = 0 THEN st
                ELSE [r |-> IF st.n % 2 = 1 THEN Times(st.r, st.a) ELSE st.r,
                      a |-> Times(st.a, st.a), n |-> st.n \div 2]
  IN run[6].r

\* string(): the digits from the last one, and the zero byte that ends them.
WordString(w) ==
  LET ten == FromQword(10)
      run[n \in 0 .. 12] ==
        IF n = 0 THEN [a |-> w, digits |-> <<>>]
        ELSE LET st == run[n - 1]
                 d == division(st.a, ten)
             IN IF st.a.length = 0 THEN st
                ELSE [a |-> d.quotient, digits |-> <<ValueOf(d.rest)>> \o st.digits]
      end == run[12]
  IN [digits |-> IF end.digits = <<>> THEN <<0>> ELSE end.digits, trailing |-> 1]

-----------------------------------------------------------------------------
(* The reference.                                                              *)

\* The bytes that count end with one that is not zero, and those above are zero.
Canonical(w) == /\ w.length <= Len(w.address)
                /\ \A i \in DOMAIN w.address : i > w.length => w.address[i] = 0
                /\ w.length > 0 => w.address[w.length] # 0

\* Every operation that the digits of doubles need is exact: sums, products,
\* shifts, powers, comparisons, and quotients with their rests although the
\* subtraction alone drops more than it borrowed when the difference is longer
\* than the number taken away (MWORD.cpp:66-82).
WordExact(m, n) ==
  LET a == FromQword(m)
      b == FromQword(n)
      d == division(a, b)
      results == {<<Plus(a, b), m + n>>, <<Times(a, b), m * n>>, <<ShiftRight(a, 1), m \div 2>>,
                  <<ShiftLeft(a, n % 8), m * 2 ^ (n % 8)>>, <<POWER(a, 1 + (n % 3)), m ^ (1 + (n % 3))>>}
                 \cup (IF n > 0 THEN {<<d.quotient, m \div n>>, <<d.rest, m % n>>} ELSE {})
  IN /\ \A r \in results : Canonical(r[1]) /\ ValueOf(r[1]) = r[2]
     /\ Compare(a, b) = (IF m > n THEN 1 ELSE IF m < n THEN -1 ELSE 0)
     /\ ToQword(a, 4) = m % 16
     /\ n = 0 => WordString(a).digits = [i \in DOMAIN WordString(a).digits |->
                   (m \div 10 ^ (Len(WordString(a).digits) - i)) % 10]
=============================================================================
