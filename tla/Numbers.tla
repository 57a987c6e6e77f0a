------------------------------- MODULE Numbers -------------------------------
(* Numbers and their decimal texts: String/src/sstring.cpp.  A text is what its*)
(* characters say: the sign, the digits before and after the point, and the    *)
(* exponent.  The widths of the machine's numbers are parameters (64 bits, 52  *)
(* bits of fraction and 11 of exponent in the source), so that every number of *)
(* a small format can be tried.  MWORD's integers are taken as integers; module*)
(* MachineWord says why.                                                       *)
EXTENDS Integers, Sequences, SequencesExt, FiniteSetsExt, TLC

CONSTANTS
  QwordBits,     \* 64
  EXP_SHIFT,     \* 52: the bits of a double's fraction
  ExpBits,       \* 11: the bits of its exponent
  PlainDigits,   \* 8: more digits before the point, and an exponent is written
  PlainZeros     \* 3: as many zeros after the point, and an exponent is written

EXP_BIAS == 2 ^ (ExpBits - 1) - 1
ExpMax == 2 ^ ExpBits - 1
QwordRange == 2 ^ QwordBits
BiggerOf(a, b) == IF a > b THEN a ELSE b
SmallerOf(a, b) == IF a < b THEN a ELSE b

\* BinaryStorage.c
NumberSize(x) == IF x = 0 THEN 0 ELSE CHOOSE n \in 1 .. 31 : 2 ^ (n - 1) <= x /\ x \div 2 < 2 ^ (n - 1)
TrailingZeros(x) == CHOOSE n \in 0 .. 31 : x % (2 ^ n) = 0 /\ (x \div (2 ^ n)) % 2 = 1

Zeros(n) == [i \in 1 .. BiggerOf(n, 0) |-> 0]
DigitsValue(ds) == FoldLeft(LAMBDA v, d : (v * 10) + d, 0, ds)
NoExponent == -1000
Text(negative, whole, fraction, exponent) ==
  [word |-> "", negative |-> negative, whole |-> whole, fraction |-> fraction,
   exponent |-> exponent]
Word(negative, word) == [Text(negative, <<>>, <<>>, NoExponent) EXCEPT !.word = word]

-----------------------------------------------------------------------------
(* Integers.                                                                   *)

\* The powers of ten a QWORD holds, down from the largest.
Powers == LET top == CHOOSE n \in 0 .. 9 : 10 ^ n < QwordRange /\ QwordRange <= 10 ^ (n + 1)
          IN [i \in 1 .. top + 1 |-> 10 ^ (top + 1 - i)]

\* stringify(QWORD, sign): digits from the left, those of value 0 before the
\* first other one dropped.  The sign's bit is taken off before the number is
\* negated in the bits that remain.
StringifyQword(val, sign) ==
  LET half == 2 ^ (QwordBits - 1)
      negative == sign /\ val >= half
      rest == IF sign THEN val % half ELSE val
      size == IF negative THEN (half - rest) % half ELSE rest
      all == [i \in DOMAIN Powers |-> (size \div Powers[i]) % 10]
      first == {i \in DOMAIN all : all[i] # 0} \cup {Len(all)}
  IN Text(negative, SubSeq(all, Min(first), Len(all)), <<>>, NoExponent)

\* integer(): a text that is not digits up to its end is read from address 1.
Integer(text) ==
  IF text.word # "" \/ text.fraction # <<>> \/ text.exponent # NoExponent THEN "access violation"
  ELSE LET val == DigitsValue(text.whole) % QwordRange
       IN IF text.negative THEN (QwordRange - val) % QwordRange ELSE val

-----------------------------------------------------------------------------
(* The digits of a double: [negative, exp, fract] are its three fields.        *)

\* d = (1.f - 1.5) * 0.2895 + 0.1761 + binExp * 0.30103, rounded down.
estimateDecExp(fractBits, binExp) ==
  LET f == fractBits % (2 ^ EXP_SHIFT)
  IN ((((2 * f - 2 ^ EXP_SHIFT) * 289530) \div (2 ^ (EXP_SHIFT + 1))) + 176091
      + binExp * 301030) \div 1000000

\* A denormal number's leading one is shifted to where the others have theirs.
Normal(d) ==
  LET shift == EXP_SHIFT + 1 - NumberSize(d.fract)
  IN IF d.exp = 0
     THEN [fract |-> d.fract * 2 ^ shift, exp |-> 1 - shift - EXP_BIAS, bits |-> NumberSize(d.fract)]
     ELSE [fract |-> d.fract + 2 ^ EXP_SHIFT, exp |-> d.exp - EXP_BIAS, bits |-> EXP_SHIFT + 1]

\* A mutant: a carry out of the first digit leaves the exponent.
roundup_SameExponent(digits, decExponent) ==
  LET nines == {i \in 0 .. Len(digits) - 1 : \A j \in 0 .. i : digits[Len(digits) - j] = 9}
      n == Cardinality(nines)
  IN [digits |-> [i \in DOMAIN digits |->
                    IF n = Len(digits) THEN IF i = 1 THEN 1 ELSE 0
                    ELSE IF i > Len(digits) - n THEN 0
                    ELSE IF i = Len(digits) - n THEN digits[i] + 1 ELSE digits[i]],
      decExponent |-> decExponent]
\* roundup: the last digit grows by one and carries.
roundup(digits, decExponent) ==
  LET nines == {i \in 0 .. Len(digits) - 1 : \A j \in 0 .. i : digits[Len(digits) - j] = 9}
      n == Cardinality(nines)
  IN IF n = Len(digits)
     THEN [digits |-> [i \in DOMAIN digits |-> IF i = 1 THEN 1 ELSE 0], decExponent |-> decExponent + 1]
     ELSE [digits |-> [i \in DOMAIN digits |->
                         IF i > Len(digits) - n THEN 0
                         ELSE IF i = Len(digits) - n THEN digits[i] + 1 ELSE digits[i]],
           decExponent |-> decExponent]

\* The scaled value b / s and half the distance to its neighbours m / s, as
\* powers of two and five with the common factor taken out.
Scaled(norm) ==
  LET tailZeros == TrailingZeros(norm.fract)
      nFractBits == EXP_SHIFT + 1 - tailZeros
      nTinyBits == BiggerOf(0, nFractBits - norm.exp - 1)
      decExp == estimateDecExp(norm.fract, norm.exp)
      B5 == BiggerOf(0, -decExp)
      S5 == BiggerOf(0, decExp)
      wholeB2 == B5 + nTinyBits + norm.exp
      B2 == wholeB2 - (nFractBits - 1)
      S2 == S5 + nTinyBits
      common == SmallerOf(B2, S2)
      M2 == wholeB2 - norm.bits - common - (IF nFractBits = 1 THEN 1 ELSE 0)
      lift == BiggerOf(0, -M2)
  IN [decExp |-> decExp,
      b |-> (5 ^ B5) * (norm.fract \div (2 ^ tailZeros)) * 2 ^ (B2 - common + lift),
      s |-> (5 ^ S5) * 2 ^ (S2 - common + lift),
      m |-> (5 ^ B5) * 2 ^ (M2 + lift)]

\* One digit after another until what is left is within m of 0 or of s; not
\* before the remainder has become 0 when an exponent will be written.
NextDigit(st, s) ==
  LET b == (st.b % s) * 10
      m == st.m * 10
  IN [digits |-> Append(st.digits, st.b \div s), b |-> b, m |-> m,
      low |-> IF m > 0 THEN b < m ELSE TRUE, high |-> IF m > 0 THEN b + m > s * 10 ELSE TRUE]
FirstDigit(scaled) == NextDigit([digits |-> <<>>, b |-> scaled.b, m |-> scaled.m], scaled.s)
DigitLoop(begin, s) ==
  FoldLeft(LAMBDA st, n : IF st.low \/ st.high THEN st ELSE NextDigit(st, s), begin, [n \in 1 .. 30 |-> n])

Shortest(scaled, start) ==
  LET leading == start.digits[1] = 0 /\ ~start.high
      long == LET decExp == scaled.decExp - (IF leading THEN 1 ELSE 0)
              IN decExp < -PlainZeros \/ decExp >= PlainDigits
      end == DigitLoop([start EXCEPT !.digits = IF leading THEN <<>> ELSE @,
                                     !.low = @ /\ ~long, !.high = @ /\ ~long], scaled.s)
      difference == (end.b * 2) - (scaled.s * 10)
      up == end.high /\ (end.low => \/ difference > 0
                                    \/ difference = 0 /\ Last(end.digits) % 2 = 1)
      decExponent == scaled.decExp + (IF leading THEN 0 ELSE 1)
  IN IF up THEN roundup(end.digits, decExponent)
     ELSE [digits |-> end.digits, decExponent |-> decExponent]
\* (Sets of one, so that each stage is computed once.)
Digits(d) ==
  LET stages == {[scaled |-> scaled, start |-> FirstDigit(scaled)] : scaled \in {Scaled(Normal(d))}}
  IN CHOOSE r \in {Shortest(stage.scaled, stage.start) : stage \in stages} : TRUE

Special(d) ==
  IF d.exp = ExpMax THEN IF d.fract # 0 THEN {Word(FALSE, "NaN")} ELSE {Word(d.negative, "Infinity")}
  ELSE IF d.exp = 0 /\ d.fract = 0 THEN {Text(d.negative, <<0>>, <<0>>, NoExponent)}
  ELSE {}

OrZero(ds) == IF ds = <<>> THEN <<0>> ELSE ds

\* stringify(double): the digits around the point, or with an exponent.
StringifyDouble(d) ==
  IF Special(d) # {} THEN CHOOSE t \in Special(d) : TRUE
  ELSE LET r == Digits(d)
           e == r.decExponent
           n == Len(r.digits)
       IN IF e > 0 /\ e < PlainDigits
          THEN Text(d.negative, SubSeq(r.digits, 1, SmallerOf(n, e)) \o Zeros(e - n),
                    OrZero(SubSeq(r.digits, e + 1, n)), NoExponent)
          ELSE IF e <= 0 /\ e > -PlainZeros
          THEN Text(d.negative, <<0>>, Zeros(-e) \o r.digits, NoExponent)
          ELSE Text(d.negative, <<r.digits[1]>>, OrZero(Tail(r.digits)), e - 1)

\* stringify(double, precision): half up at the last digit kept.  Below 0.1 the
\* count of digits before the point is negative and, in a byte, large: more is
\* copied than either buffer has.
RoundedAt(r, precision) ==
  LET cut == r.decExponent + precision
      up == cut < Len(r.digits) /\ cut >= 0 /\ r.digits[cut + 1] > 4
      grown == roundup(SubSeq(r.digits, 1, cut), r.decExponent)
  IN IF ~up THEN r
     ELSE IF cut = 0 THEN [digits |-> <<1>>, decExponent |-> r.decExponent + 1]
     ELSE IF grown.decExponent = r.decExponent THEN grown
     ELSE [digits |-> <<1>> \o Zeros(cut), decExponent |-> grown.decExponent]
FixedText(negative, r, precision) ==
  LET e == r.decExponent
      n == Len(r.digits)
      fraction == SubSeq(r.digits, e + 1, SmallerOf(n, e + precision))
  IN IF e < 0 THEN Word(negative, "out of bounds")
     ELSE Text(negative, (IF e = 0 THEN <<0>> ELSE <<>>) \o SubSeq(r.digits, 1, SmallerOf(n, e)) \o Zeros(e - n),
               fraction \o Zeros(precision - Len(fraction)), NoExponent)
Fixed(d, precision) ==
  LET rounded == {RoundedAt(r, precision) : r \in {Digits(d)}}
      texts == {FixedText(d.negative, r, precision) : r \in rounded}
  IN CHOOSE t \in (IF Special(d) # {} THEN Special(d) ELSE texts) : TRUE

-----------------------------------------------------------------------------
(* floating(): the text of a double, without exponent.  The result's three     *)
(* fields, or 0 when no bit was found.                                         *)

Double(negative, exp, fract) == [negative |-> negative, exp |-> exp, fract |-> fract]

\* Bits of the fraction, one turn of the loop each: exp is 0x7FF while the first
\* one of a number below 1 is not found.
FractionBit(st, dec) ==
  LET b == 2 * st.fpart >= dec
      found == st.exp # ExpMax
  IN [bits |-> IF found /\ b THEN st.bits + 2 ^ (st.off - 1) ELSE st.bits,
      exp |-> IF ~found /\ b THEN EXP_BIAS - (st.count + 1) ELSE st.exp,
      off |-> IF found THEN st.off - 1 ELSE st.off,
      count |-> st.count + 1,
      fpart |-> 2 * st.fpart - (IF b THEN dec ELSE 0)]

\* The bits of the digits before the point: 0x7FF is no exponent yet.
WholeBits(ipart) ==
  LET width == NumberSize(ipart)
  IN IF ipart = 0 THEN [bits |-> 0, exp |-> ExpMax, off |-> EXP_SHIFT]
     ELSE [bits |-> IF width > EXP_SHIFT THEN (ipart \div (2 ^ (width - (EXP_SHIFT + 1)))) % (2 ^ EXP_SHIFT)
                    ELSE (ipart * 2 ^ (EXP_SHIFT + 1 - width)) % (2 ^ EXP_SHIFT),
           exp |-> width - 1 + EXP_BIAS,
           off |-> IF width > EXP_SHIFT THEN 0 ELSE EXP_SHIFT - (width - 1)]

FractionBits(whole, fraction) ==
  LET dec == 10 ^ Len(fraction)
      turns == EXP_SHIFT + EXP_BIAS + 8
      run[n \in 0 .. turns] ==
        IF n = 0 THEN whole @@ [count |-> 0, fpart |-> DigitsValue(fraction)]
        ELSE LET st == run[n - 1]
             IN IF st.off = 0 \/ st.fpart = 0 THEN st ELSE FractionBit(st, dec)
      end == run[turns]
      b == 2 * end.fpart >= dec
  IN IF end.exp # ExpMax THEN [end EXCEPT !.bits = @ + (IF b THEN 1 ELSE 0)]
     ELSE IF b THEN [end EXCEPT !.exp = EXP_BIAS - (end.count + 1)] ELSE end

\* After a point the bits are tested for one too many with the sign among them,
\* so that every negative number is shifted: its sign lands in the exponent.
Floating(text) ==
  LET point == text.fraction # <<>>
      whole == WholeBits(DigitsValue(text.whole))
      end == IF point THEN FractionBits(whole, text.fraction) ELSE whole
      shifted == point /\ (text.negative \/ end.bits >= 2 ^ EXP_SHIFT)
      exp == end.exp + (IF shifted THEN 1 ELSE 0)
      high == 2 ^ (ExpBits - 1)
      field == exp % (2 ^ ExpBits)
  IN IF exp = ExpMax THEN Double(FALSE, 0, 0)
     ELSE IF shifted
     THEN Double(exp > ExpMax,
                 IF text.negative /\ field < high THEN field + high ELSE field,
                 end.bits \div 2)
     ELSE Double(text.negative, exp, end.bits)

-----------------------------------------------------------------------------
(* The reference.                                                              *)

\* A double in the smallest unit two of them can be half apart, and the distance
\* to the next one above.
Units(d) == IF d.exp = 0 THEN 2 * d.fract ELSE (2 ^ EXP_SHIFT + d.fract) * 2 ^ d.exp
Ulp(d) == IF d.exp = 0 THEN 2 ELSE 2 ^ d.exp
UnitBits == EXP_BIAS + EXP_SHIFT

\* The text as a fraction of integers.
Scale(t) == Len(t.fraction) - (IF t.exponent = NoExponent THEN 0 ELSE t.exponent)
Numerator(t) == DigitsValue(t.whole \o t.fraction) * 10 ^ BiggerOf(-Scale(t), 0)
Denominator(t) == 10 ^ BiggerOf(Scale(t), 0)
Excess(t, d) == (Numerator(t) * 2 ^ UnitBits) - (Units(d) * Denominator(t))

\* The text lies between the halfways to the neighbours; below a power of two
\* the neighbour is half as far.
TextOfDouble(t, d) ==
  LET below == Excess(t, d) < 0
      far == IF below /\ d.fract = 0 /\ d.exp > 1 THEN 4 ELSE 2
  IN far * (IF below THEN -Excess(t, d) ELSE Excess(t, d)) <= Ulp(d) * Denominator(t)

\* A text without exponent is read as the number it was made from, unless that
\* is negative, or a power of two whose text is just below it: rounding up
\* carries into the highest bit of the fraction, not into the exponent.
ReadAs(t, d) ==
  IF d.fract = 0 /\ Excess(t, d) < 0 THEN [d EXCEPT !.fract = 2 ^ (EXP_SHIFT - 1)] ELSE d

DoubleExact(t, d) ==
  t.word = "" =>
    /\ TextOfDouble(t, d)
    /\ t.exponent = NoExponent =>
         \A read \in {Floating(t)} : IF d.negative THEN read # d ELSE read = ReadAs(t, d)

\* A fixed number of digits: the shortest text's number, half up at the last
\* digit kept; no text at all for a number below 0.1 that does not round to it.
FixedExact(t, d, precision) ==
  LET small == 10 * Numerator(t) < Denominator(t)
      rounded == ((2 * Numerator(t) * 10 ^ precision) + Denominator(t)) \div (2 * Denominator(t))
  IN \A f \in {Fixed(d, precision)} :
       IF small /\ 10 * rounded < 10 ^ precision THEN f.word = "out of bounds"
       ELSE /\ f.word = "" /\ f.negative = d.negative /\ f.whole # <<>> /\ Len(f.fraction) = precision
            /\ DigitsValue(f.whole \o f.fraction) = rounded

\* Every QWORD is read back from its text, without a sign and with one; the
\* smallest number with a sign has lost its digits.
IntegerExact(x) ==
  /\ Integer(StringifyQword(x, FALSE)) = x
  /\ Integer(StringifyQword(x, TRUE)) = IF x = QwordRange \div 2 THEN 0 ELSE x

NumberExact(x) ==
  LET d == Double(x \div 2 ^ (EXP_SHIFT + ExpBits) = 1, (x \div 2 ^ EXP_SHIFT) % 2 ^ ExpBits,
                  x % 2 ^ EXP_SHIFT)
  IN /\ \A t \in {StringifyDouble(d)} :
          /\ DoubleExact(t, d)
          /\ Special(d) = {} => \A precision \in 0 .. 2 : FixedExact(t, d, precision)
     /\ x < QwordRange => IntegerExact(x)
=============================================================================
