----------------------------- MODULE Polynomials -----------------------------
(* Polynomials over GF(2) as the sets of their exponents, and so the words of  *)
(* the source as the sets of the positions of their ones: `^` is Plus, a shift *)
(* changes the exponents.                                                      *)
EXTENDS Integers

Plus(p, q) == (p \ q) \cup (q \ p)
BitsOf(x) == {e \in 0 .. 30 : (x \div 2 ^ e) % 2 = 1}

\* The remainder by a divisor of the given degree, by long division.
RECURSIVE Remainder(_, _, _)
Remainder(p, divisor, degree) ==
  LET high == {e \in p : e >= degree}
  IN IF high = {} THEN p
     ELSE LET e == CHOOSE e \in high : \A f \in high : f <= e
          IN Remainder(Plus(p, {d + e - degree : d \in divisor}), divisor, degree)
=============================================================================
