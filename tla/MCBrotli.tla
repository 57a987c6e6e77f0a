------------------------------- MODULE MCBrotli -------------------------------
(* A window of two bytes, and a dictionary of two words of four letters and one *)
(* word of each greater length; some characters have two or three bytes.         *)
EXTENDS Brotli

MCNDBITS == [n \in 4 .. 24 |-> IF n = 4 THEN 1 ELSE 0]
MCDICT == [k \in 1 .. 298 |-> IF k % 13 = 6 THEN 195 ELSE IF k % 13 = 0 THEN 227 ELSE 97 + (k % 13)]
MCtransformation == << [prefix |-> <<>>, kind |-> 0, suffix |-> <<>>],
                       [prefix |-> <<32>>, kind |-> 4, suffix |-> <<>>],
                       [prefix |-> <<>>, kind |-> 1, suffix |-> <<>>],
                       [prefix |-> <<>>, kind |-> 2, suffix |-> <<>>],
                       [prefix |-> <<>>, kind |-> 20, suffix |-> <<32>>] >>
MCFormats == {<<0, 0>>, <<1, 1>>}
=============================================================================
