----------------------------- MODULE SlidingWindow -----------------------------
(***************************************************************************)
(* What a Brotli stream tells a decoder to do (RFC 7932 section 2): append *)
(* a literal, repeat what it wrote `distance` bytes ago, which may reach   *)
(* into the bytes being written, or append a word of the dictionary.  Of   *)
(* a stream that has turned out invalid it tells nothing.                  *)
(***************************************************************************)
EXTENDS Naturals, Sequences

CONSTANTS Byte,    \* values of a byte
          Windows, \* the sizes a window may have
          Words    \* what the dictionary can append

VARIABLES written, \* the bytes so far
          window,  \* how far back a copy may reach
          valid    \* nothing was read that makes the stream invalid

Init == written = <<>> /\ window \in Windows /\ valid = TRUE

(* The last `distance` bytes, repeated to `length` bytes. *)
Repeated(distance, length) ==
  [k \in 1 .. length |-> written[Len(written) - distance + 1 + ((k - 1) % distance)]]

Stored(bytes) == valid /\ valid' = TRUE /\ written' = written \o bytes /\ UNCHANGED window

Copied ==
  \E distance \in 1 .. Len(written) :
    /\ distance <= window
    /\ Len(written') >= Len(written)
    /\ Stored(Repeated(distance, Len(written') - Len(written)))

(* The stream is invalid now, or was before. *)
Invalid == valid' = FALSE /\ UNCHANGED window

Next == \/ \E byte \in Byte : Stored(<<byte>>)
        \/ Copied
        \/ \E word \in Words : Stored(word)
        \/ Invalid

Spec == Init /\ [][Next]_<<written, window, valid>>
=============================================================================
