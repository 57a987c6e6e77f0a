---------------------------- MODULE MessageChannel ----------------------------
(***************************************************************************)
(* What a WebSocket connection promises its two applications: the messages *)
(* one receives are those the other sent, whole, in order and at most      *)
(* once; the connection may break and lose the rest.                       *)
(***************************************************************************)
EXTENDS Naturals, Sequences

VARIABLES sent, delivered

Init == sent = <<>> /\ delivered = <<>>

Send ==
  /\ Len(sent') = Len(sent) + 1
  /\ SubSeq(sent', 1, Len(sent)) = sent
  /\ UNCHANGED delivered

Deliver ==
  /\ Len(delivered) < Len(sent)
  /\ delivered' = Append(delivered, sent[Len(delivered) + 1])
  /\ UNCHANGED sent

Spec == Init /\ [][Send \/ Deliver]_<<sent, delivered>>
===============================================================================
