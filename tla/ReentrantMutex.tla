---------------------------- MODULE ReentrantMutex ----------------------------
(***************************************************************************)
(* What Concurrency::ReentrantLock promises its callers: a mutual          *)
(* exclusion lock that its owner may take again, up to MaxDepth times, and *)
(* that becomes free with the owner's last release.  Acquiring and         *)
(* releasing are single steps here; module ReentrantLock shows the steps   *)
(* the code takes and implements this specification.                       *)
(***************************************************************************)
EXTENDS Naturals

CONSTANTS
  Threads,   \* thread identifiers
  None,      \* the owner of a free lock
  MaxDepth   \* how deep a thread nests its acquisitions

VARIABLES
  owner,     \* the thread that holds the lock, or None
  depth      \* how many times it holds it

vars == <<owner, depth>>

TypeOK ==
  /\ owner \in Threads \cup {None}
  /\ depth \in 0 .. MaxDepth

Init == owner = None /\ depth = 0

Acquire(t) ==
  /\ owner \in {None, t}
  /\ depth < MaxDepth
  /\ owner' = t
  /\ depth' = depth + 1

Release(t) ==
  /\ owner = t
  /\ depth' = depth - 1
  /\ owner' = IF depth = 1 THEN None ELSE t

Next == \E t \in Threads : Acquire(t) \/ Release(t)

Spec == Init /\ [][Next]_vars
===============================================================================
