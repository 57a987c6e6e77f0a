--------------------------- MODULE MCReentrantLock ---------------------------
(* ReentrantLock on small sets of threads; threads are interchangeable. *)
EXTENDS ReentrantLock, TLC

Symmetry == Permutations(Threads)
===============================================================================
