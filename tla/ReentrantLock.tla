---------------------------- MODULE ReentrantLock ----------------------------
(***************************************************************************)
(* Concurrency::ReentrantLock (Concurrency/src/ReentrantLock.cpp): one     *)
(* 64-bit word, the owner's thread identifier in the low half and the hold *)
(* count in the high half.  Only the low half is ever compared-and-swapped;*)
(* the count is a plain load and store, so every access to the word is a   *)
(* step of its own here and the steps of all threads interleave.           *)
(*                                                                         *)
(* A thread calls lock (spins), trylock (operator+), unlock and the hold   *)
(* count query (operator DWORD), in any order, whether it holds the lock   *)
(* or not; it may also exit, and the system may later hand its identifier  *)
(* to a new thread.                                                        *)
(***************************************************************************)
EXTENDS Naturals

CONSTANTS
  Threads,   \* thread identifiers of the operating system, all non-zero
  None,      \* 0, the identifier no thread has
  Thrown,    \* the result of an operation that throws ERRNO_LOCK_BELONG
  Modulus,   \* values of the high half of the word: 2^32 in the code
  MaxDepth,  \* bound: how deep a thread nests its acquisitions
  Abandon    \* whether a thread may exit while it holds the lock

ASSUME LockAssumption ==
  /\ None \notin Threads
  /\ Thrown # None
  /\ Modulus \in Nat \ {0, 1}
  /\ MaxDepth \in 1 .. Modulus
  /\ Abandon \in BOOLEAN

VARIABLES
  exclusive, \* the word: [low, high]
  pc,        \* where each thread is in the code
  op,        \* which operation it runs: "lock", "try", "unlock", "count"
  reg,       \* the word a thread has loaded and not yet stored
  result,    \* what its last operation returned, None until it has
  held       \* history: acquisitions minus releases of the running thread

vars == <<exclusive, pc, op, reg, result, held>>

Word == [low : Threads \cup {None}, high : 0 .. Modulus - 1]
Locations == {"gone", "idle", "swap", "check", "load_add", "store_add",
              "belong", "load_sub", "store_sub", "test", "reset",
              "mine", "read"}
Results == {None, Thrown} \cup (0 .. Modulus - 1)   \* false is 0, true is 1

(***************************************************************************)
(* Arithmetic on the high half: adding and subtracting 1ULL << 32 wraps.   *)
(***************************************************************************)
Up(high) == IF high = Modulus - 1 THEN 0 ELSE high + 1
Down(high) == IF high = 0 THEN Modulus - 1 ELSE high - 1

Free == [low |-> None, high |-> 0]

Goto(t, from, to) ==
  /\ pc[t] = from
  /\ pc' = [pc EXCEPT ![t] = to]

Return(t, value) == result' = [result EXCEPT ![t] = value]

Init ==
  /\ exclusive = Free
  /\ pc = [t \in Threads |-> "idle"]
  /\ op = [t \in Threads |-> "lock"]
  /\ reg = [t \in Threads |-> Free]
  /\ result = [t \in Threads |-> None]
  /\ held = [t \in Threads |-> 0]

-------------------------------------------------------------------------------
(***************************************************************************)
(* Faulty variants of the operations below, each the kind of mistake the   *)
(* properties at the end of the module are there to catch.                 *)
(***************************************************************************)
Swap_PlainStore(t) ==            \* a store instead of compare-and-swap
  /\ Goto(t, "swap", "check")
  /\ exclusive' = [exclusive EXCEPT !.low = t]
  /\ UNCHANGED <<op, reg, result, held>>

Refused_WaitsWithoutSwap(t) ==   \* lock() spins on the word without swapping
  /\ exclusive.low # t
  /\ pc[t] = "check"
  /\ IF op[t] = "lock"
     THEN UNCHANGED <<pc, result>>
     ELSE Goto(t, "check", "idle") /\ Return(t, 0)
  /\ UNCHANGED <<exclusive, op, reg, held>>

Belong_Unchecked(t) ==           \* operator-- without the owner test
  /\ Goto(t, "belong", "load_sub")
  /\ UNCHANGED <<exclusive, op, reg, result, held>>

Test_KeepsOwner(t) ==            \* the word is not cleared at count zero
  /\ Goto(t, "test", "idle")
  /\ UNCHANGED <<exclusive, op, reg, result, held>>

Mine_Unchecked(t) ==             \* operator DWORD without operator bool
  /\ Goto(t, "mine", "read")
  /\ UNCHANGED <<exclusive, op, reg, result, held>>

ReadCount_LowHalf(t) ==          \* the shift by 32 is missing
  /\ Goto(t, "read", "idle")
  /\ Return(t, exclusive.low)
  /\ UNCHANGED <<exclusive, op, reg, held>>

-------------------------------------------------------------------------------
(***************************************************************************)
(* The calls.  The thread's own code decides which operation it starts;    *)
(* MaxDepth bounds how often it locks without unlocking.                   *)
(***************************************************************************)
Begin(t, o, location) ==
  /\ Goto(t, "idle", location)
  /\ op' = [op EXCEPT ![t] = o]
  /\ Return(t, None)
  /\ UNCHANGED <<exclusive, reg, held>>

CallLock(t) == held[t] < MaxDepth /\ Begin(t, "lock", "swap")
CallTry(t) == held[t] < MaxDepth /\ Begin(t, "try", "swap")
CallUnlock(t) == Begin(t, "unlock", "belong")
CallCount(t) == Begin(t, "count", "mine")

(***************************************************************************)
(* operator+ : compare-and-swap of the low half, then look at who owns it. *)
(***************************************************************************)
Swap(t) ==
  /\ Goto(t, "swap", "check")
  /\ exclusive' = IF exclusive.low = None
                  THEN [exclusive EXCEPT !.low = t] ELSE exclusive
  /\ UNCHANGED <<op, reg, result, held>>

\* Another owner: operator+ returns false, and lock() calls sleep(0) and spins.
Refused(t) ==
  /\ exclusive.low # t
  /\ \/ /\ op[t] = "lock"
        /\ Goto(t, "check", "swap")
        /\ UNCHANGED result
     \/ /\ op[t] = "try"
        /\ Goto(t, "check", "idle")
        /\ Return(t, 0)
  /\ UNCHANGED <<exclusive, op, reg, held>>

Owned(t) ==
  /\ exclusive.low = t
  /\ Goto(t, "check", "load_add")
  /\ UNCHANGED <<exclusive, op, reg, result, held>>

\* exclusive += 1ULL << 32, a load and a store of the whole word.
LoadAdd(t) ==
  /\ Goto(t, "load_add", "store_add")
  /\ reg' = [reg EXCEPT ![t] = exclusive]
  /\ UNCHANGED <<exclusive, op, result, held>>

StoreAdd(t) ==
  /\ Goto(t, "store_add", "idle")
  /\ exclusive' = [reg[t] EXCEPT !.high = Up(@)]
  /\ held' = [held EXCEPT ![t] = @ + 1]
  /\ Return(t, 1)
  /\ UNCHANGED <<op, reg>>

(***************************************************************************)
(* operator-- : refuse a caller that is not the owner, subtract one, and   *)
(* clear the word when the count has come down to zero.                    *)
(***************************************************************************)
Belong(t) ==
  /\ \/ /\ exclusive.low # t
        /\ Goto(t, "belong", "idle")
        /\ Return(t, Thrown)
     \/ /\ exclusive.low = t
        /\ Goto(t, "belong", "load_sub")
        /\ UNCHANGED result
  /\ UNCHANGED <<exclusive, op, reg, held>>

LoadSub(t) ==
  /\ Goto(t, "load_sub", "store_sub")
  /\ reg' = [reg EXCEPT ![t] = exclusive]
  /\ UNCHANGED <<exclusive, op, result, held>>

StoreSub(t) ==
  /\ Goto(t, "store_sub", "test")
  /\ exclusive' = [reg[t] EXCEPT !.high = Down(@)]
  /\ held' = [held EXCEPT ![t] = IF @ = 0 THEN 0 ELSE @ - 1]
  /\ UNCHANGED <<op, reg, result>>

Test(t) ==
  /\ \/ /\ exclusive.high = 0
        /\ Goto(t, "test", "reset")
     \/ /\ exclusive.high # 0
        /\ Goto(t, "test", "idle")
  /\ UNCHANGED <<exclusive, op, reg, result, held>>

Reset(t) ==
  /\ Goto(t, "reset", "idle")
  /\ exclusive' = Free
  /\ UNCHANGED <<op, reg, result, held>>

(***************************************************************************)
(* operator DWORD : operator bool reads the low half, then the high half   *)
(* is read.                                                                *)
(***************************************************************************)
Mine(t) ==
  /\ \/ /\ exclusive.low # t
        /\ Goto(t, "mine", "idle")
        /\ Return(t, 0)
     \/ /\ exclusive.low = t
        /\ Goto(t, "mine", "read")
        /\ UNCHANGED result
  /\ UNCHANGED <<exclusive, op, reg, held>>

ReadCount(t) ==
  /\ Goto(t, "read", "idle")
  /\ Return(t, exclusive.high)
  /\ UNCHANGED <<exclusive, op, reg, held>>

(***************************************************************************)
(* The operating system: a thread ends between two operations, and its     *)
(* identifier is given to a new thread.  Nothing in the lock notices.      *)
(***************************************************************************)
Exit(t) ==
  /\ held[t] = 0 \/ Abandon
  /\ Goto(t, "idle", "gone")
  /\ held' = [held EXCEPT ![t] = 0]
  /\ Return(t, None)
  /\ UNCHANGED <<exclusive, op, reg>>

Reuse(t) ==
  /\ Goto(t, "gone", "idle")
  /\ UNCHANGED <<exclusive, op, reg, result, held>>

Step(t) ==
  \/ Swap(t) \/ Refused(t) \/ Owned(t) \/ LoadAdd(t) \/ StoreAdd(t)
  \/ Belong(t) \/ LoadSub(t) \/ StoreSub(t) \/ Test(t) \/ Reset(t)
  \/ Mine(t) \/ ReadCount(t)

Call(t) == CallLock(t) \/ CallTry(t) \/ CallUnlock(t) \/ CallCount(t)

Next == \E t \in Threads : Call(t) \/ Step(t) \/ Exit(t) \/ Reuse(t)

Spec == Init /\ [][Next]_vars

(***************************************************************************)
(* Fairness: the scheduler eventually runs every thread that is inside an  *)
(* operation; sleep(0) gives the processor to any ready thread.            *)
(***************************************************************************)
FairSpec == Spec /\ \A t \in Threads : WF_vars(Step(t))

-------------------------------------------------------------------------------
(***************************************************************************)
(* Properties.                                                             *)
(***************************************************************************)
TypeOK ==
  /\ exclusive \in Word
  /\ pc \in [Threads -> Locations]
  /\ op \in [Threads -> {"lock", "try", "unlock", "count"}]
  /\ reg \in [Threads -> Word]
  /\ result \in [Threads -> Results]
  /\ held \in [Threads -> 0 .. MaxDepth]

\* Two threads never hold the lock at once, whatever they call, and although
\* the count is read and written without an atomic instruction.
MutualExclusion ==
  \A s, t \in Threads : held[s] > 0 /\ held[t] > 0 => s = t

\* The lock never passes from one thread to another, and its owner loses it
\* only after it has given back every acquisition.
OwnerKept ==
  [][exclusive.low # None /\ exclusive'.low # exclusive.low =>
       exclusive'.low = None /\ held[exclusive.low] = 0]_vars

\* operator DWORD answers a thread with the number of its own acquisitions,
\* however the other threads' operations fall between its two reads.
CountIsHeld ==
  \A t \in Threads :
    op[t] = "count" /\ result[t] # None => result[t] = held[t]

\* operator-- throws exactly for the threads that hold nothing.
ThrownIffNotHeld ==
  [][\A t \in Threads :
       pc[t] = "belong" /\ pc'[t] # "belong" =>
         (result'[t] = Thrown <=> held[t] = 0)]_vars

\* A lock whose owner has exited stays as it is until the identifier is
\* given to a new thread: nobody else can take it or release it.
OrphanStaysLocked ==
  [][exclusive.low # None /\ pc[exclusive.low] = "gone" =>
       UNCHANGED exclusive]_vars

\* A free lock that a thread waits for in lock() is taken by some thread:
\* spinning threads never keep each other from it for ever.
FreeLockIsTaken ==
  \A t \in Threads :
    op[t] = "lock" /\ pc[t] \in {"swap", "check"} /\ exclusive.low = None
      ~> exclusive.low # None

(***************************************************************************)
(* The inductive invariant behind these: whoever has anything to do with   *)
(* the count owns the low half, the count is that owner's acquisitions (it *)
(* wraps to 0 at the Modulus-th), and a word about to be stored is still   *)
(* the word in memory.                                                     *)
(***************************************************************************)
Counting(t) == pc[t] \in {"load_add", "store_add", "load_sub", "store_sub",
                          "test", "reset", "read"}
Wrapped(n) == IF n = Modulus THEN 0 ELSE n

Ownership ==
  /\ exclusive.low = None => exclusive.high = 0
  /\ \A t \in Threads :
       /\ held[t] > 0 \/ Counting(t) => exclusive.low = t
       /\ exclusive.low = t => exclusive.high = Wrapped(held[t])
       /\ exclusive.low = t /\ held[t] = 0 =>
            pc[t] \in {"check", "load_add", "store_add", "test", "reset"}

Progression ==
  \A t \in Threads :
    /\ pc[t] \in {"store_add", "store_sub"} => reg[t] = exclusive
    /\ pc[t] \in {"swap", "check", "load_add", "store_add"} =>
         held[t] < MaxDepth
    /\ pc[t] \in {"load_sub", "store_sub", "read"} => held[t] > 0
    /\ pc[t] = "test" => held[t] < MaxDepth
    /\ pc[t] \in {"reset", "gone"} => held[t] = 0

Answers ==
  \A t \in Threads :
    /\ op[t] = "count" =>
         /\ pc[t] \in {"idle", "gone", "mine", "read"}
         /\ result[t] # None => pc[t] = "idle" /\ result[t] = Wrapped(held[t])
    /\ pc[t] = "belong" => result[t] = None

\* In every reachable state of threads that do not exit holding the lock, the
\* word, the threads' places in the code and their acquisitions agree.
LockInv == TypeOK /\ Ownership /\ Progression /\ Answers

(***************************************************************************)
(* The lock implements ReentrantMutex.  An acquisition takes effect when   *)
(* the count is stored, a release when the count is stored as zero: a      *)
(* low half set under a zero count is nobody's lock yet, or any more.      *)
(***************************************************************************)
Mutex == INSTANCE ReentrantMutex WITH
  owner <- IF exclusive.high = 0 THEN None ELSE exclusive.low,
  depth <- exclusive.high

\* The steps of lock, trylock, unlock and the queries, interleaved, appear to
\* callers as the atomic Acquire and Release of ReentrantMutex.
ImplementsMutex == Mutex!Spec
===============================================================================
