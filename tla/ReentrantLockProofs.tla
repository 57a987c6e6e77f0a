-------------------------- MODULE ReentrantLockProofs --------------------------
(***************************************************************************)
(* Proofs about ReentrantLock, for any set of threads, any width of the    *)
(* count and any nesting depth that fits it.  Threads are assumed not to   *)
(* exit while they hold the lock.                                          *)
(***************************************************************************)
EXTENDS ReentrantLock, TLAPS

\* The invariant holds initially: nobody counts, nobody owns, nothing held.
LEMMA LockInit == Init => LockInv
  BY LockAssumption
  DEF Init, LockInv, TypeOK, Ownership, Progression, Answers, Counting,
      Wrapped, Free, Word, Locations, Results

\* Every call leaves the word alone and starts an operation of its thread.
LEMMA CallInv ==
  ASSUME LockInv, NEW t \in Threads, Call(t)
  PROVE  LockInv'
<1> USE LockAssumption
    DEF LockInv, TypeOK, Ownership, Progression, Answers, Counting, Wrapped,
        Word, Locations, Results, Begin, Goto, Return
<1>1. CASE CallLock(t)
  BY <1>1 DEF CallLock
<1>2. CASE CallTry(t)
  BY <1>2 DEF CallTry
<1>3. CASE CallUnlock(t)
  BY <1>3 DEF CallUnlock
<1>4. CASE CallCount(t)
  BY <1>4 DEF CallCount
<1> QED
  BY <1>1, <1>2, <1>3, <1>4 DEF Call

\* Every step of an operation preserves the invariant.
LEMMA StepInv ==
  ASSUME LockInv, NEW t \in Threads, Step(t)
  PROVE  LockInv'
<1> USE LockAssumption
    DEF LockInv, TypeOK, Ownership, Progression, Answers, Counting, Wrapped,
        Word, Locations, Results, Goto, Return
<1>1. CASE Swap(t)
  BY <1>1 DEF Swap
<1>2. CASE Refused(t)
  BY <1>2, SMTT(30) DEF Refused
<1>3. CASE Owned(t)
  BY <1>3 DEF Owned
<1>4. CASE LoadAdd(t)
  BY <1>4 DEF LoadAdd
<1>5. CASE StoreAdd(t)
  BY <1>5 DEF StoreAdd, Up
<1>6. CASE Belong(t)
  BY <1>6 DEF Belong
<1>7. CASE LoadSub(t)
  BY <1>7 DEF LoadSub
<1>8. CASE StoreSub(t)
  BY <1>8 DEF StoreSub, Down
<1>9. CASE Test(t)
  BY <1>9 DEF Test
<1>10. CASE Reset(t)
  BY <1>10 DEF Reset, Free
<1>11. CASE Mine(t)
  BY <1>11 DEF Mine
<1>12. CASE ReadCount(t)
  BY <1>12 DEF ReadCount
<1> QED
  BY <1>1, <1>2, <1>3, <1>4, <1>5, <1>6, <1>7, <1>8, <1>9, <1>10, <1>11,
     <1>12 DEF Step

\* A thread that exits holds nothing, and its identifier comes back unused.
LEMMA ThreadInv ==
  ASSUME Abandon = FALSE, LockInv, NEW t \in Threads, Exit(t) \/ Reuse(t)
  PROVE  LockInv'
<1> USE LockAssumption
    DEF LockInv, TypeOK, Ownership, Progression, Answers, Counting, Wrapped,
        Word, Locations, Results, Goto, Return
<1>1. CASE Exit(t)
  BY <1>1 DEF Exit
<1>2. CASE Reuse(t)
  BY <1>2 DEF Reuse
<1> QED
  BY <1>1, <1>2

LEMMA StutterInv ==
  ASSUME LockInv, UNCHANGED vars
  PROVE  LockInv'
  BY DEF LockInv, TypeOK, Ownership, Progression, Answers, Counting, vars

\* The word, the threads' places in the code and their acquisitions agree in
\* every reachable state: all steps of ReentrantLock.cpp preserve LockInv.
THEOREM LockInvariance ==
  ASSUME Abandon = FALSE
  PROVE  Spec => []LockInv
<1>1. Init => LockInv
  BY LockInit
<1>2. LockInv /\ [Next]_vars => LockInv'
  <2> SUFFICES ASSUME LockInv, [Next]_vars
               PROVE  LockInv'
    OBVIOUS
  <2>1. CASE UNCHANGED vars
    BY <2>1, StutterInv
  <2>2. CASE Next
    <3> PICK t \in Threads : Call(t) \/ Step(t) \/ Exit(t) \/ Reuse(t)
      BY <2>2 DEF Next
    <3> QED
      BY CallInv, StepInv, ThreadInv
  <2> QED
    BY <2>1, <2>2
<1> QED
  BY <1>1, <1>2, PTL DEF Spec

-------------------------------------------------------------------------------
\* The word and every thread's locals keep their types.
THEOREM TypeCorrect ==
  ASSUME Abandon = FALSE
  PROVE  Spec => []TypeOK
<1>1. LockInv => TypeOK
  BY DEF LockInv
<1> QED
  BY <1>1, LockInvariance, PTL

\* No two threads hold the lock at once: operator+ and operator-- exclude,
\* although they update the count without an atomic instruction.
THEOREM Exclusion ==
  ASSUME Abandon = FALSE
  PROVE  Spec => []MutualExclusion
<1>1. LockInv => MutualExclusion
  BY LockAssumption DEF LockInv, TypeOK, Ownership, MutualExclusion, Word
<1> QED
  BY <1>1, LockInvariance, PTL

\* operator DWORD tells a thread its own number of acquisitions, provided the
\* count of the deepest nesting still fits the high half of the word.
THEOREM CountCorrect ==
  ASSUME Abandon = FALSE, MaxDepth < Modulus
  PROVE  Spec => []CountIsHeld
<1>1. LockInv => CountIsHeld
  BY LockAssumption DEF LockInv, TypeOK, Answers, CountIsHeld, Wrapped
<1> QED
  BY <1>1, LockInvariance, PTL

\* The lock goes from its owner to nobody, and only with the last release.
THEOREM OwnerKeeps ==
  ASSUME Abandon = FALSE
  PROVE  Spec => OwnerKept
<1> DEFINE Kept ==
      exclusive.low # None /\ exclusive'.low # exclusive.low =>
        exclusive'.low = None /\ held[exclusive.low] = 0
<1>1. LockInv /\ [Next]_vars => [Kept]_vars
  <2> SUFFICES ASSUME LockInv, NEW t \in Threads,
                      Call(t) \/ Step(t) \/ Exit(t) \/ Reuse(t)
               PROVE  Kept
    BY DEF Next
  <2> USE LockAssumption DEF LockInv, TypeOK, Word, Ownership, Progression
  <2>1. CASE Call(t)
    BY <2>1 DEF Call, CallLock, CallTry, CallUnlock, CallCount, Begin
  <2>2. CASE Exit(t) \/ Reuse(t)
    BY <2>2 DEF Exit, Reuse
  <2>3. CASE Swap(t)
    BY <2>3 DEF Swap
  <2>4. CASE StoreAdd(t)
    BY <2>4 DEF StoreAdd, Goto
  <2>5. CASE StoreSub(t)
    BY <2>5 DEF StoreSub, Goto
  <2>6. CASE Reset(t)
    BY <2>6 DEF Reset, Goto, Free, Counting
  <2>7. CASE UNCHANGED exclusive
    BY <2>7
  <2> QED
    BY <2>1, <2>2, <2>3, <2>4, <2>5, <2>6, <2>7
    DEF Step, Refused, Owned, LoadAdd, Belong, LoadSub, Test, Mine, ReadCount
<1> QED
  BY <1>1, LockInvariance, PTL DEF Spec, OwnerKept

\* operator-- throws ERRNO_LOCK_BELONG exactly at the threads that hold nothing.
THEOREM UnlockAnswers ==
  ASSUME Abandon = FALSE
  PROVE  Spec => ThrownIffNotHeld
<1> DEFINE Answered ==
      \A t \in Threads :
        pc[t] = "belong" /\ pc'[t] # "belong" =>
          (result'[t] = Thrown <=> held[t] = 0)
<1>1. LockInv /\ [Next]_vars => [Answered]_vars
  <2> SUFFICES ASSUME LockInv, NEW s \in Threads,
                      Call(s) \/ Step(s) \/ Exit(s) \/ Reuse(s),
                      NEW t \in Threads, pc[t] = "belong", pc'[t] # "belong"
               PROVE  result'[t] = Thrown <=> held[t] = 0
    BY DEF Next
  <2> USE LockAssumption DEF LockInv, TypeOK
  <2>1. Belong(s) /\ s = t
    BY DEF Call, CallLock, CallTry, CallUnlock, CallCount, Begin, Exit, Reuse,
           Step, Swap, Refused, Owned, LoadAdd, StoreAdd, LoadSub, StoreSub,
           Test, Reset, Mine, ReadCount, Belong, Goto
  <2>2. exclusive.low = t <=> held[t] > 0
    BY DEF Ownership
  <2> QED
    BY <2>1, <2>2 DEF Belong, Goto, Return, Answers
<1> QED
  BY <1>1, LockInvariance, PTL DEF Spec, ThrownIffNotHeld

-------------------------------------------------------------------------------
(***************************************************************************)
(* The refinement: StoreAdd is Acquire, StoreSub is Release, and every     *)
(* other step leaves the owner and the depth that Mutex sees as they are.  *)
(***************************************************************************)
LEMMA AcquireStep ==
  ASSUME MaxDepth < Modulus, LockInv, NEW t \in Threads, StoreAdd(t)
  PROVE  Mutex!Acquire(t)
<1> USE LockAssumption DEF LockInv, TypeOK, Word
<1>1. exclusive.low = t /\ reg[t] = exclusive /\ held[t] < MaxDepth
  BY DEF StoreAdd, Goto, Ownership, Progression, Counting
<1>2. exclusive.high = held[t]
  BY <1>1 DEF Ownership, Wrapped
<1>3. exclusive' = [exclusive EXCEPT !.high = exclusive.high + 1]
  BY <1>1, <1>2 DEF StoreAdd, Up
<1> QED
  BY <1>1, <1>2, <1>3 DEF Mutex!Acquire

LEMMA ReleaseStep ==
  ASSUME MaxDepth < Modulus, LockInv, NEW t \in Threads, StoreSub(t)
  PROVE  Mutex!Release(t)
<1> USE LockAssumption DEF LockInv, TypeOK, Word
<1>1. exclusive.low = t /\ reg[t] = exclusive /\ held[t] > 0
  BY DEF StoreSub, Goto, Ownership, Progression, Counting
<1>2. exclusive.high = held[t]
  BY <1>1 DEF Ownership, Wrapped
<1>3. exclusive' = [exclusive EXCEPT !.high = exclusive.high - 1]
  BY <1>1, <1>2 DEF StoreSub, Down
<1> QED
  BY <1>1, <1>2, <1>3 DEF Mutex!Release

\* ReentrantLock.cpp implements the atomic reentrant mutex, for every number of
\* threads, as long as the count of the deepest nesting fits the high half.
THEOREM Refinement ==
  ASSUME Abandon = FALSE, MaxDepth < Modulus
  PROVE  Spec => ImplementsMutex
<1>1. Init => Mutex!Init
  BY DEF Init, Free, Mutex!Init
<1>2. LockInv /\ [Next]_vars => [Mutex!Next]_(Mutex!vars)
  <2> SUFFICES ASSUME LockInv, [Next]_vars
               PROVE  Mutex!Next \/ UNCHANGED Mutex!vars
    OBVIOUS
  <2> USE LockAssumption DEF LockInv, TypeOK, Word
  <2>1. CASE UNCHANGED exclusive
    BY <2>1 DEF Mutex!vars
  <2>2. ASSUME NEW t \in Threads, Swap(t)
        PROVE  UNCHANGED Mutex!vars
    BY <2>2 DEF Swap, Ownership, Mutex!vars
  <2>3. ASSUME NEW t \in Threads, Reset(t)
        PROVE  UNCHANGED Mutex!vars
    <3>1. exclusive.low = t /\ held[t] = 0
      BY <2>3 DEF Reset, Goto, Ownership, Progression, Counting
    <3>2. exclusive.high = 0
      BY <3>1 DEF Ownership, Wrapped
    <3> QED
      BY <2>3, <3>2 DEF Reset, Free, Mutex!vars
  <2>4. ASSUME NEW t \in Threads, StoreAdd(t) \/ StoreSub(t)
        PROVE  Mutex!Next
    BY <2>4, AcquireStep, ReleaseStep DEF Mutex!Next
  <2> QED
    BY <2>1, <2>2, <2>3, <2>4
    DEF Next, vars, Call, CallLock, CallTry, CallUnlock, CallCount, Begin,
        Exit, Reuse, Step, Refused, Owned, LoadAdd, Belong, LoadSub, Test,
        Mine, ReadCount
<1> QED
  BY <1>1, <1>2, LockInvariance, PTL DEF Spec, ImplementsMutex, Mutex!Spec

===============================================================================
