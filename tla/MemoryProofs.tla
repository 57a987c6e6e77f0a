----------------------------- MODULE MemoryProofs -----------------------------
(* Proofs about src/Memory, for any values of the constants: the one-time      *)
(* initialisation of statics (any number of threads, statics and faults), the  *)
(* runtime's exit list, and C++ exceptions (any tables, stacks and throws).    *)
EXTENDS OnceInit, Runtime, FrameHandler, DataLemmas, FiniteSetTheorems, TLAPS

-----------------------------------------------------------------------------
(* One-time initialisation.                                                    *)

\* The value footer stores is neither 0 nor -1, and below both.
LEMMA EpochFact == Epoch \in Int /\ Epoch < Busy /\ Epoch < 0
  BY SMT DEF Epoch, Busy

\* Nothing is claimed, built or entered at the start.
LEMMA OnceInitially == Init => OnceInv
  BY OnceAssumption, EpochFact
  DEF Init, OnceInv, TypeOK, OneInitialiser, Initialising, Guarding, Building,
      Passing, NoLostWakeup, InSection, Publishing, Guards, Locations, Busy

\* A call starts outside the critical section with the first static.
LEMMA CallInv ==
  ASSUME OnceInv, NEW t \in Threads, Call(t)
  PROVE  OnceInv'
<1> USE OnceAssumption, EpochFact DEF OnceInv, TypeOK, Guards, Busy, Goto, Call
<1>1. TypeOK'
  BY DEF Locations, Building, OneInitialiser, Initialising, Guarding, Publishing
<1>2. OneInitialiser'
  BY DEF OneInitialiser, Initialising, Guarding
<1>3. Guarding'
  BY DEF Guarding, InSection, Initialising, OneInitialiser
<1>4. Building'
  BY DEF Building, Publishing, Guarding, Initialising, OneInitialiser
<1>5. Passing'
  BY DEF Passing, Guarding, Initialising
<1>6. NoLostWakeup'
  BY DEF NoLostWakeup, Guarding, Initialising
<1> QED
  BY <1>1, <1>2, <1>3, <1>4, <1>5, <1>6

\* Going on to the next static is right behind an initialised guard.
LEMMA AdvanceInv ==
  ASSUME OnceInv, NEW t \in Threads, NEW l \in {"test", "recheck"},
         once[cur[t]] = Epoch, Advance(t, l),
         UNCHANGED <<once, mutex, verdict, built, faults>>
  PROVE  OnceInv'
<1> USE OnceAssumption, EpochFact DEF OnceInv, TypeOK, Guards, Busy
<1>0. pc[t] \in {"test", "recheck"}
  BY DEF Advance, Goto
<1>1. CASE cur[t] = Statics
  <2>1. pc' = [pc EXCEPT ![t] = "use"] /\ cur' = cur
    BY <1>1 DEF Advance, Goto
  <2>2. TypeOK'
    BY <1>0, <1>1, <2>1 DEF Locations
  <2>3. OneInitialiser'
    BY <1>0, <1>1, <2>1 DEF OneInitialiser, Initialising, Guarding
  <2>4. Guarding'
    BY <1>0, <1>1, <2>1 DEF Guarding, InSection, Initialising, OneInitialiser
  <2>5. Building'
    BY <1>0, <1>1, <2>1 DEF Building, Publishing
  <2>6. Passing'
    BY <1>0, <1>1, <2>1 DEF Passing, Guarding
  <2>7. NoLostWakeup'
    BY <1>0, <1>1, <2>1 DEF NoLostWakeup, Guarding, InSection
  <2> QED
    BY <2>2, <2>3, <2>4, <2>5, <2>6, <2>7
<1>2. CASE cur[t] # Statics
  <2>1. /\ pc' = [pc EXCEPT ![t] = "test"]
        /\ cur' = [cur EXCEPT ![t] = cur[t] + 1]
        /\ cur[t] + 1 \in 1 .. Statics
    BY <1>2 DEF Advance, Goto
  <2>2. TypeOK'
    BY <1>0, <1>2, <2>1 DEF Locations
  <2>3. OneInitialiser'
    BY <1>0, <1>2, <2>1 DEF OneInitialiser, Initialising, Guarding
  <2>4. Guarding'
    BY <1>0, <1>2, <2>1 DEF Guarding, InSection, Initialising, OneInitialiser
  <2>5. Building'
    BY <1>0, <1>2, <2>1 DEF Building, Publishing
  <2>6. Passing'
    BY <1>0, <1>2, <2>1 DEF Passing, Guarding
  <2>7. NoLostWakeup'
    BY <1>0, <1>2, <2>1 DEF NoLostWakeup, Guarding, InSection
  <2> QED
    BY <2>2, <2>3, <2>4, <2>5, <2>6, <2>7
<1> QED
  BY <1>1, <1>2

\* The fast path skips only an initialised static.
LEMMA TestInv ==
  ASSUME OnceInv, NEW t \in Threads, Test(t)
  PROVE  OnceInv'
<1> USE OnceAssumption, EpochFact DEF OnceInv, TypeOK, Guards, Busy
<1>1. CASE once[cur[t]] > Epoch
  <2>1. /\ pc[t] = "test" /\ pc' = [pc EXCEPT ![t] = "enter"]
        /\ UNCHANGED <<once, mutex, cur, verdict, built, faults>>
    BY <1>1 DEF Test, Goto
  <2>2. TypeOK'
    BY <2>1 DEF Locations
  <2>3. OneInitialiser'
    BY <2>1 DEF OneInitialiser, Initialising, Guarding
  <2>4. Guarding'
    BY <2>1 DEF Guarding, InSection, Initialising, OneInitialiser
  <2>5. Building'
    BY <2>1 DEF Building, Publishing
  <2>6. Passing'
    BY <2>1 DEF Passing, Guarding
  <2>7. NoLostWakeup'
    BY <2>1 DEF NoLostWakeup, Guarding, InSection
  <2> QED
    BY <2>2, <2>3, <2>4, <2>5, <2>6, <2>7
<1>2. CASE ~ (once[cur[t]] > Epoch)
  BY <1>2, AdvanceInv DEF Test
<1> QED
  BY <1>1, <1>2

\* After the header a thread initialises what it has claimed, or goes on.
LEMMA RecheckInv ==
  ASSUME OnceInv, NEW t \in Threads, Recheck(t)
  PROVE  OnceInv'
<1> USE OnceAssumption, EpochFact DEF OnceInv, TypeOK, Guards, Busy
<1>1. CASE once[cur[t]] = Busy
  <2>1. /\ pc[t] = "recheck" /\ pc' = [pc EXCEPT ![t] = "construct"]
        /\ UNCHANGED <<once, mutex, cur, verdict, built, faults>>
    BY <1>1 DEF Recheck, Goto
  <2>2. TypeOK'
    BY <1>1, <2>1 DEF Locations
  <2>3. OneInitialiser'
    BY <1>1, <2>1 DEF OneInitialiser, Initialising, Guarding
  <2>4. Guarding'
    BY <1>1, <2>1 DEF Guarding, InSection, Initialising, OneInitialiser
  <2>5. Building'
    BY <1>1, <2>1 DEF Building, Publishing
  <2>6. Passing'
    BY <1>1, <2>1 DEF Passing, Guarding
  <2>7. NoLostWakeup'
    BY <1>1, <2>1 DEF NoLostWakeup, Guarding, InSection
  <2> QED
    BY <2>2, <2>3, <2>4, <2>5, <2>6, <2>7
<1>2. CASE once[cur[t]] # Busy
  <2>1. once[cur[t]] = Epoch
    BY <1>2 DEF Recheck, Advance, Goto, Guarding
  <2> QED
    BY <1>2, <2>1, AdvanceInv DEF Recheck
<1> QED
  BY <1>1, <1>2

\* Entering the header: the critical section was free.
LEMMA EnterInv ==
  ASSUME OnceInv, NEW t \in Threads, Enter(t)
  PROVE  OnceInv'
<1> USE OnceAssumption, EpochFact DEF OnceInv, TypeOK, Guards, Busy, Goto, Enter
<1>1. TypeOK'
  BY DEF Locations, Building, OneInitialiser, Initialising, Guarding, Publishing
<1>2. OneInitialiser'
  BY DEF OneInitialiser, Initialising, Guarding
<1>3. Guarding'
  BY DEF Guarding, InSection, Initialising, OneInitialiser
<1>4. Building'
  BY DEF Building, Publishing, Guarding, Initialising, OneInitialiser
<1>5. Passing'
  BY DEF Passing, Guarding, Initialising
<1>6. NoLostWakeup'
  BY DEF NoLostWakeup, Guarding, Initialising
<1> QED
  BY <1>1, <1>2, <1>3, <1>4, <1>5, <1>6

\* The header's loop: a claim of an unclaimed guard, a pass, or a sleep.
LEMMA LoopInv ==
  ASSUME OnceInv, NEW t \in Threads, Loop(t)
  PROVE  OnceInv'
<1> USE OnceAssumption, EpochFact DEF OnceInv, TypeOK, Guards, Busy
<1>0. pc[t] = "loop" /\ UNCHANGED <<cur, verdict, built, faults>>
  BY DEF Loop, Goto
<1>1. CASE once[cur[t]] = 0
  <2>1. /\ once' = [once EXCEPT ![cur[t]] = Busy]
        /\ pc' = [pc EXCEPT ![t] = "leave"]
        /\ mutex' = mutex
    BY <1>1 DEF Loop, Goto
  <2>2. TypeOK'
    BY <1>0, <1>1, <2>1 DEF Locations
  <2>3. OneInitialiser'
    BY <1>0, <1>1, <2>1 DEF OneInitialiser, Initialising, Guarding
  <2>4. Guarding'
    BY <1>0, <1>1, <2>1 DEF Guarding, InSection, Initialising, OneInitialiser
  <2>5. Building'
    BY <1>0, <1>1, <2>1 DEF Building, Publishing
  <2>6. Passing'
    BY <1>0, <1>1, <2>1 DEF Passing, Guarding
  <2>7. NoLostWakeup'
    BY <1>0, <1>1, <2>1 DEF NoLostWakeup, Guarding, InSection
  <2> QED
    BY <2>2, <2>3, <2>4, <2>5, <2>6, <2>7
<1>2. CASE once[cur[t]] = Epoch
  <2>1. /\ once' = once
        /\ pc' = [pc EXCEPT ![t] = "leave"]
        /\ mutex' = mutex
    BY <1>2 DEF Loop, Goto
  <2>2. TypeOK'
    BY <1>0, <1>2, <2>1 DEF Locations
  <2>3. OneInitialiser'
    BY <1>0, <1>2, <2>1 DEF OneInitialiser, Initialising, Guarding
  <2>4. Guarding'
    BY <1>0, <1>2, <2>1 DEF Guarding, InSection, Initialising, OneInitialiser
  <2>5. Building'
    BY <1>0, <1>2, <2>1 DEF Building, Publishing
  <2>6. Passing'
    BY <1>0, <1>2, <2>1 DEF Passing, Guarding
  <2>7. NoLostWakeup'
    BY <1>0, <1>2, <2>1 DEF NoLostWakeup, Guarding, InSection
  <2> QED
    BY <2>2, <2>3, <2>4, <2>5, <2>6, <2>7
<1>3. CASE once[cur[t]] = Busy
  <2>1. /\ once' = once
        /\ pc' = [pc EXCEPT ![t] = "asleep"]
        /\ mutex' = None
    BY <1>3 DEF Loop, Goto
  <2>2. TypeOK'
    BY <1>0, <1>3, <2>1 DEF Locations
  <2>3. OneInitialiser'
    BY <1>0, <1>3, <2>1 DEF OneInitialiser, Initialising, Guarding
  <2>4. Guarding'
    BY <1>0, <1>3, <2>1 DEF Guarding, InSection, Initialising, OneInitialiser
  <2>5. Building'
    BY <1>0, <1>3, <2>1 DEF Building, Publishing
  <2>6. Passing'
    BY <1>0, <1>3, <2>1 DEF Passing, Guarding
  <2>7. NoLostWakeup'
    BY <1>0, <1>3, <2>1 DEF NoLostWakeup, Guarding, InSection
  <2> QED
    BY <2>2, <2>3, <2>4, <2>5, <2>6, <2>7
<1> QED
  BY <1>1, <1>2, <1>3

\* The initialiser completes: nobody has built this static before.
LEMMA ConstructInv ==
  ASSUME OnceInv, NEW t \in Threads, Construct(t)
  PROVE  OnceInv'
<1> USE OnceAssumption, EpochFact
    DEF OnceInv, TypeOK, Guards, Busy, Goto, Construct
<1>1. built[cur[t]] = 0
  BY DEF Building, Publishing, OneInitialiser, Initialising, Guarding
<1>2. built' = [built EXCEPT ![cur[t]] = 1]
  BY <1>1
<1>3. TypeOK'
  BY <1>2 DEF Locations
<1>4. OneInitialiser' /\ Guarding'
  BY DEF OneInitialiser, Initialising, Guarding, InSection
<1>5. Building'
  BY <1>2 DEF Building, Publishing
<1>6. Passing' /\ NoLostWakeup'
  BY DEF Passing, NoLostWakeup
<1> QED
  BY <1>3, <1>4, <1>5, <1>6

\* Leaving the header: the claim, if any, stays with this thread.
LEMMA LeaveInv ==
  ASSUME OnceInv, NEW t \in Threads, Leave(t)
  PROVE  OnceInv'
<1> USE OnceAssumption, EpochFact DEF OnceInv, TypeOK, Guards, Busy, Goto, Leave
<1>1. TypeOK'
  BY DEF Locations, Building, OneInitialiser, Initialising, Guarding, Publishing
<1>2. OneInitialiser'
  BY DEF OneInitialiser, Initialising, Guarding
<1>3. Guarding'
  BY DEF Guarding, InSection, Initialising, OneInitialiser
<1>4. Building'
  BY DEF Building, Publishing, Guarding, Initialising, OneInitialiser
<1>5. Passing'
  BY DEF Passing, Guarding, Initialising
<1>6. NoLostWakeup'
  BY DEF NoLostWakeup, Guarding, Initialising
<1> QED
  BY <1>1, <1>2, <1>3, <1>4, <1>5, <1>6

\* Entering footer or abort.
LEMMA SettleInv ==
  ASSUME OnceInv, NEW t \in Threads, Settle(t)
  PROVE  OnceInv'
<1> USE OnceAssumption, EpochFact DEF OnceInv, TypeOK, Guards, Busy, Goto, Settle
<1>1. TypeOK'
  BY DEF Locations, Building, OneInitialiser, Initialising, Guarding, Publishing
<1>2. OneInitialiser'
  BY DEF OneInitialiser, Initialising, Guarding
<1>3. Guarding'
  BY DEF Guarding, InSection, Initialising, OneInitialiser
<1>4. Building'
  BY DEF Building, Publishing, Guarding, Initialising, OneInitialiser
<1>5. Passing'
  BY DEF Passing, Guarding, Initialising
<1>6. NoLostWakeup'
  BY DEF NoLostWakeup, Guarding, Initialising
<1> QED
  BY <1>1, <1>2, <1>3, <1>4, <1>5, <1>6

\* footer or abort stores its verdict: only the claimant does.
LEMMA StoreInv ==
  ASSUME OnceInv, NEW t \in Threads, Store(t)
  PROVE  OnceInv'
<1> USE OnceAssumption, EpochFact DEF OnceInv, TypeOK, Guards, Busy, Goto, Store
<1>1. TypeOK'
  BY DEF Locations, Building, OneInitialiser, Initialising, Guarding, Publishing
<1>2. OneInitialiser'
  BY DEF OneInitialiser, Initialising, Guarding
<1>3. Guarding'
  BY DEF Guarding, InSection, Initialising, OneInitialiser
<1>4. Building'
  BY DEF Building, Publishing, Guarding, Initialising, OneInitialiser
<1>5. Passing'
  BY DEF Passing, Guarding, Initialising
<1>6. NoLostWakeup'
  BY DEF NoLostWakeup, Guarding, Initialising
<1> QED
  BY <1>1, <1>2, <1>3, <1>4, <1>5, <1>6

\* Leaving footer or abort, with the sleepers still to wake.
LEMMA SettleLeaveInv ==
  ASSUME OnceInv, NEW t \in Threads, SettleLeave(t)
  PROVE  OnceInv'
<1> USE OnceAssumption, EpochFact DEF OnceInv, TypeOK, Guards, Busy, Goto, SettleLeave
<1>1. TypeOK'
  BY DEF Locations, Building, OneInitialiser, Initialising, Guarding, Publishing
<1>2. OneInitialiser'
  BY DEF OneInitialiser, Initialising, Guarding
<1>3. Guarding'
  BY DEF Guarding, InSection, Initialising, OneInitialiser
<1>4. Building'
  BY DEF Building, Publishing, Guarding, Initialising, OneInitialiser
<1>5. Passing'
  BY DEF Passing, Guarding, Initialising
<1>6. NoLostWakeup'
  BY DEF NoLostWakeup, Guarding, Initialising
<1> QED
  BY <1>1, <1>2, <1>3, <1>4, <1>5, <1>6

\* Leaving the function.
LEMMA UseInv ==
  ASSUME OnceInv, NEW t \in Threads, Use(t)
  PROVE  OnceInv'
<1> USE OnceAssumption, EpochFact DEF OnceInv, TypeOK, Guards, Busy, Goto, Use
<1>1. TypeOK'
  BY DEF Locations, Building, OneInitialiser, Initialising, Guarding, Publishing
<1>2. OneInitialiser'
  BY DEF OneInitialiser, Initialising, Guarding
<1>3. Guarding'
  BY DEF Guarding, InSection, Initialising, OneInitialiser
<1>4. Building'
  BY ZenonT(30) DEF Building, Publishing, Guarding, Initialising, OneInitialiser
<1>5. Passing'
  BY DEF Passing, Guarding, Initialising
<1>6. NoLostWakeup'
  BY DEF NoLostWakeup, Guarding, Initialising
<1> QED
  BY <1>1, <1>2, <1>3, <1>4, <1>5, <1>6

\* A sleeper that wakes for no reason tests its guard again.
LEMMA SpuriousWakeInv ==
  ASSUME OnceInv, NEW t \in Threads, SpuriousWake(t)
  PROVE  OnceInv'
<1> USE OnceAssumption, EpochFact DEF OnceInv, TypeOK, Guards, Busy, Goto, SpuriousWake
<1>1. TypeOK'
  BY DEF Locations, Building, OneInitialiser, Initialising, Guarding, Publishing
<1>2. OneInitialiser'
  BY DEF OneInitialiser, Initialising, Guarding
<1>3. Guarding'
  BY DEF Guarding, InSection, Initialising, OneInitialiser
<1>4. Building'
  BY ZenonT(30) DEF Building, Publishing, Guarding, Initialising, OneInitialiser
<1>5. Passing'
  BY DEF Passing, Guarding, Initialising
<1>6. NoLostWakeup'
  BY DEF NoLostWakeup, Guarding, Initialising
<1> QED
  BY <1>1, <1>2, <1>3, <1>4, <1>5, <1>6

\* The initialiser throws: nothing was built.
LEMMA AbortInv ==
  ASSUME OnceInv, NEW t \in Threads, Abort(t)
  PROVE  OnceInv'
<1> USE OnceAssumption, EpochFact DEF OnceInv, TypeOK, Guards, Busy, Goto, Abort
<1>1. TypeOK'
  BY DEF Locations, Building, OneInitialiser, Initialising, Guarding, Publishing
<1>2. OneInitialiser'
  BY DEF OneInitialiser, Initialising, Guarding
<1>3. Guarding'
  BY DEF Guarding, InSection, Initialising, OneInitialiser
<1>4. Building'
  BY SMTT(30) DEF Building, Publishing, Guarding, Initialising, OneInitialiser
<1>5. Passing'
  BY DEF Passing, Guarding, Initialising
<1>6. NoLostWakeup'
  BY DEF NoLostWakeup, Guarding, Initialising
<1> QED
  BY <1>1, <1>2, <1>3, <1>4, <1>5, <1>6

\* All sleepers are back at the critical section; the waker goes on behind
\* its initialised static, or leaves the function.
LEMMA WakeInv ==
  ASSUME OnceInv, NEW t \in Threads, Wake(t)
  PROVE  OnceInv'
<1> USE OnceAssumption, EpochFact DEF OnceInv, TypeOK, Guards, Busy
<1> DEFINE to == pc'[t]
<1>1. /\ pc[t] = "wake"
      /\ pc' = [s \in Threads |->
                  IF s = t THEN to
                  ELSE IF pc[s] = "asleep" THEN "enter" ELSE pc[s]]
      /\ \/ to \in {"out", "use"} /\ cur' = cur
         \/ to = "test" /\ cur[t] < Statics /\ cur' = [cur EXCEPT ![t] = @ + 1]
      /\ to # "out" => once[cur[t]] = Epoch
      /\ to = "use" => cur[t] = Statics
      /\ UNCHANGED <<once, mutex, verdict, built, faults>>
  BY DEF Wake, Woken, Guarding
<1> HIDE DEF to
<1>2. TypeOK'
  <2>1. cur' \in [Threads -> 1 .. Statics]
    <3>1. CASE cur' = cur
      BY <3>1
    <3>2. CASE cur[t] < Statics /\ cur' = [cur EXCEPT ![t] = @ + 1]
      <4>1. cur[t] + 1 \in 1 .. Statics
        BY <3>2
      <4> QED
        BY <3>2, <4>1
    <3> QED
      BY <1>1, <3>1, <3>2
  <2>2. to \in Locations
    BY <1>1 DEF Locations
  <2> QED
    BY <1>1, <2>1, <2>2 DEF Locations
<1>3. \A s \in Threads :
        /\ Publishing(s)' <=> Publishing(s)
        /\ Initialising(s)' <=> Initialising(s)
        /\ InSection(s)' <=> InSection(s)
        /\ s # t => cur'[s] = cur[s]
  BY <1>1 DEF Publishing, Initialising, InSection
<1>4. ~ Publishing(t) /\ ~ Initialising(t) /\ ~ InSection(t)
  BY <1>1 DEF Publishing, Initialising, InSection
<1>5. OneInitialiser' /\ Building'
  BY <1>1, <1>3, <1>4 DEF OneInitialiser, Building
<1>6. Guarding'
  BY <1>1, <1>3, <1>4 DEF Guarding
<1>7. Passing'
  BY <1>1 DEF Passing
<1>8. NoLostWakeup'
  BY <1>1 DEF NoLostWakeup
<1> QED
  BY <1>2, <1>5, <1>6, <1>7, <1>8

-------------------------------------------------------------------------------
\* Every step of every thread, and every fault, preserves the invariant.
THEOREM OnceInvariance == Spec => []OnceInv
<1>1. OnceInv /\ [Next]_vars => OnceInv'
  <2> SUFFICES ASSUME OnceInv, [Next]_vars
               PROVE  OnceInv'
    OBVIOUS
  <2>1. CASE UNCHANGED vars
    BY <2>1
    DEF vars, OnceInv, TypeOK, OneInitialiser, Initialising, Guarding,
        Building, Passing, NoLostWakeup, InSection, Publishing
  <2>2. CASE Next
    BY <2>2, CallInv, TestInv, EnterInv, LoopInv, LeaveInv, RecheckInv,
       ConstructInv, SettleInv, StoreInv, SettleLeaveInv, WakeInv, UseInv,
       SpuriousWakeInv, AbortInv
    DEF Next, Step, Fault
  <2> QED
    BY <2>1, <2>2
<1> QED
  BY <1>1, OnceInitially, PTL DEF Spec

\* No static is ever initialised by two threads at once.
THEOREM SingleInitialiser == Spec => []OneInitialiser
<1>1. OnceInv => OneInitialiser
  BY DEF OnceInv
<1> QED
  BY <1>1, OnceInvariance, PTL

\* Whoever has passed a static finds it initialised, and initialised once.
THEOREM PassedBuilt == Spec => []PassedIsBuilt
<1>1. OnceInv => PassedIsBuilt
  BY DEF OnceInv, Building, Passing, PassedIsBuilt
<1> QED
  BY <1>1, OnceInvariance, PTL

\* A sleeper is waiting for an initialiser that runs, or about to be woken.
THEOREM WakeupsArrive == Spec => []NoLostWakeup
<1>1. OnceInv => NoLostWakeup
  BY DEF OnceInv
<1> QED
  BY <1>1, OnceInvariance, PTL

-----------------------------------------------------------------------------
(* The runtime's exit list, for any initialisers, threads and nodes.           *)

\* The node that is at a place of the list of those registered; 0 is the end.
NodeAt(returned, k) == IF k = 0 THEN 0 ELSE returned[k]

\* The nodes are all different, and each points to one registered before it, to
\* the last one if no two calls of atexit overlapped.
Linked(next, returned, overlap) ==
  /\ \A i \in 1 .. Len(returned) : returned[i] \in 1 .. Len(next)
  /\ \A i, j \in 1 .. Len(returned) : returned[i] = returned[j] => i = j
  /\ \A i \in 1 .. Len(returned) :
       \E k \in 0 .. i - 1 : next[returned[i]] = NodeAt(returned, k) /\ (overlap \/ k = i - 1)

Phases == {"attach", "scrt", "run", "onexit", "gone"}
Before == {"attach", "scrt", "run"}

RtType == /\ rtNext \in Seq(Nat) /\ rtReturned \in Seq(Nat) /\ rtRan \in Seq(Nat)
          /\ rtAtexit \in [RtThreads -> Nat] /\ rtNode \in Nat /\ exittable \in Nat
          /\ rtOverlap \in BOOLEAN /\ rtPhase \in Phases

RtList == /\ Linked(rtNext, rtReturned, rtOverlap)
          /\ rtPhase \in Before => exittable = NodeAt(rtReturned, Len(rtReturned))

\* What a thread is about to put first is like those that are in the list; it is
\* the only one if no two calls overlapped.
RtPending == \A t \in RtThreads : rtAtexit[t] # 0 =>
  /\ rtPhase \notin {"attach", "scrt"}
  /\ rtAtexit[t] \in 1 .. Len(rtNext) /\ rtAtexit[t] \in rtLive
  /\ \A i \in 1 .. Len(rtReturned) : rtReturned[i] # rtAtexit[t]
  /\ \A u \in RtThreads \ {t} : rtAtexit[u] # rtAtexit[t] /\ (rtOverlap \/ rtAtexit[u] = 0)
  /\ \E k \in 0 .. Len(rtReturned) :
       /\ rtNext[rtAtexit[t]] = NodeAt(rtReturned, k)
       /\ rtOverlap \/ k = Len(rtReturned)

\* onexit is at the place k: what ran are nodes of later places, the later ones
\* first; if no two calls overlapped it is all of them.
WalkedTo(k) ==
  /\ rtNode = NodeAt(rtReturned, k)
  /\ \A i \in 1 .. Len(rtRan) : \E a \in k + 1 .. Len(rtReturned) : rtReturned[a] = rtRan[i]
  /\ rtOverlap \/ /\ Len(rtRan) = Len(rtReturned) - k
                  /\ \A i \in 1 .. Len(rtRan) : rtRan[i] = rtReturned[Len(rtReturned) + 1 - i]

RtWalk ==
  /\ rtPhase \in Before => rtRan = <<>> /\ rtNode = 0
  /\ rtPhase \notin Before => \E k \in 0 .. Len(rtReturned) : WalkedTo(k)
  /\ rtPhase = "gone" => rtNode = 0
  /\ \A i, j \in 1 .. Len(rtRan) : i < j =>
       \E a, b \in 1 .. Len(rtReturned) :
          b < a /\ rtReturned[a] = rtRan[i] /\ rtReturned[b] = rtRan[j]

\* A node is freed when its handler ran.
RtFreed == \A i \in 1 .. Len(rtReturned) :
  rtReturned[i] \in rtLive <=> \A j \in 1 .. Len(rtRan) : rtRan[j] # rtReturned[i]

RtInv == RtType /\ RtList /\ RtPending /\ RtWalk /\ RtFreed

LEMMA RtInitially == RtInit => RtInv
<1> SUFFICES ASSUME RtInit PROVE RtInv
  OBVIOUS
<1>1. RtType
  <2>1. <<>> \in Seq(Nat) /\ rtAtexit \in [RtThreads -> Nat]
    BY DEF RtInit
  <2> QED
    BY <2>1 DEF RtInit, RtType, Phases
<1>2. Linked(<<>>, <<>>, FALSE)
  BY DEF Linked
<1>3. RtList
  BY <1>2 DEF RtInit, RtList, NodeAt
<1>4. RtPending /\ RtWalk /\ RtFreed
  BY DEF RtInit, RtPending, RtWalk, RtFreed, Before
<1> QED
  BY <1>1, <1>3, <1>4 DEF RtInv

\* A new node does not disturb the list, and may become its first.
LEMMA NodeMade ==
  ASSUME NEW next \in Seq(Nat), NEW returned \in Seq(Nat), NEW overlap,
         Linked(next, returned, overlap), NEW x \in Nat
  PROVE  /\ Linked(Append(next, x), returned, overlap)
         /\ \A i \in 1 .. Len(returned) : returned[i] # Len(next) + 1
         /\ Append(next, x) \in Seq(Nat) /\ Len(Append(next, x)) = Len(next) + 1
         /\ Append(next, x)[Len(next) + 1] = x
         /\ \A n \in 1 .. Len(next) : Append(next, x)[n] = next[n]
         /\ Len(next) \in Nat
<1> DEFINE more == Append(next, x)
<1>1. /\ Len(next) \in Nat /\ more \in Seq(Nat) /\ Len(more) = Len(next) + 1
      /\ more[Len(next) + 1] = x /\ \A n \in 1 .. Len(next) : more[n] = next[n]
  OBVIOUS
<1> HIDE DEF more
<1>2. \A i \in 1 .. Len(returned) :
        /\ returned[i] \in 1 .. Len(next) /\ returned[i] \in 1 .. Len(more)
        /\ more[returned[i]] = next[returned[i]] /\ returned[i] # Len(next) + 1
  <2>1. \A i \in 1 .. Len(returned) : returned[i] \in 1 .. Len(next)
    BY DEF Linked
  <2>2. \A n \in 1 .. Len(next) : n \in 1 .. Len(more) /\ more[n] = next[n] /\ n # Len(next) + 1
    BY <1>1
  <2> QED
    BY <2>1, <2>2
<1>3. Linked(more, returned, overlap)
  <2>1. \A i \in 1 .. Len(returned) :
          \E k \in 0 .. i - 1 : more[returned[i]] = NodeAt(returned, k) /\ (overlap \/ k = i - 1)
    <3> SUFFICES ASSUME NEW i \in 1 .. Len(returned)
                 PROVE  \E k \in 0 .. i - 1 :
                          more[returned[i]] = NodeAt(returned, k) /\ (overlap \/ k = i - 1)
      OBVIOUS
    <3>1. PICK k \in 0 .. i - 1 : next[returned[i]] = NodeAt(returned, k) /\ (overlap \/ k = i - 1)
      BY DEF Linked
    <3> QED
      BY <1>2, <3>1
  <2>2. \A i, j \in 1 .. Len(returned) : returned[i] = returned[j] => i = j
    BY DEF Linked
  <2> QED
    BY <1>2, <2>1, <2>2 DEF Linked
<1> QED
  BY <1>1, <1>2, <1>3 DEF more

LEMMA OverlapLater ==
  ASSUME NEW next, NEW returned, NEW overlap, NEW later,
         Linked(next, returned, overlap), overlap => later
  PROVE  Linked(next, returned, later)
<1>1. \A i \in 1 .. Len(returned) :
        \E k \in 0 .. i - 1 : next[returned[i]] = NodeAt(returned, k) /\ (later \/ k = i - 1)
  BY DEF Linked
<1> QED
  BY <1>1 DEF Linked

LEMMA NodeFirst ==
  ASSUME NEW next \in Seq(Nat), NEW returned \in Seq(Nat), NEW overlap,
         Linked(next, returned, overlap), NEW p \in 1 .. Len(next),
         \A i \in 1 .. Len(returned) : returned[i] # p,
         NEW k \in 0 .. Len(returned), next[p] = NodeAt(returned, k),
         overlap \/ k = Len(returned)
  PROVE  LET more == Append(returned, p)
         IN  /\ Linked(next, more, overlap) /\ more \in Seq(Nat)
             /\ Len(more) = Len(returned) + 1 /\ NodeAt(more, Len(more)) = p
             /\ \A i \in 1 .. Len(returned) : more[i] = returned[i]
<1> DEFINE more == Append(returned, p)
           m == Len(returned)
<1>1. m \in Nat /\ p \in Nat
  OBVIOUS
<1>2. /\ more \in Seq(Nat) /\ Len(more) = m + 1
      /\ more[m + 1] = p /\ \A i \in 1 .. m : more[i] = returned[i]
  BY <1>1
<1> HIDE DEF more
<1>9. /\ \A i \in 1 .. m : returned[i] \in 1 .. Len(next)
      /\ \A i, j \in 1 .. m : returned[i] = returned[j] => i = j
      /\ \A i \in 1 .. m : returned[i] # p
  BY DEF Linked
<1> HIDE DEF m
<1>3. \A i \in 0 .. m : NodeAt(more, i) = NodeAt(returned, i)
  BY <1>1, <1>2 DEF NodeAt
<1>4. \A i \in 1 .. m + 1 : \E l \in 0 .. i - 1 :
         next[more[i]] = NodeAt(more, l) /\ (overlap \/ l = i - 1)
  <2> SUFFICES ASSUME NEW i \in 1 .. m + 1
               PROVE  \E l \in 0 .. i - 1 : next[more[i]] = NodeAt(more, l) /\ (overlap \/ l = i - 1)
    OBVIOUS
  <2>1. CASE i = m + 1
    <3>1. k \in 0 .. i - 1 /\ k \in 0 .. m /\ (overlap \/ k = i - 1)
      BY <1>1, <2>1 DEF m
    <3>2. next[more[i]] = NodeAt(more, k)
      BY <1>2, <1>3, <2>1, <3>1
    <3> QED
      BY <3>1, <3>2
  <2>2. CASE i # m + 1
    <3>1. i \in 1 .. m
      BY <1>1, <2>2
    <3>2. PICK l \in 0 .. i - 1 : next[returned[i]] = NodeAt(returned, l) /\ (overlap \/ l = i - 1)
      BY <3>1 DEF Linked, m
    <3>3. l \in 0 .. m
      BY <1>1, <3>1
    <3> QED
      BY <1>2, <1>3, <3>1, <3>2, <3>3
  <2> QED
    BY <2>1, <2>2
<1>10. \A i \in 1 .. m + 1 : i = m + 1 \/ i \in 1 .. m
  BY <1>1
<1>5. \A i \in 1 .. m + 1 : more[i] \in 1 .. Len(next)
  BY <1>2, <1>9, <1>10
<1>6. \A i, j \in 1 .. m + 1 : more[i] = more[j] => i = j
  BY <1>2, <1>9, <1>10
<1>7. Linked(next, more, overlap)
  BY <1>2, <1>4, <1>5, <1>6 DEF Linked
<1>8. NodeAt(more, Len(more)) = p
  BY <1>1, <1>2 DEF NodeAt
<1> QED
  BY <1>2, <1>7, <1>8 DEF more, m

\* Before the end nothing has run, and what is registered is allocated.
LEMMA NothingRan ==
  ASSUME RtInv, rtPhase \in Before
  PROVE  /\ rtRan = <<>> /\ rtNode = 0
         /\ \A i \in 1 .. Len(rtReturned) : rtReturned[i] \in rtLive
         /\ exittable = NodeAt(rtReturned, Len(rtReturned))
<1>1. rtRan = <<>> /\ rtNode = 0
  BY DEF RtInv, RtWalk
<1> QED
  BY <1>1 DEF RtInv, RtFreed, RtList

LEMMA StillNothing ==
  ASSUME RtInv, rtPhase \in Before, rtPhase' \in Before, UNCHANGED <<rtRan, rtNode>>,
         \A i \in 1 .. Len(rtReturned') : rtReturned'[i] \in rtLive'
  PROVE  RtWalk' /\ RtFreed'
<1>1. rtRan' = <<>> /\ rtNode' = 0 /\ rtPhase' # "gone"
  BY NothingRan DEF Before
<1> QED
  BY <1>1 DEF RtWalk, RtFreed

LEMMA AtexitStep ==
  ASSUME RtInv, rtPhase = "attach", Atexit, UNCHANGED <<rtPhase, rtNode, rtRan>>
  PROVE  RtInv'
<1> DEFINE node == Len(rtNext) + 1
           m == Len(rtReturned)
<1>1. /\ rtNext \in Seq(Nat) /\ rtReturned \in Seq(Nat) /\ exittable \in Nat
      /\ Linked(rtNext, rtReturned, rtOverlap)
      /\ exittable = NodeAt(rtReturned, m) /\ m \in Nat
  BY DEF RtInv, RtType, RtList, Before
<1>2. /\ rtNext' = Append(rtNext, exittable) /\ rtLive' = rtLive \cup {node} /\ exittable' = node
      /\ rtReturned' = Append(rtReturned, node) /\ UNCHANGED <<rtAtexit, rtOverlap>>
  BY DEF Atexit
<1>3. /\ Linked(rtNext', rtReturned, rtOverlap) /\ rtNext' \in Seq(Nat) /\ Len(rtNext') = node
      /\ \A i \in 1 .. m : rtReturned[i] # node
      /\ rtNext'[node] = exittable /\ Len(rtNext) \in Nat
  <2> DEFINE more == Append(rtNext, exittable)
  <2>1. /\ Linked(more, rtReturned, rtOverlap)
        /\ \A i \in 1 .. Len(rtReturned) : rtReturned[i] # Len(rtNext) + 1
        /\ more \in Seq(Nat) /\ Len(more) = Len(rtNext) + 1
        /\ more[Len(rtNext) + 1] = exittable
        /\ \A n \in 1 .. Len(rtNext) : more[n] = rtNext[n]
        /\ Len(rtNext) \in Nat
    <3>1. /\ rtNext \in Seq(Nat) /\ rtReturned \in Seq(Nat) /\ exittable \in Nat
          /\ Linked(rtNext, rtReturned, rtOverlap)
      BY <1>1
    <3> QED
      BY <3>1, NodeMade
  <2> QED
    BY <1>2, <2>1
<1> HIDE DEF m
<1>4. /\ node \in 1 .. Len(rtNext') /\ node \in Nat /\ m \in 0 .. m
      /\ rtNext'[node] = NodeAt(rtReturned, m)
  BY <1>1, <1>3
<1> HIDE DEF node
<1>5. /\ Linked(rtNext', rtReturned', rtOverlap) /\ rtReturned' \in Seq(Nat)
      /\ Len(rtReturned') = m + 1 /\ NodeAt(rtReturned', Len(rtReturned')) = node
      /\ \A i \in 1 .. m : rtReturned'[i] = rtReturned[i]
  <2>1. m = Len(rtReturned)
    BY DEF m
  <2>2. \A i \in 1 .. Len(rtReturned) : rtReturned[i] # node
    BY <1>3 DEF m
  <2>3. Linked(rtNext', rtReturned, rtOverlap) /\ rtNext' \in Seq(Nat)
    BY <1>3
  <2>4. rtNext'[node] = NodeAt(rtReturned, Len(rtReturned)) /\ Len(rtReturned) \in 0 .. Len(rtReturned)
    BY <1>4, <2>1
  <2> DEFINE more == Append(rtReturned, node)
  <2>5. /\ Linked(rtNext', more, rtOverlap) /\ more \in Seq(Nat)
        /\ Len(more) = Len(rtReturned) + 1 /\ NodeAt(more, Len(more)) = node
        /\ \A i \in 1 .. Len(rtReturned) : more[i] = rtReturned[i]
    <3>1. /\ rtNext' \in Seq(Nat) /\ rtReturned \in Seq(Nat) /\ node \in 1 .. Len(rtNext')
          /\ Linked(rtNext', rtReturned, rtOverlap)
      BY <1>1, <1>4, <2>3
    <3> QED
      BY <3>1, <2>2, <2>4, NodeFirst
  <2> QED
    BY <1>2, <2>1, <2>5
<1>6. RtType'
  BY <1>2, <1>3, <1>4, <1>5 DEF RtInv, RtType
<1>7. RtList'
  BY <1>2, <1>5 DEF RtList
<1>8. RtPending'
  BY <1>2 DEF RtInv, RtPending
<1>9. \A i \in 1 .. Len(rtReturned') : rtReturned'[i] \in rtLive'
  <2>1. rtReturned'[m + 1] = node
    BY <1>1, <1>5 DEF NodeAt
  <2>2. \A i \in 1 .. m + 1 : i = m + 1 \/ i \in 1 .. m
    BY <1>1
  <2>3. \A i \in 1 .. m : rtReturned[i] \in rtLive
    BY NothingRan DEF Before, m
  <2> QED
    BY <1>2, <1>5, <2>1, <2>2, <2>3
<1>10. RtWalk' /\ RtFreed'
  BY <1>9, StillNothing DEF Before
<1> QED
  BY <1>6, <1>7, <1>8, <1>10 DEF RtInv

LEMMA AtexitNodeStep ==
  ASSUME RtInv, NEW t \in RtThreads, AtexitNode(t)
  PROVE  RtInv'
<1> DEFINE node == Len(rtNext) + 1
           m == Len(rtReturned)
<1>1. /\ rtNext \in Seq(Nat) /\ rtReturned \in Seq(Nat) /\ exittable \in Nat
      /\ rtAtexit \in [RtThreads -> Nat] /\ rtOverlap \in BOOLEAN
      /\ Linked(rtNext, rtReturned, rtOverlap)
      /\ exittable = NodeAt(rtReturned, m) /\ m \in Nat /\ m \in 0 .. m
  BY DEF RtInv, RtType, RtList, Before, AtexitNode
<1>2. /\ rtPhase = "run" /\ rtPhase' = "run" /\ rtAtexit[t] = 0
      /\ rtNext' = Append(rtNext, exittable) /\ rtLive' = rtLive \cup {node}
      /\ rtAtexit' = [rtAtexit EXCEPT ![t] = node]
      /\ rtOverlap' = (rtOverlap \/ \E u \in RtThreads : rtAtexit[u] # 0)
      /\ UNCHANGED <<exittable, rtNode, rtRan, rtReturned>>
  BY DEF AtexitNode
<1>3. /\ Linked(rtNext', rtReturned, rtOverlap') /\ rtNext' \in Seq(Nat) /\ Len(rtNext') = node
      /\ \A i \in 1 .. m : rtReturned[i] # node
      /\ rtNext'[node] = exittable /\ Len(rtNext) \in Nat
      /\ \A n \in 1 .. Len(rtNext) : rtNext'[n] = rtNext[n]
  <2> DEFINE more == Append(rtNext, exittable)
  <2>1. /\ Linked(more, rtReturned, rtOverlap')
        /\ \A i \in 1 .. Len(rtReturned) : rtReturned[i] # Len(rtNext) + 1
        /\ more \in Seq(Nat) /\ Len(more) = Len(rtNext) + 1
        /\ more[Len(rtNext) + 1] = exittable
        /\ \A n \in 1 .. Len(rtNext) : more[n] = rtNext[n]
        /\ Len(rtNext) \in Nat
    <3>1. Linked(rtNext, rtReturned, rtOverlap')
      BY <1>1, <1>2, OverlapLater
    <3> QED
      BY <1>1, <3>1, NodeMade
  <2> QED
    BY <1>2, <2>1
<1>4. node \in 1 .. Len(rtNext') /\ node \in Nat /\ node # 0 /\ 1 .. Len(rtNext) \subseteq 1 .. node
      /\ node \notin 1 .. Len(rtNext)
  BY <1>3
<1> HIDE DEF node, m
<1>5. rtAtexit'[t] = node /\ \A u \in RtThreads \ {t} : rtAtexit'[u] = rtAtexit[u]
  BY <1>1, <1>2
<1>6. RtType'
  BY <1>1, <1>2, <1>3, <1>4 DEF RtInv, RtType
<1>7. RtList'
  BY <1>1, <1>2, <1>3 DEF RtInv, RtList, m
<1>8. RtPending'
  <2> SUFFICES ASSUME NEW u \in RtThreads, rtAtexit'[u] # 0
               PROVE  /\ rtPhase' \notin {"attach", "scrt"}
                      /\ rtAtexit'[u] \in 1 .. Len(rtNext') /\ rtAtexit'[u] \in rtLive'
                      /\ \A i \in 1 .. Len(rtReturned') : rtReturned'[i] # rtAtexit'[u]
                      /\ \A v \in RtThreads \ {u} :
                           rtAtexit'[v] # rtAtexit'[u] /\ (rtOverlap' \/ rtAtexit'[v] = 0)
                      /\ \E k \in 0 .. Len(rtReturned') :
                           /\ rtNext'[rtAtexit'[u]] = NodeAt(rtReturned', k)
                           /\ rtOverlap' \/ k = Len(rtReturned')
    BY DEF RtPending
  <2>1. \A v \in RtThreads : rtAtexit[v] # 0 => rtAtexit[v] \in 1 .. Len(rtNext) /\ rtOverlap'
    BY <1>2 DEF RtInv, RtPending
  <2>2. CASE u = t
    <3>1. \A v \in RtThreads \ {u} : rtAtexit'[v] # rtAtexit'[u] /\ (rtOverlap' \/ rtAtexit'[v] = 0)
      BY <1>4, <1>5, <2>1, <2>2
    <3>2. rtNext'[rtAtexit'[u]] = NodeAt(rtReturned', m) /\ m \in 0 .. Len(rtReturned')
          /\ m = Len(rtReturned')
      BY <1>1, <1>2, <1>3, <1>5, <2>2 DEF m
    <3>3. rtAtexit'[u] \in 1 .. Len(rtNext') /\ rtAtexit'[u] \in rtLive'
          /\ \A i \in 1 .. Len(rtReturned') : rtReturned'[i] # rtAtexit'[u]
      BY <1>2, <1>3, <1>4, <1>5, <2>2 DEF m
    <3> QED
      BY <1>2, <3>1, <3>2, <3>3
  <2>3. CASE u # t
    <3>1. rtAtexit'[u] = rtAtexit[u] /\ rtAtexit[u] # 0 /\ rtOverlap'
      BY <1>5, <2>1, <2>3
    <3>2. /\ rtAtexit[u] \in 1 .. Len(rtNext) /\ rtAtexit[u] \in rtLive
          /\ \A i \in 1 .. Len(rtReturned) : rtReturned[i] # rtAtexit[u]
          /\ \A v \in RtThreads \ {u} : rtAtexit[v] # rtAtexit[u]
          /\ \E k \in 0 .. Len(rtReturned) : rtNext[rtAtexit[u]] = NodeAt(rtReturned, k)
      BY <3>1 DEF RtInv, RtPending
    <3>3. \A v \in RtThreads \ {u} : rtAtexit'[v] # rtAtexit[u]
      BY <1>4, <1>5, <3>2
    <3>4. rtNext'[rtAtexit[u]] = rtNext[rtAtexit[u]]
      BY <1>3, <3>2
    <3> QED
      BY <1>2, <1>3, <1>4, <3>1, <3>2, <3>3, <3>4
  <2> QED
    BY <2>2, <2>3
<1>9. \A i \in 1 .. Len(rtReturned') : rtReturned'[i] \in rtLive'
  BY <1>2, NothingRan DEF Before
<1>10. RtWalk' /\ RtFreed'
  BY <1>2, <1>9, StillNothing DEF Before
<1> QED
  BY <1>6, <1>7, <1>8, <1>10 DEF RtInv

LEMMA AtexitFirstStep ==
  ASSUME RtInv, NEW t \in RtThreads, AtexitFirst(t)
  PROVE  RtInv'
<1> DEFINE node == rtAtexit[t]
           m == Len(rtReturned)
<1>1. /\ rtNext \in Seq(Nat) /\ rtReturned \in Seq(Nat)
      /\ rtAtexit \in [RtThreads -> Nat] /\ m \in Nat
      /\ Linked(rtNext, rtReturned, rtOverlap)
  BY DEF RtInv, RtType, RtList
<1>2. /\ rtPhase = "run" /\ rtPhase' = "run" /\ node # 0
      /\ exittable' = node /\ rtReturned' = Append(rtReturned, node)
      /\ rtAtexit' = [rtAtexit EXCEPT ![t] = 0]
      /\ UNCHANGED <<rtNext, rtLive, rtNode, rtRan, rtOverlap>>
  BY DEF AtexitFirst
<1>3. /\ node \in 1 .. Len(rtNext) /\ node \in rtLive
      /\ \A i \in 1 .. m : rtReturned[i] # node
      /\ \A u \in RtThreads \ {t} : rtAtexit[u] # node /\ (rtOverlap \/ rtAtexit[u] = 0)
  BY <1>2 DEF RtInv, RtPending
<1>4. PICK k \in 0 .. m : rtNext[node] = NodeAt(rtReturned, k) /\ (rtOverlap \/ k = m)
  BY <1>2 DEF RtInv, RtPending
<1>5. /\ Linked(rtNext, rtReturned', rtOverlap) /\ rtReturned' \in Seq(Nat)
      /\ Len(rtReturned') = m + 1 /\ NodeAt(rtReturned', Len(rtReturned')) = node
      /\ \A i \in 1 .. m : rtReturned'[i] = rtReturned[i]
  BY <1>1, <1>2, <1>3, <1>4, NodeFirst
<1> HIDE DEF node, m
<1>6. rtAtexit'[t] = 0 /\ \A u \in RtThreads \ {t} : rtAtexit'[u] = rtAtexit[u]
  BY <1>1, <1>2
<1>7. RtType'
  BY <1>1, <1>2, <1>3, <1>5 DEF RtInv, RtType, node
<1>8. RtList'
  BY <1>2, <1>5 DEF RtList
<1>11. rtReturned'[m + 1] = node /\ \A i \in 1 .. m + 1 : i = m + 1 \/ i \in 1 .. m
  BY <1>1, <1>5 DEF NodeAt
<1>9. RtPending'
  <2> SUFFICES ASSUME NEW u \in RtThreads, rtAtexit'[u] # 0
               PROVE  /\ rtPhase' \notin {"attach", "scrt"}
                      /\ rtAtexit'[u] \in 1 .. Len(rtNext') /\ rtAtexit'[u] \in rtLive'
                      /\ \A i \in 1 .. Len(rtReturned') : rtReturned'[i] # rtAtexit'[u]
                      /\ \A v \in RtThreads \ {u} :
                           rtAtexit'[v] # rtAtexit'[u] /\ (rtOverlap' \/ rtAtexit'[v] = 0)
                      /\ \E l \in 0 .. Len(rtReturned') :
                           /\ rtNext'[rtAtexit'[u]] = NodeAt(rtReturned', l)
                           /\ rtOverlap' \/ l = Len(rtReturned')
    BY DEF RtPending
  <2>1. u # t /\ rtAtexit'[u] = rtAtexit[u] /\ rtAtexit[u] # 0 /\ rtOverlap
    BY <1>3, <1>6
  <2>2. /\ rtAtexit[u] \in 1 .. Len(rtNext) /\ rtAtexit[u] \in rtLive
        /\ \A i \in 1 .. m : rtReturned[i] # rtAtexit[u]
        /\ \A v \in RtThreads \ {u} : rtAtexit[v] # rtAtexit[u]
        /\ \E l \in 0 .. m : rtNext[rtAtexit[u]] = NodeAt(rtReturned, l)
    BY <2>1 DEF RtInv, RtPending, m
  <2>3. \A v \in RtThreads \ {u} : rtAtexit'[v] # rtAtexit[u]
    BY <1>6, <2>1, <2>2
  <2>4. \A i \in 1 .. Len(rtReturned') : rtReturned'[i] # rtAtexit[u]
    BY <1>3, <1>5, <1>11, <2>1, <2>2
  <2>5. PICK l \in 0 .. m : rtNext[rtAtexit[u]] = NodeAt(rtReturned, l)
    BY <2>2
  <2>6. l \in 0 .. Len(rtReturned') /\ NodeAt(rtReturned', l) = NodeAt(rtReturned, l)
    BY <1>1, <1>5 DEF NodeAt
  <2> QED
    BY <1>2, <2>1, <2>2, <2>3, <2>4, <2>5, <2>6
<1>10. \A i \in 1 .. Len(rtReturned') : rtReturned'[i] \in rtLive'
  <2>1. \A i \in 1 .. m : rtReturned[i] \in rtLive
    BY <1>2, NothingRan DEF Before, m
  <2> QED
    BY <1>2, <1>3, <1>5, <1>11, <2>1
<1>12. RtWalk' /\ RtFreed'
  BY <1>2, <1>10, StillNothing DEF Before
<1> QED
  BY <1>7, <1>8, <1>9, <1>12 DEF RtInv

\* A step of the start leaves the list alone.
LEMMA StartStep ==
  ASSUME RtInv, rtPhase \in Before, rtPhase' \in Before, UNCHANGED <<exitVars, rtNode, rtRan>>,
         rtPhase = "run" => rtPhase' = "run"
  PROVE  RtInv'
<1>1. rtPhase \in {"attach", "scrt"} \/ (rtPhase = "run" /\ rtPhase' = "run")
  BY DEF Before
<1>2. UNCHANGED <<rtNext, rtLive, exittable, rtAtexit, rtReturned, rtOverlap>>
  BY DEF exitVars
<1>3. RtType'
  BY <1>2 DEF RtInv, RtType, Before, Phases
<1>4. RtList'
  BY <1>2 DEF RtInv, RtList
<1>5. RtPending'
  <2>1. CASE rtPhase = "run" /\ rtPhase' = "run"
    BY <1>2, <2>1 DEF RtInv, RtPending
  <2>2. CASE rtPhase \in {"attach", "scrt"}
    <3>1. \A t \in RtThreads : rtAtexit[t] = 0
      BY <2>2 DEF RtInv, RtPending
    <3> QED
      BY <1>2, <3>1 DEF RtPending
  <2> QED
    BY <1>1, <2>1, <2>2
<1>6. RtWalk' /\ RtFreed'
  BY <1>2, NothingRan, StillNothing
<1> QED
  BY <1>3, <1>4, <1>5, <1>6 DEF RtInv

\* The end begins at the first node.
LEMMA EndStep ==
  ASSUME RtInv, rtPhase \in Before, rtPhase' = "onexit", rtNode' = exittable,
         UNCHANGED <<exitVars, rtRan>>
  PROVE  RtInv'
<1> DEFINE m == Len(rtReturned)
<1>1. UNCHANGED <<rtNext, rtLive, exittable, rtAtexit, rtReturned, rtOverlap>>
  BY DEF exitVars
<1>2. rtRan' = <<>> /\ rtRan = <<>> /\ exittable = NodeAt(rtReturned, m) /\ m \in Nat
  BY NothingRan DEF RtInv, RtType
<1>3. RtType'
  BY <1>1 DEF RtInv, RtType, Before, Phases
<1>4. RtList'
  BY <1>1 DEF RtInv, RtList, Before
<1>5. RtPending'
  BY <1>1 DEF RtInv, RtPending
<1>6. RtFreed'
  BY <1>1 DEF RtInv, RtFreed
<1>7. WalkedTo(m)'
  BY <1>1, <1>2 DEF WalkedTo
<1>8. RtWalk'
  BY <1>1, <1>2, <1>7 DEF RtWalk, Before
<1> QED
  BY <1>3, <1>4, <1>5, <1>6, <1>8 DEF RtInv

LEMMA RunHandlerStep ==
  ASSUME RtInv, RunHandler
  PROVE  RtInv'
<1> DEFINE m == Len(rtReturned)
           node == Len(rtNext) + 1
           n == Len(rtRan)
<1>1. /\ rtNext \in Seq(Nat) /\ rtReturned \in Seq(Nat) /\ rtRan \in Seq(Nat)
      /\ exittable \in Nat /\ rtNode \in Nat /\ m \in Nat /\ n \in Nat
      /\ Linked(rtNext, rtReturned, rtOverlap)
  BY DEF RtInv, RtType, RtList
<1>2. /\ rtPhase = "onexit" /\ rtPhase' = "onexit" /\ rtNode # 0
      /\ rtRan' = Append(rtRan, rtNode) /\ rtNode' = rtNext[rtNode]
      /\ UNCHANGED <<rtAtexit, rtReturned, rtOverlap>>
  BY DEF RunHandler
<1>3. \/ /\ rtNext' = Append(rtNext, exittable) /\ exittable' = node
         /\ rtLive' = (rtLive \cup {node}) \ {rtNode}
      \/ rtNext' = rtNext /\ exittable' = exittable /\ rtLive' = rtLive \ {rtNode}
  BY DEF RunHandler
<1>4. PICK k \in 0 .. m : WalkedTo(k)
  BY <1>2 DEF RtInv, RtWalk, Before
<1>5. k \in 1 .. m /\ rtNode = rtReturned[k] /\ rtNode \in 1 .. Len(rtNext)
  <2>1. k # 0 /\ rtNode = rtReturned[k]
    BY <1>2, <1>4 DEF WalkedTo, NodeAt
  <2>2. k \in 1 .. m
    BY <1>1, <2>1
  <2> QED
    BY <1>1, <2>1, <2>2 DEF Linked
<1>6. PICK l \in 0 .. k - 1 : rtNext[rtNode] = NodeAt(rtReturned, l) /\ (rtOverlap \/ l = k - 1)
  BY <1>1, <1>5 DEF Linked
<1>7. /\ Linked(rtNext', rtReturned, rtOverlap) /\ rtNext' \in Seq(Nat) /\ exittable' \in Nat
      /\ \A i \in 1 .. m : rtReturned[i] # node
      /\ 1 .. Len(rtNext) \subseteq 1 .. Len(rtNext')
      /\ \A p \in 1 .. Len(rtNext) : rtNext'[p] = rtNext[p]
  <2> DEFINE more == Append(rtNext, exittable)
  <2>1. /\ Linked(more, rtReturned, rtOverlap)
        /\ \A i \in 1 .. Len(rtReturned) : rtReturned[i] # Len(rtNext) + 1
        /\ more \in Seq(Nat) /\ Len(more) = Len(rtNext) + 1
        /\ \A p \in 1 .. Len(rtNext) : more[p] = rtNext[p]
        /\ Len(rtNext) \in Nat
    BY <1>1, NodeMade
  <2>2. 1 .. Len(rtNext) \subseteq 1 .. Len(rtNext) + 1
    BY <2>1
  <2>3. CASE rtNext' = more /\ exittable' = node
    BY <2>1, <2>2, <2>3
  <2>4. CASE rtNext' = rtNext /\ exittable' = exittable
    BY <1>1, <2>1, <2>4
  <2> QED
    BY <1>3, <2>3, <2>4
<1>8. /\ rtRan' \in Seq(Nat) /\ Len(rtRan') = n + 1 /\ rtRan'[n + 1] = rtReturned[k]
      /\ \A i \in 1 .. n : rtRan'[i] = rtRan[i]
      /\ \A i \in 1 .. n + 1 : i = n + 1 \/ i \in 1 .. n
  <2>1. rtRan \in Seq(Nat) /\ rtNode \in Nat /\ rtRan' = Append(rtRan, rtNode)
    BY <1>1, <1>2
  <2>2. /\ rtRan' \in Seq(Nat) /\ Len(rtRan') = n + 1 /\ rtRan'[n + 1] = rtNode
        /\ \A i \in 1 .. n : rtRan'[i] = rtRan[i]
    BY <2>1
  <2>3. \A i \in 1 .. n + 1 : i = n + 1 \/ i \in 1 .. n
    <3>1. n \in Nat
      BY <1>1
    <3> HIDE DEF n
    <3> QED
      BY <3>1
  <2> QED
    BY <1>5, <2>2, <2>3
<1>9. /\ \A i \in 1 .. n : \E a \in k + 1 .. m : rtReturned[a] = rtRan[i]
      /\ rtOverlap \/ (n = m - k /\ \A i \in 1 .. n : rtRan[i] = rtReturned[m + 1 - i])
  BY <1>4 DEF WalkedTo
<1>10. rtNode' = NodeAt(rtReturned, l) /\ rtNode' \in Nat
  <2>1. rtNext[rtNode] \in Nat
    BY <1>1, <1>5
  <2>2. rtNode' = rtNext[rtNode]
    BY <1>2
  <2> QED
    BY <1>6, <2>1, <2>2
<1>11. \A p \in rtLive \ {rtNode} : p \in rtLive'
  BY <1>3
<1>12. \A i \in 1 .. m : rtReturned[i] \in rtLive' <=> rtReturned[i] \in rtLive \ {rtNode}
  BY <1>3, <1>7
<1> HIDE DEF m, n, node
<1>13. RtType'
  BY <1>2, <1>7, <1>8, <1>10 DEF RtInv, RtType
<1>14. RtList'
  BY <1>2, <1>7 DEF RtList, Before
<1>15. RtPending'
  <2> SUFFICES ASSUME NEW u \in RtThreads, rtAtexit[u] # 0
               PROVE  /\ rtAtexit[u] \in 1 .. Len(rtNext') /\ rtAtexit[u] \in rtLive'
                      /\ \A i \in 1 .. Len(rtReturned) : rtReturned[i] # rtAtexit[u]
                      /\ \A v \in RtThreads \ {u} :
                           rtAtexit[v] # rtAtexit[u] /\ (rtOverlap \/ rtAtexit[v] = 0)
                      /\ \E j \in 0 .. Len(rtReturned) :
                           /\ rtNext'[rtAtexit[u]] = NodeAt(rtReturned, j)
                           /\ rtOverlap \/ j = Len(rtReturned)
    BY <1>2 DEF RtPending
  <2>1. /\ rtAtexit[u] \in 1 .. Len(rtNext) /\ rtAtexit[u] \in rtLive
        /\ \A i \in 1 .. Len(rtReturned) : rtReturned[i] # rtAtexit[u]
        /\ \A v \in RtThreads \ {u} :
             rtAtexit[v] # rtAtexit[u] /\ (rtOverlap \/ rtAtexit[v] = 0)
        /\ \E j \in 0 .. Len(rtReturned) :
             /\ rtNext[rtAtexit[u]] = NodeAt(rtReturned, j)
             /\ rtOverlap \/ j = Len(rtReturned)
    BY DEF RtInv, RtPending
  <2>2. rtAtexit[u] # rtNode
    BY <1>5, <2>1 DEF m
  <2>3. rtNext'[rtAtexit[u]] = rtNext[rtAtexit[u]] /\ rtAtexit[u] \in 1 .. Len(rtNext')
        /\ rtAtexit[u] \in rtLive'
    BY <1>7, <1>11, <2>1, <2>2
  <2> QED
    BY <2>1, <2>3
<1>16. RtWalk'
  <2>1. WalkedTo(l)'
    <3>1. \A i \in 1 .. n + 1 : \E a \in l + 1 .. m : rtReturned[a] = rtRan'[i]
      <4> SUFFICES ASSUME NEW i \in 1 .. n + 1 PROVE \E a \in l + 1 .. m : rtReturned[a] = rtRan'[i]
        OBVIOUS
      <4>1. CASE i = n + 1
        <5>1. k \in l + 1 .. m
          BY <1>1, <1>5, <1>6
        <5> QED
          BY <1>8, <4>1, <5>1
      <4>2. CASE i \in 1 .. n
        <5>1. PICK a \in k + 1 .. m : rtReturned[a] = rtRan[i]
          BY <1>9, <4>2
        <5>2. a \in l + 1 .. m
          BY <1>1, <1>5, <1>6
        <5> QED
          BY <1>8, <4>2, <5>1, <5>2
      <4> QED
        BY <1>8, <4>1, <4>2
    <3>2. rtOverlap \/ (n + 1 = m - l /\ \A i \in 1 .. n + 1 : rtRan'[i] = rtReturned[m + 1 - i])
      <4> SUFFICES ASSUME ~ rtOverlap
                   PROVE  n + 1 = m - l /\ \A i \in 1 .. n + 1 : rtRan'[i] = rtReturned[m + 1 - i]
        OBVIOUS
      <4>1. l = k - 1 /\ n = m - k /\ \A i \in 1 .. n : rtRan[i] = rtReturned[m + 1 - i]
        BY <1>6, <1>9
      <4>2. n + 1 = m - l /\ m + 1 - (n + 1) = k
        BY <1>1, <1>5, <4>1
      <4>3. \A i \in 1 .. n + 1 : rtRan'[i] = rtReturned[m + 1 - i]
        BY <1>8, <4>1, <4>2
      <4> QED
        BY <4>2, <4>3
    <3> QED
      BY <1>2, <1>8, <1>10, <3>1, <3>2 DEF WalkedTo, m
  <2>2. l \in 0 .. Len(rtReturned')
    BY <1>1, <1>2, <1>5, <1>6 DEF m
  <2>3. \A i, j \in 1 .. n + 1 : i < j =>
          \E a, b \in 1 .. m : b < a /\ rtReturned[a] = rtRan'[i] /\ rtReturned[b] = rtRan'[j]
    <3> SUFFICES ASSUME NEW i \in 1 .. n + 1, NEW j \in 1 .. n + 1, i < j
                 PROVE  \E a, b \in 1 .. m : b < a /\ rtReturned[a] = rtRan'[i] /\ rtReturned[b] = rtRan'[j]
      OBVIOUS
    <3>1. i \in 1 .. n
      BY <1>1
    <3>2. CASE j \in 1 .. n
      <4>1. \E a, b \in 1 .. m : b < a /\ rtReturned[a] = rtRan[i] /\ rtReturned[b] = rtRan[j]
        BY <3>1, <3>2 DEF RtInv, RtWalk, m, n
      <4> QED
        BY <1>8, <3>1, <3>2, <4>1
    <3>3. CASE j = n + 1
      <4>1. PICK a \in k + 1 .. m : rtReturned[a] = rtRan[i]
        BY <1>9, <3>1
      <4>2. a \in 1 .. m /\ k < a
        BY <1>1, <1>5
      <4> QED
        BY <1>5, <1>8, <3>1, <3>3, <4>1, <4>2
    <3> QED
      BY <1>8, <3>2, <3>3
  <2> QED
    BY <1>2, <1>8, <2>1, <2>2, <2>3 DEF RtWalk, Before, m
<1>17. RtFreed'
  <2> SUFFICES ASSUME NEW i \in 1 .. m
               PROVE  rtReturned[i] \in rtLive' <=> \A j \in 1 .. n + 1 : rtRan'[j] # rtReturned[i]
    BY <1>2, <1>8 DEF RtFreed, m
  <2>1. rtReturned[i] \in rtLive <=> \A j \in 1 .. n : rtRan[j] # rtReturned[i]
    BY DEF RtInv, RtFreed, m, n
  <2>2. (\A j \in 1 .. n + 1 : rtRan'[j] # rtReturned[i])
        <=> (\A j \in 1 .. n : rtRan[j] # rtReturned[i]) /\ rtReturned[k] # rtReturned[i]
    <3>1. n + 1 \in 1 .. n + 1 /\ 1 .. n \subseteq 1 .. n + 1
      BY <1>1
    <3> QED
      BY <1>8, <3>1
  <2> QED
    BY <1>5, <1>12, <2>1, <2>2
<1> QED
  BY <1>13, <1>14, <1>15, <1>16, <1>17 DEF RtInv

LEMMA GoneStep ==
  ASSUME RtInv, Gone
  PROVE  RtInv'
<1>1. /\ rtPhase = "onexit" /\ rtPhase' = "gone" /\ rtNode = 0 /\ exittable' = 0
      /\ UNCHANGED <<rtNext, rtLive, rtAtexit, rtNode, rtRan, rtReturned, rtOverlap>>
  BY DEF Gone
<1>2. RtType' /\ RtList'
  BY <1>1 DEF RtInv, RtType, RtList, Phases, Before
<1>3. RtPending' /\ RtFreed'
  BY <1>1 DEF RtInv, RtPending, RtFreed
<1>4. RtWalk'
  BY <1>1 DEF RtInv, RtWalk, WalkedTo, Before
<1> QED
  BY <1>2, <1>3, <1>4 DEF RtInv

LEMMA RtInductive == RtInv /\ [RtNext]_rtVars => RtInv'
<1> SUFFICES ASSUME RtInv, [RtNext]_rtVars PROVE RtInv'
  OBVIOUS
<1>1. CASE UNCHANGED <<rtPhase, exitVars, rtNode, rtRan>>
  BY <1>1 DEF exitVars, RtInv, RtType, RtList, RtPending, RtWalk, WalkedTo, RtFreed
<1>2. CASE UNCHANGED rtVars
  BY <1>1, <1>2 DEF rtVars, exitVars
<1>3. CASE CRTINIT
  <2>1. rtPhase = "attach" /\ UNCHANGED <<rtNode, rtRan>>
    BY <1>3 DEF CRTINIT
  <2>2. CASE rtPhase' = "scrt" /\ UNCHANGED exitVars
    BY <2>1, <2>2, StartStep DEF Before
  <2>3. CASE rtPhase' = rtPhase /\ Atexit
    BY <2>1, <2>3, AtexitStep
  <2>4. CASE rtPhase' = rtPhase /\ UNCHANGED exitVars
    BY <1>1, <2>1, <2>4
  <2> QED
    BY <1>3, <2>2, <2>3, <2>4 DEF CRTINIT
<1>4. CASE scrt_init
  <2>1. rtPhase = "scrt" /\ UNCHANGED <<exitVars, rtRan>>
    BY <1>4 DEF scrt_init
  <2>2. CASE rtPhase' = "run" /\ rtNode' = rtNode
    BY <2>1, <2>2, StartStep DEF Before
  <2>3. CASE rtPhase' = "onexit" /\ rtNode' = exittable
    BY <2>1, <2>3, EndStep DEF Before
  <2>4. CASE UNCHANGED <<rtPhase, rtNode>>
    BY <1>1, <2>1, <2>4
  <2> QED
    BY <1>4, <2>2, <2>3, <2>4 DEF scrt_init
<1>5. CASE Detach
  BY <1>5, EndStep DEF Detach, Before
<1>6. ASSUME NEW code \in 0 .. 2, MessageOf(code) PROVE RtInv'
  BY <1>1, <1>6 DEF MessageOf
<1>7. CASE RtNext
  BY <1>3, <1>4, <1>5, <1>6, <1>7, RunHandlerStep, GoneStep, AtexitNodeStep, AtexitFirstStep DEF RtNext
<1> QED
  BY <1>2, <1>7

THEOREM RuntimeInvariance == RtSpec => []RtInv
<1> QED
  BY RtInitially, RtInductive, PTL DEF RtSpec

(* Handlers run in the opposite order of their registration, each once, and    *)
(* all that were registered before the process began to end have run and are   *)
(* freed when it is gone, unless two registrations overlapped (crt.c).         *)
THEOREM RuntimeCorrect == RtSpec => []ExitOrder
<1>1. RtInv => ExitOrder
  <2> SUFFICES ASSUME RtInv PROVE ExitOrder
    OBVIOUS
  <2> DEFINE m == Len(rtReturned)
             n == Len(rtRan)
  <2>1. /\ rtReturned \in Seq(Nat) /\ rtRan \in Seq(Nat) /\ m \in Nat /\ n \in Nat
        /\ Linked(rtNext, rtReturned, rtOverlap)
    BY DEF RtInv, RtType, RtList
  <2>2. \A i \in 1 .. n : \E a \in 1 .. m : rtReturned[a] = rtRan[i]
    <3>1. CASE rtPhase \in Before
      BY <3>1, NothingRan
    <3>2. CASE rtPhase \notin Before
      <4>1. PICK k \in 0 .. m : WalkedTo(k)
        BY <3>2 DEF RtInv, RtWalk
      <4>2. k + 1 .. m \subseteq 1 .. m
        BY <2>1
      <4>3. \A i \in 1 .. n : \E a \in k + 1 .. m : rtReturned[a] = rtRan[i]
        BY <4>1 DEF WalkedTo
      <4> QED
        BY <4>2, <4>3
    <3> QED
      BY <3>1, <3>2
  <2>7. DOMAIN rtReturned = 1 .. m /\ DOMAIN rtRan = 1 .. n
    BY <2>1
  <2>3. ToSet(rtRan) \subseteq ToSet(rtReturned)
    BY <2>2, <2>7 DEF ToSet
  <2>4. \A i, j \in DOMAIN rtRan : i < j =>
          \E a, b \in DOMAIN rtReturned : b < a /\ rtReturned[a] = rtRan[i] /\ rtReturned[b] = rtRan[j]
    BY <2>7 DEF RtInv, RtWalk
  <2>5. rtNode # 0 => rtNode \in rtLive
    <3> SUFFICES ASSUME rtNode # 0 PROVE rtNode \in rtLive
      OBVIOUS
    <3>1. rtPhase \notin Before
      BY NothingRan
    <3>2. PICK k \in 0 .. m : WalkedTo(k)
      BY <3>1 DEF RtInv, RtWalk
    <3>3. k \in 1 .. m /\ rtNode = rtReturned[k]
      BY <2>1, <3>2 DEF WalkedTo, NodeAt
    <3>4. \A a \in k + 1 .. m : a \in 1 .. m /\ a # k
      BY <2>1, <3>3
    <3>5. \A a \in k + 1 .. m : rtReturned[a] # rtReturned[k]
      BY <2>1, <3>3, <3>4 DEF Linked
    <3>6. \A j \in 1 .. n : rtRan[j] # rtReturned[k]
      BY <3>2, <3>5 DEF WalkedTo
    <3> QED
      BY <3>3, <3>6 DEF RtInv, RtFreed
  <2>6. ASSUME rtPhase = "gone", ~ rtOverlap
        PROVE  rtRan = Reverse(rtReturned) /\ rtLive \intersect ToSet(rtReturned) = {}
    <3>1. rtNode = 0
      BY <2>6 DEF RtInv, RtWalk
    <3>2. PICK k \in 0 .. m : WalkedTo(k)
      BY <2>6 DEF RtInv, RtWalk, Before
    <3>3. k = 0
      <4>1. k # 0 => rtReturned[k] \in 1 .. Len(rtNext) /\ rtNode = rtReturned[k]
        BY <2>1, <3>2 DEF WalkedTo, NodeAt, Linked
      <4> QED
        BY <3>1, <4>1
    <3>4. n = m /\ \A i \in 1 .. n : rtRan[i] = rtReturned[m + 1 - i]
      BY <2>1, <2>6, <3>2, <3>3 DEF WalkedTo
    <3>5. rtRan = Reverse(rtReturned)
      <4>1. rtRan = [i \in 1 .. n |-> rtRan[i]]
        BY <2>1
      <4>2. rtRan = [i \in 1 .. m |-> rtReturned[m + 1 - i]]
        BY <3>4, <4>1
      <4>3. Reverse(rtReturned) = [i \in 1 .. m |-> rtReturned[m - i + 1]]
        BY DEF Reverse
      <4>4. \A i \in 1 .. m : m + 1 - i = m - i + 1
        BY <2>1
      <4> QED
        BY <4>2, <4>3, <4>4
    <3>6. \A i \in 1 .. m : rtReturned[i] \notin rtLive
      <4> SUFFICES ASSUME NEW i \in 1 .. m PROVE rtReturned[i] \notin rtLive
        OBVIOUS
      <4>1. m + 1 - i \in 1 .. n /\ m + 1 - (m + 1 - i) = i
        BY <2>1, <3>4
      <4>2. rtRan[m + 1 - i] = rtReturned[i]
        BY <3>4, <4>1
      <4> QED
        BY <4>1, <4>2 DEF RtInv, RtFreed
    <3> QED
      BY <2>7, <3>5, <3>6 DEF ToSet
  <2> QED
    BY <2>3, <2>4, <2>5, <2>6 DEF ExitOrder
<1> QED
  BY <1>1, RuntimeInvariance, PTL

-----------------------------------------------------------------------------
(* C++ exceptions.                                                             *)

\* The least and the first member of what is not empty.
LEMMA MinIs ==
  ASSUME NEW S \in SUBSET Nat, S # {}
  PROVE  Min(S) \in S /\ \A y \in S : Min(S) <= y
<1>1. \E x \in S : \A y \in S : x <= y
  BY LeastNumber
<1> QED
  BY <1>1 DEF Min

LEMMA FirstIs ==
  ASSUME NEW A \in SUBSET Nat, NEW B \in SUBSET Nat, NEW S \in SUBSET (A \X B), S # {}
  PROVE  First(S) \in S
<1> DEFINE clauses == {x \in A : \E y \in B : <<x, y>> \in S}
           x0 == Min(clauses)
           types == {y \in B : <<x0, y>> \in S}
           y0 == Min(types)
<1>0. \A s \in S : \E x \in A, y \in B : s = <<x, y>>
  <2> TAKE s \in S
  <2>1. s \in A \X B
    OBVIOUS
  <2>2. s[1] \in A /\ s[2] \in B /\ s = <<s[1], s[2]>>
    BY <2>1
  <2> QED
    BY <2>2
<1>1. x0 \in clauses /\ \A x \in clauses : x0 <= x
  <2>1. clauses # {}
    <3>1. PICK s \in S : TRUE
      OBVIOUS
    <3> QED
      BY <1>0, <3>1
  <2> QED
    BY <2>1, MinIs
<1>2. y0 \in types /\ \A y \in types : y0 <= y
  <2>1. types # {}
    BY <1>1
  <2> QED
    BY <2>1, MinIs
<1>3. /\ <<x0, y0>> \in S /\ x0 \in Nat /\ y0 \in Nat
      /\ \A x \in A, y \in B : <<x, y>> \in S => x0 <= x /\ (x = x0 => y0 <= y)
  BY <1>1, <1>2
<1> HIDE DEF x0, y0
<1>4. \A other \in S : <<x0, y0>>[1] < other[1] \/ (<<x0, y0>>[1] = other[1] /\ <<x0, y0>>[2] <= other[2])
  <2> TAKE other \in S
  <2>1. PICK x \in A, y \in B : other = <<x, y>>
    BY <1>0
  <2>2. x0 < x \/ (x0 = x /\ y0 <= y)
    BY <1>3, <2>1
  <2> QED
    BY <2>1, <2>2
<1>5. \E hc \in S : \A other \in S : hc[1] < other[1] \/ (hc[1] = other[1] /\ hc[2] <= other[2])
  BY <1>3, <1>4
<1> QED
  BY <1>5 DEF First

-----------------------------------------------------------------------------
(* The stack.                                                                  *)

Maps == (DOMAIN Image) \cup {Zero}
Frames == [kind : {"cxx", "call"}, fn : Function, ip : Int, record : Nat, destruct : BOOLEAN,
           cont : [0 .. 1 -> Int]]
Records == [object : Nat, type : (DOMAIN Thrown) \cup {NoType}, tryDisplacement : Maps, tryBlock : Nat]

EhTyped ==
  /\ ehFrames \in Seq(Frames) /\ ehRecords \in Seq(Records) /\ ehDestroyed \in Seq(Nat)
  /\ Len(ehDestroyed) = Len(ehRecords)
  /\ ehMode \in {"run", "search", "dead"} /\ ehAt \in 0 .. Len(ehFrames)
  /\ ehMode = "run" => ehAt = 0
  /\ ehMode = "search" => ehRecords # <<>>

IsCall(frames, i) == frames[i].kind = "call"
CatchBlock(f) == "isCatch" \in Info[f].flags
\* The block of f that the record of a caught exception names.
Names(record, f) == record.tryDisplacement = DecompFuncInfo(f).dispTryBlockMap /\ record.tryBlock # 0

\* A call of a catch block is between the function that catches and the block,
\* catch blocks run nowhere else, and later calls are of later throws.
CallsApart(frames, records) ==
  /\ \A i \in 1 .. Len(frames) : IsCall(frames, i) =>
       /\ i > 1 /\ frames[i - 1].kind = "cxx"
       /\ i < Len(frames) /\ frames[i + 1].kind = "cxx" /\ CatchBlock(frames[i + 1].fn)
       /\ frames[i].record \in 1 .. Len(records)
       /\ records[frames[i].record].type # NoType
       /\ Names(records[frames[i].record], frames[i - 1].fn)
  /\ \A i \in 1 .. Len(frames) : frames[i].kind = "cxx" /\ CatchBlock(frames[i].fn) =>
       i > 1 /\ IsCall(frames, i - 1)
  /\ \A i, j \in 1 .. Len(frames) : IsCall(frames, i) /\ IsCall(frames, j) /\ i < j =>
       frames[i].record < frames[j].record

\* The object of a throw is its own; a rethrow has none.
ObjectsOwn(records) ==
  \A r \in 1 .. Len(records) : records[r].object = IF records[r].type = NoType THEN 0 ELSE r

\* The calls a search has passed no longer hold their object.
Held(frames, mode, at) ==
  \A i \in 1 .. Len(frames) : IsCall(frames, i) => (frames[i].destruct <=> ~(mode = "search" /\ i > at))
\* A search is for a throw that nobody has caught.
InFlight == ehMode = "search" =>
  \A i \in 1 .. Len(ehFrames) : IsCall(ehFrames, i) => ehFrames[i].record < Current

\* What the search is to skip: nothing, or what the last call it passed has caught.
Skips == ehMode = "search" =>
  LET passed == {i \in 1 .. Len(ehFrames) : i > ehAt /\ IsCall(ehFrames, i)}
      record == ehRecords[Current]
  IN /\ passed = {} => record.tryDisplacement = Zero /\ record.tryBlock = 0
     /\ \A i \in passed : (\A j \in passed : i <= j) =>
          /\ record.tryDisplacement = ehRecords[ehFrames[i].record].tryDisplacement
          /\ record.tryBlock = ehRecords[ehFrames[i].record].tryBlock
\* What is open in frame k of a stack, and a function that is there twice.
LeftIn(F, R, k) == IF k < Len(F) /\ IsCall(F, k + 1) THEN R[F[k + 1].record].tryBlock ELSE 0
OwedIn(F, R, k, type) ==
  LET info == DecompFuncInfo(F[k].fn)
      state == StateFromIp(info, F[k].ip)
      blocks == TryBlocks(info)
  IN {b \in DOMAIN blocks : /\ blocks[b].tryLow <= state /\ state <= blocks[b].tryHigh
                            /\ b > LeftIn(F, R, k) /\ Fits(F[k].fn, b, type) # {}}
TwiceIn(F) == \E i, k \in 1 .. Len(F) : /\ i # k /\ F[i].fn = F[k].fn
                                         /\ F[i].kind = "cxx" /\ F[k].kind = "cxx"
\* No frame that the search has passed has a block for the type.
PassedOver == ehMode = "search" /\ ~TwiceIn(ehFrames) /\ ehRecords[Current].type # NoType =>
  \A k \in 1 .. Len(ehFrames) :
    k > ehAt /\ ehFrames[k].kind = "cxx" => OwedIn(ehFrames, ehRecords, k, ehRecords[Current].type) = {}

\* What the code does with the objects: one is destroyed when no search is for
\* its own throw and no call holds it, whether "throw;" throws it again or not.
DestroyedOnRelease ==
  ehMode # "dead" => \A r \in DOMAIN ehRecords :
    LET held == \/ ehMode = "search" /\ r = Current
                \/ \E i \in DOMAIN ehFrames : /\ ehFrames[i].kind = "call" /\ ehFrames[i].destruct
                                              /\ ehFrames[i].record = r
    IN ehRecords[r].type # NoType => ehDestroyed[r] = IF held THEN 0 ELSE 1

EhStack == CallsApart(ehFrames, ehRecords) /\ Held(ehFrames, ehMode, ehAt) /\ InFlight
EhInv == /\ EhTyped
         /\ ehMode # "dead" => EhStack /\ ObjectsOwn(ehRecords) /\ DestroyedOnRelease /\ Skips /\ PassedOver

LEMMA EhInitially == EHInit => EhInv
<1> SUFFICES ASSUME EHInit PROVE EhInv
  OBVIOUS
<1>1. /\ ehFrames = <<>> /\ ehRecords = <<>> /\ ehDestroyed = <<>> /\ ehMode = "run" /\ ehAt = 0
  BY DEF EHInit
<1>2. EhTyped
  BY <1>1 DEF EhTyped
<1>3. EhStack /\ ObjectsOwn(ehRecords)
  BY <1>1 DEF EhStack, CallsApart, Held, InFlight, ObjectsOwn
<1>4. DestroyedOnRelease
  BY <1>1 DEF DestroyedOnRelease
<1>5. Skips /\ PassedOver
  BY <1>1 DEF Skips, PassedOver
<1> QED
  BY <1>2, <1>3, <1>4, <1>5 DEF EhInv

\* The lower part of a stack, whatever its frames have come to be otherwise.
SameFrames(F, G) ==
  \A i \in 1 .. Len(G) : G[i].kind = F[i].kind /\ G[i].fn = F[i].fn /\ G[i].record = F[i].record

LEMMA LowerPart ==
  ASSUME NEW R, NEW F \in Seq(Frames), NEW G \in Seq(Frames), CallsApart(F, R), Len(G) <= Len(F),
         SameFrames(F, G), Len(G) > 0 => ~IsCall(F, Len(G))
  PROVE  CallsApart(G, R)
<1>0. Len(F) \in Nat /\ Len(G) \in Nat
  OBVIOUS
<1>1. ASSUME NEW i \in 1 .. Len(G), IsCall(G, i)
      PROVE  /\ i > 1 /\ G[i - 1].kind = "cxx"
             /\ i < Len(G) /\ G[i + 1].kind = "cxx" /\ CatchBlock(G[i + 1].fn)
             /\ G[i].record \in 1 .. Len(R)
             /\ R[G[i].record].type # NoType
             /\ Names(R[G[i].record], G[i - 1].fn)
  <2>1. i \in 1 .. Len(F) /\ IsCall(F, i) /\ G[i].record = F[i].record
    BY <1>0, <1>1 DEF IsCall, SameFrames
  <2>2. /\ i > 1 /\ F[i - 1].kind = "cxx"
        /\ F[i + 1].kind = "cxx" /\ CatchBlock(F[i + 1].fn)
        /\ F[i].record \in 1 .. Len(R) /\ R[F[i].record].type # NoType
        /\ Names(R[F[i].record], F[i - 1].fn)
    BY <2>1 DEF CallsApart
  <2>3. i < Len(G)
    BY <1>0, <2>1
  <2>4. i - 1 \in 1 .. Len(G) /\ i + 1 \in 1 .. Len(G)
    BY <1>0, <2>2, <2>3
  <2>5. G[i - 1].kind = F[i - 1].kind /\ G[i - 1].fn = F[i - 1].fn
        /\ G[i + 1].kind = F[i + 1].kind /\ G[i + 1].fn = F[i + 1].fn
    BY <2>4 DEF SameFrames
  <2> QED
    BY <2>1, <2>2, <2>3, <2>5
<1>2. ASSUME NEW i \in 1 .. Len(G), G[i].kind = "cxx", CatchBlock(G[i].fn)
      PROVE  i > 1 /\ IsCall(G, i - 1)
  <2>1. i \in 1 .. Len(F) /\ F[i].kind = "cxx" /\ CatchBlock(F[i].fn)
    BY <1>0, <1>2 DEF SameFrames
  <2>2. i > 1 /\ IsCall(F, i - 1)
    BY <2>1 DEF CallsApart
  <2> QED
    BY <1>0, <2>2 DEF SameFrames, IsCall
<1>3. ASSUME NEW i \in 1 .. Len(G), NEW j \in 1 .. Len(G), IsCall(G, i), IsCall(G, j), i < j
      PROVE  G[i].record < G[j].record
  <2>1. i \in 1 .. Len(F) /\ j \in 1 .. Len(F) /\ IsCall(F, i) /\ IsCall(F, j)
        /\ G[i].record = F[i].record /\ G[j].record = F[j].record
    BY <1>0, <1>3 DEF IsCall, SameFrames
  <2> QED
    BY <1>3, <2>1 DEF CallsApart
<1> QED
  BY <1>1, <1>2, <1>3 DEF CallsApart

\* A function is called on top.
LEMMA CallOnTop ==
  ASSUME NEW R, NEW F \in Seq(Frames), NEW x \in Frames, CallsApart(F, R),
         x.kind = "cxx", ~CatchBlock(x.fn)
  PROVE  CallsApart(Append(F, x), R)
<1> DEFINE G == Append(F, x)
<1>1. Len(F) \in Nat /\ Len(G) = Len(F) + 1 /\ G[Len(F) + 1] = x /\ \A i \in 1 .. Len(F) : G[i] = F[i]
  OBVIOUS
<1> HIDE DEF G
<1>2. \A i \in 1 .. Len(G) : IsCall(G, i) => i \in 1 .. Len(F) /\ IsCall(F, i) /\ i < Len(F)
  BY <1>1 DEF IsCall, CallsApart
<1>3. ASSUME NEW i \in 1 .. Len(G), IsCall(G, i)
      PROVE  /\ i > 1 /\ G[i - 1].kind = "cxx"
             /\ i < Len(G) /\ G[i + 1].kind = "cxx" /\ CatchBlock(G[i + 1].fn)
             /\ G[i].record \in 1 .. Len(R)
             /\ R[G[i].record].type # NoType
             /\ Names(R[G[i].record], G[i - 1].fn)
  <2>1. i \in 1 .. Len(F) /\ IsCall(F, i) /\ i < Len(F)
    BY <1>2, <1>3
  <2>2. /\ i > 1 /\ F[i - 1].kind = "cxx"
        /\ F[i + 1].kind = "cxx" /\ CatchBlock(F[i + 1].fn)
        /\ F[i].record \in 1 .. Len(R) /\ R[F[i].record].type # NoType
        /\ Names(R[F[i].record], F[i - 1].fn)
    BY <2>1 DEF CallsApart
  <2>3. G[i - 1] = F[i - 1] /\ G[i] = F[i] /\ G[i + 1] = F[i + 1] /\ i < Len(G)
    BY <1>1, <2>1, <2>2
  <2> QED
    BY <2>2, <2>3
<1>4. ASSUME NEW i \in 1 .. Len(G), G[i].kind = "cxx", CatchBlock(G[i].fn)
      PROVE  i > 1 /\ IsCall(G, i - 1)
  <2>1. i \in 1 .. Len(F) /\ G[i] = F[i]
    BY <1>1, <1>4
  <2>2. i > 1 /\ IsCall(F, i - 1)
    BY <1>4, <2>1 DEF CallsApart
  <2> QED
    BY <1>1, <2>1, <2>2 DEF IsCall
<1>5. ASSUME NEW i \in 1 .. Len(G), NEW j \in 1 .. Len(G), IsCall(G, i), IsCall(G, j), i < j
      PROVE  G[i].record < G[j].record
  <2>1. i \in 1 .. Len(F) /\ j \in 1 .. Len(F) /\ IsCall(F, i) /\ IsCall(F, j) /\ G[i] = F[i] /\ G[j] = F[j]
    BY <1>1, <1>2, <1>5
  <2> QED
    BY <1>5, <2>1 DEF CallsApart
<1> QED
  BY <1>3, <1>4, <1>5 DEF CallsApart, G

\* The records of the calls are all that counts.
LEMMA SameCaught ==
  ASSUME NEW R \in Seq(Records), NEW S \in Seq(Records), NEW F, CallsApart(F, R), Len(S) >= Len(R),
         \A i \in 1 .. Len(F) : IsCall(F, i) => S[F[i].record] = R[F[i].record]
  PROVE  CallsApart(F, S)
<1>1. Len(R) \in Nat /\ Len(S) \in Nat
  OBVIOUS
<1>2. \A i \in 1 .. Len(F) : IsCall(F, i) => F[i].record \in 1 .. Len(S)
  BY <1>1 DEF CallsApart
<1> QED
  BY <1>2 DEF CallsApart

\* The call that has the object of throw r, in a stack.
Holder(F, r, i) == i \in 1 .. Len(F) /\ IsCall(F, i) /\ F[i].destruct /\ F[i].record = r
DestroyedOnce(F, R, destroyed, mode) ==
  \A r \in 1 .. Len(R) : R[r].type # NoType =>
    IF (mode = "search" /\ r = Len(R)) \/ (\E i : Holder(F, r, i)) THEN destroyed[r] = 0 ELSE destroyed[r] = 1

LEMMA DestroyedIs ==
  ASSUME EhTyped
  PROVE  DestroyedOnRelease <=>
           (ehMode # "dead" => DestroyedOnce(ehFrames, ehRecords, ehDestroyed, ehMode))
<1>1. /\ DOMAIN ehRecords = 1 .. Len(ehRecords) /\ DOMAIN ehFrames = 1 .. Len(ehFrames)
  BY DEF EhTyped
<1>2. \A r : (\E i \in DOMAIN ehFrames : /\ ehFrames[i].kind = "call" /\ ehFrames[i].destruct
                                         /\ ehFrames[i].record = r)
             <=> \E i : Holder(ehFrames, r, i)
  BY <1>1 DEF Holder, IsCall
<1> QED
  <2> DEFINE R == ehRecords
             Seen(r) == \E i \in DOMAIN ehFrames : /\ ehFrames[i].kind = "call" /\ ehFrames[i].destruct
                                                  /\ ehFrames[i].record = r
             Found(r) == \E i : Holder(ehFrames, r, i)
             Now(r) == ehMode = "search" /\ r = Len(R)
             One == \A r \in DOMAIN R :
                      R[r].type # NoType => ehDestroyed[r] = IF Now(r) \/ Seen(r) THEN 0 ELSE 1
             Two == \A r \in 1 .. Len(R) :
                      R[r].type # NoType =>
                        IF Now(r) \/ Found(r) THEN ehDestroyed[r] = 0 ELSE ehDestroyed[r] = 1
  <2>1. DestroyedOnRelease <=> (ehMode # "dead" => One)
    BY DEF DestroyedOnRelease, Current
  <2>2. DestroyedOnce(ehFrames, R, ehDestroyed, ehMode) <=> Two
    BY DEF DestroyedOnce
  <2>3. DOMAIN R = 1 .. Len(R) /\ \A r : Seen(r) <=> Found(r)
    BY <1>1, <1>2
  <2> HIDE DEF R, Seen, Found, Now
  <2>4. One <=> Two
    BY <2>3
  <2> HIDE DEF One, Two
  <2>5. DestroyedOnce(ehFrames, ehRecords, ehDestroyed, ehMode) <=> Two
    BY <2>2 DEF R
  <2> QED
    BY <2>1, <2>4, <2>5

LEMMA DestroyedIsNext ==
  ASSUME EhTyped'
  PROVE  DestroyedOnRelease' <=>
           (ehMode' # "dead" => DestroyedOnce(ehFrames', ehRecords', ehDestroyed', ehMode'))
<1>1. /\ DOMAIN ehRecords' = 1 .. Len(ehRecords') /\ DOMAIN ehFrames' = 1 .. Len(ehFrames')
  BY DEF EhTyped
<1>2. \A r : (\E i \in DOMAIN ehFrames' : /\ ehFrames'[i].kind = "call" /\ ehFrames'[i].destruct
                                          /\ ehFrames'[i].record = r)
             <=> \E i : Holder(ehFrames', r, i)
  BY <1>1 DEF Holder, IsCall
<1> QED
  <2> DEFINE R == ehRecords'
             Seen(r) == \E i \in DOMAIN ehFrames' : /\ ehFrames'[i].kind = "call" /\ ehFrames'[i].destruct
                                                   /\ ehFrames'[i].record = r
             Found(r) == \E i : Holder(ehFrames', r, i)
             Now(r) == ehMode' = "search" /\ r = Len(R)
             One == \A r \in DOMAIN R :
                      R[r].type # NoType => ehDestroyed'[r] = IF Now(r) \/ Seen(r) THEN 0 ELSE 1
             Two == \A r \in 1 .. Len(R) :
                      R[r].type # NoType =>
                        IF Now(r) \/ Found(r) THEN ehDestroyed'[r] = 0 ELSE ehDestroyed'[r] = 1
  <2>1. DestroyedOnRelease' <=> (ehMode' # "dead" => One)
    BY DEF DestroyedOnRelease, Current
  <2>2. DestroyedOnce(ehFrames', R, ehDestroyed', ehMode') <=> Two
    BY DEF DestroyedOnce
  <2>3. DOMAIN R = 1 .. Len(R) /\ \A r : Seen(r) <=> Found(r)
    BY <1>1, <1>2
  <2> HIDE DEF R, Seen, Found, Now
  <2>4. One <=> Two
    BY <2>3
  <2> HIDE DEF One, Two
  <2>5. DestroyedOnce(ehFrames', ehRecords', ehDestroyed', ehMode') <=> Two
    BY <2>2 DEF R
  <2> QED
    BY <2>1, <2>4, <2>5

\* A step of a program that runs, which leaves the calls as they are.
LEMMA RunsOn ==
  ASSUME EhInv, ehMode = "run", EhTyped', UNCHANGED <<ehRecords, ehMode, ehAt, ehDestroyed>>,
         CallsApart(ehFrames', ehRecords),
         \A i : i \in 1 .. Len(ehFrames') /\ IsCall(ehFrames', i) =>
           i \in 1 .. Len(ehFrames) /\ IsCall(ehFrames, i) /\ ehFrames'[i].destruct = ehFrames[i].destruct,
         \A r, i : Holder(ehFrames', r, i) <=> Holder(ehFrames, r, i)
  PROVE  EhInv'
<1>1. EhTyped /\ EhStack /\ ObjectsOwn(ehRecords) /\ DestroyedOnRelease
  BY DEF EhInv
<1>2. Held(ehFrames', ehMode', ehAt')
  BY <1>1 DEF Held, EhStack
<1>3. EhStack'
  BY <1>2 DEF EhStack, InFlight
<1>4. DestroyedOnRelease'
  <2>1. DestroyedOnce(ehFrames, ehRecords, ehDestroyed, ehMode)
    BY <1>1, DestroyedIs
  <2>2. DestroyedOnce(ehFrames', ehRecords', ehDestroyed', ehMode')
    BY <2>1 DEF DestroyedOnce
  <2> QED
    BY <2>2, DestroyedIsNext
<1>5. Skips' /\ PassedOver'
  BY DEF Skips, PassedOver
<1> QED
  BY <1>1, <1>3, <1>4, <1>5 DEF EhInv

LEMMA FunctionCalled ==
  ASSUME EhInv, NEW f \in Function, CallFunction(f)
  PROVE  EhInv'
<1> DEFINE x == CxxFrame(f, 0)
<1>1. /\ ehMode = "run" /\ ~CatchBlock(f) /\ ehFrames' = Append(ehFrames, x)
      /\ UNCHANGED <<ehRecords, ehMode, ehAt, ehDestroyed>>
  BY DEF CallFunction, CatchBlock
<1>2. EhTyped /\ CallsApart(ehFrames, ehRecords) /\ Held(ehFrames, ehMode, ehAt)
  BY <1>1 DEF EhInv, EhStack
<1>3. x \in Frames /\ x.kind = "cxx" /\ x.fn = f
  BY DEF CxxFrame, Frames
<1> HIDE DEF x
<1>4. /\ ehFrames' \in Seq(Frames) /\ Len(ehFrames') = Len(ehFrames) + 1 /\ Len(ehFrames) \in Nat
      /\ ehFrames'[Len(ehFrames) + 1] = x /\ \A i \in 1 .. Len(ehFrames) : ehFrames'[i] = ehFrames[i]
  BY <1>1, <1>2, <1>3 DEF EhTyped
<1>5. EhTyped'
  BY <1>1, <1>2, <1>4 DEF EhTyped
<1>6. CallsApart(ehFrames', ehRecords)
  BY <1>1, <1>2, <1>3, CallOnTop DEF EhTyped
<1>7. \A i : i \in 1 .. Len(ehFrames') /\ IsCall(ehFrames', i) =>
        i \in 1 .. Len(ehFrames) /\ IsCall(ehFrames, i) /\ ehFrames'[i].destruct = ehFrames[i].destruct
  BY <1>3, <1>4 DEF IsCall
<1>8. \A r, i : Holder(ehFrames', r, i) <=> Holder(ehFrames, r, i)
  BY <1>3, <1>4 DEF Holder, IsCall
<1> QED
  BY <1>1, <1>5, <1>6, <1>7, <1>8, RunsOn

LEMMA GoOnInv ==
  ASSUME EhInv, NEW ip, GoOn(ip), ip \in Int
  PROVE  EhInv'
<1> DEFINE n == Len(ehFrames)
<1>1. /\ ehMode = "run" /\ ehFrames # <<>> /\ ehFrames' = [ehFrames EXCEPT ![n].ip = ip]
      /\ UNCHANGED <<ehRecords, ehMode, ehAt, ehDestroyed>>
  BY DEF GoOn
<1>2. EhTyped /\ CallsApart(ehFrames, ehRecords) /\ Held(ehFrames, ehMode, ehAt)
  BY <1>1 DEF EhInv, EhStack
<1>3. n \in Nat /\ n \in 1 .. Len(ehFrames) /\ ehFrames[n] \in Frames
  BY <1>1, <1>2 DEF EhTyped
<1>4. /\ ehFrames' \in Seq(Frames) /\ Len(ehFrames') = n
      /\ \A i \in 1 .. n : ehFrames'[i] = IF i = n THEN [ehFrames[n] EXCEPT !.ip = ip] ELSE ehFrames[i]
  <2>1. [ehFrames[n] EXCEPT !.ip = ip] \in Frames
    BY <1>3 DEF Frames
  <2> QED
    BY <1>1, <1>2, <1>3, <2>1 DEF EhTyped
<1>5. \A i \in 1 .. n : /\ ehFrames'[i].kind = ehFrames[i].kind /\ ehFrames'[i].fn = ehFrames[i].fn
                        /\ ehFrames'[i].record = ehFrames[i].record
                        /\ ehFrames'[i].destruct = ehFrames[i].destruct
  BY <1>3, <1>4 DEF Frames
<1> HIDE DEF n
<1>6. EhTyped'
  BY <1>1, <1>2, <1>4 DEF EhTyped, n
<1>7. CallsApart(ehFrames', ehRecords)
  <2>1. ~IsCall(ehFrames, n)
    BY <1>2, <1>3 DEF CallsApart, n
  <2>2. SameFrames(ehFrames, ehFrames')
    BY <1>4, <1>5 DEF SameFrames
  <2>3. ehFrames \in Seq(Frames) /\ ehFrames' \in Seq(Frames) /\ Len(ehFrames') <= Len(ehFrames)
    BY <1>2, <1>3, <1>4 DEF EhTyped, n
  <2> QED
    BY <1>2, <1>4, <2>1, <2>2, <2>3, LowerPart
<1>8. \A i : i \in 1 .. Len(ehFrames') /\ IsCall(ehFrames', i) =>
        i \in 1 .. Len(ehFrames) /\ IsCall(ehFrames, i) /\ ehFrames'[i].destruct = ehFrames[i].destruct
  BY <1>4, <1>5 DEF IsCall, n
<1>9. \A r, i : Holder(ehFrames', r, i) <=> Holder(ehFrames, r, i)
  BY <1>4, <1>5 DEF Holder, IsCall, n
<1> QED
  BY <1>1, <1>6, <1>7, <1>8, <1>9, RunsOn

LEMMA ReturnInv ==
  ASSUME EhInv, Return
  PROVE  EhInv'
<1> DEFINE n == Len(ehFrames)
<1>1. /\ ehMode = "run" /\ ehFrames # <<>> /\ ~CatchBlock(ehFrames[n].fn)
      /\ ehFrames' = SubSeq(ehFrames, 1, n - 1)
      /\ UNCHANGED <<ehRecords, ehMode, ehAt, ehDestroyed>>
  BY DEF Return, Front, Top, Last, CatchBlock
<1>2. EhTyped /\ CallsApart(ehFrames, ehRecords) /\ Held(ehFrames, ehMode, ehAt)
  BY <1>1 DEF EhInv, EhStack
<1>3. n \in Nat \ {0} /\ ehFrames \in Seq(Frames)
  BY <1>1, <1>2 DEF EhTyped
<1>4. /\ ehFrames' \in Seq(Frames) /\ Len(ehFrames') = n - 1
      /\ \A i \in 1 .. n - 1 : ehFrames'[i] = ehFrames[i]
  BY <1>1, <1>3, FrontIs
<1>5. \A i \in 1 .. n : IsCall(ehFrames, i) => i < n /\ i + 1 < n
  BY <1>1, <1>2, <1>3 DEF CallsApart
<1> HIDE DEF n
<1>6. EhTyped'
  BY <1>1, <1>2, <1>3, <1>4 DEF EhTyped
<1>7. CallsApart(ehFrames', ehRecords)
  <2>1. Len(ehFrames') > 0 => ~IsCall(ehFrames, Len(ehFrames'))
    BY <1>3, <1>4, <1>5
  <2>2. SameFrames(ehFrames, ehFrames')
    BY <1>4 DEF SameFrames
  <2>3. Len(ehFrames') <= Len(ehFrames)
    BY <1>3, <1>4 DEF n
  <2> QED
    BY <1>2, <1>3, <1>4, <2>1, <2>2, <2>3, LowerPart
<1>8. \A i : i \in 1 .. Len(ehFrames') /\ IsCall(ehFrames', i) =>
        i \in 1 .. Len(ehFrames) /\ IsCall(ehFrames, i) /\ ehFrames'[i].destruct = ehFrames[i].destruct
  BY <1>3, <1>4 DEF IsCall, n
<1>9. \A r, i : Holder(ehFrames', r, i) <=> Holder(ehFrames, r, i)
  BY <1>3, <1>4, <1>5 DEF Holder, IsCall, n
<1> QED
  BY <1>1, <1>6, <1>7, <1>8, <1>9, RunsOn

\* The object of a caught exception goes.
LEMMA Destroyed ==
  ASSUME EhTyped, ObjectsOwn(ehRecords), NEW q \in 1 .. Len(ehRecords), ehRecords[q].type # NoType
  PROVE  /\ DestructExceptionObject(q) \in Seq(Nat)
         /\ Len(DestructExceptionObject(q)) = Len(ehDestroyed)
         /\ \A r \in 1 .. Len(ehRecords) :
              DestructExceptionObject(q)[r] = IF r = q THEN ehDestroyed[q] + 1 ELSE ehDestroyed[r]
<1>1. ehRecords[q].object = q
  BY DEF ObjectsOwn
<1>2. DestructExceptionObject(q) = [ehDestroyed EXCEPT ![q] = ehDestroyed[q] + 1]
  BY <1>1 DEF DestructExceptionObject
<1>3. ehDestroyed \in Seq(Nat) /\ Len(ehDestroyed) = Len(ehRecords) /\ Len(ehRecords) \in Nat
  BY DEF EhTyped
<1>4. ehDestroyed[q] + 1 \in Nat
  BY <1>3
<1> QED
  BY <1>2, <1>3, <1>4

LEMMA CatchReturnsInv ==
  ASSUME EhInv, NEW index \in 0 .. 1, CatchReturns(index)
  PROVE  EhInv'
<1> DEFINE n == Len(ehFrames)
           call == ehFrames[n - 1]
           rest == SubSeq(ehFrames, 1, n - 2)
           q == call.record
           x == [ehFrames[n - 2] EXCEPT !.ip = call.cont[index] - Start[call.fn]]
<1>1. /\ ehMode = "run" /\ n > 2 /\ CatchBlock(ehFrames[n].fn)
      /\ ehFrames' = [rest EXCEPT ![Len(rest)].ip = call.cont[index] - Start[call.fn]]
      /\ ehDestroyed' = IF call.destruct THEN DestructExceptionObject(q) ELSE ehDestroyed
      /\ UNCHANGED <<ehRecords, ehMode, ehAt>>
  BY DEF CatchReturns, Top, Last, CatchBlock
<1>2. EhTyped /\ CallsApart(ehFrames, ehRecords) /\ Held(ehFrames, ehMode, ehAt) /\ ObjectsOwn(ehRecords)
      /\ DestroyedOnRelease
  BY <1>1 DEF EhInv, EhStack
<1>3. n \in Nat /\ n > 2 /\ ehFrames \in Seq(Frames) /\ \A i \in 1 .. n : ehFrames[i] \in Frames
  BY <1>1, <1>2 DEF EhTyped
<1>4. IsCall(ehFrames, n - 1)
  <2>1. ~IsCall(ehFrames, n)
    BY <1>2, <1>3 DEF CallsApart
  <2>2. ehFrames[n].kind = "cxx"
    <3>1. n \in 1 .. n
      BY <1>3
    <3>2. ehFrames[n] \in Frames
      BY <1>3, <3>1
    <3>3. ehFrames[n].kind \in {"cxx", "call"}
      BY <3>2 DEF Frames
    <3> QED
      BY <2>1, <3>3 DEF IsCall
  <2> QED
    BY <1>1, <1>2, <1>3, <2>2 DEF CallsApart
<1>5. /\ ehFrames[n - 2].kind = "cxx" /\ q \in 1 .. Len(ehRecords) /\ ehRecords[q].type # NoType
      /\ call.destruct
  <2>1. n - 1 \in 1 .. Len(ehFrames) /\ n - 1 - 1 = n - 2
    BY <1>3
  <2> QED
    BY <1>1, <1>2, <1>4, <2>1 DEF CallsApart, Held
<1>6. /\ rest \in Seq(Frames) /\ Len(rest) = n - 2 /\ \A i \in 1 .. n - 2 : rest[i] = ehFrames[i]
  BY <1>3
<1>7. x \in Frames /\ x.kind = "cxx"
  <2>1. call \in Frames /\ ehFrames[n - 2] \in Frames
    BY <1>3
  <2>2. call.cont[index] - Start[call.fn] \in Int
    BY <2>1, TablesAssumption DEF Frames
  <2> QED
    BY <1>5, <2>1, <2>2 DEF Frames
<1>8. /\ ehFrames' \in Seq(Frames) /\ Len(ehFrames') = n - 2
      /\ \A i \in 1 .. n - 2 : ehFrames'[i] = IF i = n - 2 THEN x ELSE ehFrames[i]
  <2>1. n - 2 \in 1 .. Len(rest) /\ rest[n - 2] = ehFrames[n - 2]
    BY <1>3, <1>6
  <2>2. ehFrames' = [rest EXCEPT ![n - 2] = x]
    BY <1>1, <1>6, <2>1
  <2> HIDE DEF x, rest
  <2> QED
    BY <1>3, <1>6, <1>7, <2>1, <2>2
<1>9. \A i \in 1 .. n - 2 : /\ ehFrames'[i].kind = ehFrames[i].kind /\ ehFrames'[i].fn = ehFrames[i].fn
                            /\ ehFrames'[i].record = ehFrames[i].record
                            /\ ehFrames'[i].destruct = ehFrames[i].destruct
  <2>1. /\ x.kind = ehFrames[n - 2].kind /\ x.fn = ehFrames[n - 2].fn
        /\ x.record = ehFrames[n - 2].record /\ x.destruct = ehFrames[n - 2].destruct
    <3>1. ehFrames[n - 2] \in Frames
      BY <1>3
    <3> QED
      BY <3>1 DEF Frames
  <2> HIDE DEF x
  <2> QED
    BY <1>8, <2>1
<1> HIDE DEF n, x, rest
<1>10. /\ ehDestroyed' \in Seq(Nat) /\ Len(ehDestroyed') = Len(ehDestroyed)
       /\ \A r \in 1 .. Len(ehRecords) :
            ehDestroyed'[r] = IF r = q THEN ehDestroyed[q] + 1 ELSE ehDestroyed[r]
  BY <1>1, <1>2, <1>5, Destroyed
<1>11. EhTyped'
  BY <1>1, <1>2, <1>3, <1>8, <1>10 DEF EhTyped
<1>12. CallsApart(ehFrames', ehRecords)
  <2>1. ~IsCall(ehFrames, Len(ehFrames'))
    BY <1>5, <1>8 DEF IsCall
  <2>2. SameFrames(ehFrames, ehFrames')
    BY <1>8, <1>9 DEF SameFrames
  <2>3. Len(ehFrames') <= Len(ehFrames)
    BY <1>3, <1>8 DEF n
  <2> QED
    BY <1>2, <1>3, <1>8, <2>1, <2>2, <2>3, LowerPart
<1>13. EhStack'
  <2>1. Held(ehFrames', ehMode', ehAt')
    <3>1. \A i \in 1 .. n : IsCall(ehFrames, i) => ehFrames[i].destruct
      BY <1>1, <1>2 DEF Held, n
    <3>2. \A i \in 1 .. Len(ehFrames') : i \in 1 .. n /\ i \in 1 .. n - 2
      BY <1>3, <1>8
    <3>3. \A i \in 1 .. Len(ehFrames') : IsCall(ehFrames', i) => ehFrames'[i].destruct
      BY <1>9, <3>1, <3>2 DEF IsCall
    <3> QED
      BY <1>1, <3>3 DEF Held
  <2> QED
    BY <1>1, <1>12, <2>1 DEF EhStack, InFlight
<1>14. DestroyedOnRelease'
  <2>1. DestroyedOnce(ehFrames, ehRecords, ehDestroyed, ehMode)
    BY <1>1, <1>2, DestroyedIs
  <2>2. Holder(ehFrames, q, n - 1)
    BY <1>3, <1>4, <1>5 DEF Holder, n
  <2>3. \A i : ~Holder(ehFrames', q, i)
    <3> SUFFICES ASSUME NEW i, Holder(ehFrames', q, i) PROVE FALSE
      OBVIOUS
    <3>1. i \in 1 .. n - 2 /\ i \in 1 .. n /\ IsCall(ehFrames, i) /\ ehFrames[i].record = q /\ i < n - 1 /\ n - 1 \in 1 .. n
      BY <1>3, <1>8, <1>9 DEF Holder, IsCall
    <3>2. ehFrames[i].record < call.record
      BY <1>2, <1>4, <3>1 DEF CallsApart, n
    <3> QED
      BY <1>5, <3>1, <3>2
  <2>4. \A r : r # q => ((\E i : Holder(ehFrames', r, i)) <=> (\E i : Holder(ehFrames, r, i)))
    <3> SUFFICES ASSUME NEW r, r # q, NEW i PROVE Holder(ehFrames', r, i) <=> Holder(ehFrames, r, i)
      OBVIOUS
    <3>1. ~IsCall(ehFrames, n)
      BY <1>2, <1>3 DEF CallsApart, n
    <3>2. CASE i \in 1 .. n - 2
      BY <1>3, <1>8, <1>9, <3>2 DEF Holder, IsCall, n
    <3>3. CASE i \notin 1 .. n - 2
      <4>1. ~Holder(ehFrames', r, i)
        BY <1>8, <3>3 DEF Holder
      <4>2. Holder(ehFrames, r, i) => i \in 1 .. n /\ (i = n - 1 \/ i = n)
        BY <1>3, <3>3 DEF Holder, n
      <4>3. ~Holder(ehFrames, r, n - 1) /\ ~Holder(ehFrames, r, n)
        BY <3>1 DEF Holder
      <4> QED
        BY <4>1, <4>2, <4>3
    <3> QED
      BY <3>2, <3>3
  <2>5. ehDestroyed[q] = 0
    BY <1>5, <2>1, <2>2 DEF DestroyedOnce
  <2>6. DestroyedOnce(ehFrames', ehRecords', ehDestroyed', ehMode')
    <3> SUFFICES ASSUME NEW r \in 1 .. Len(ehRecords), ehRecords[r].type # NoType
                 PROVE  IF \E i : Holder(ehFrames', r, i) THEN ehDestroyed'[r] = 0 ELSE ehDestroyed'[r] = 1
      BY <1>1 DEF DestroyedOnce
    <3>1. CASE r = q
      BY <1>10, <2>3, <2>5, <3>1
    <3>2. CASE r # q
      <4>1. ehDestroyed'[r] = ehDestroyed[r]
        BY <1>10, <3>2
      <4>2. IF \E i : Holder(ehFrames, r, i) THEN ehDestroyed[r] = 0 ELSE ehDestroyed[r] = 1
        BY <1>1, <2>1 DEF DestroyedOnce
      <4> QED
        BY <2>4, <3>2, <4>1, <4>2
    <3> QED
      BY <3>1, <3>2
  <2> QED
    BY <1>11, <2>6, DestroyedIsNext
<1>15. Skips' /\ PassedOver'
  BY <1>1 DEF Skips, PassedOver
<1> QED
  BY <1>1, <1>2, <1>11, <1>13, <1>14, <1>15 DEF EhInv

\* A throw begins a search at the top of the stack.
LEMMA ThrowInv ==
  ASSUME EhInv, NEW object, NEW type \in (DOMAIN Thrown) \cup {NoType}, _CxxThrowException(object, type),
         object = IF type = NoType THEN 0 ELSE Len(ehRecords) + 1
  PROVE  EhInv'
<1> DEFINE n == Len(ehRecords)
           x == [object |-> object, type |-> type, tryDisplacement |-> 0, tryBlock |-> 0]
<1>1. /\ ehMode = "run" /\ ehRecords' = Append(ehRecords, x) /\ ehDestroyed' = Append(ehDestroyed, 0)
      /\ ehAt' = Len(ehFrames) /\ ehMode' \in {"dead", "search"} /\ ehFrames' = ehFrames
  BY DEF _CxxThrowException
<1>2. EhTyped /\ CallsApart(ehFrames, ehRecords) /\ Held(ehFrames, ehMode, ehAt) /\ ObjectsOwn(ehRecords)
      /\ DestroyedOnRelease
  BY <1>1 DEF EhInv, EhStack
<1>3. /\ ehRecords \in Seq(Records) /\ ehDestroyed \in Seq(Nat) /\ n \in Nat /\ Len(ehDestroyed) = n
      /\ Len(ehFrames) \in Nat
  BY <1>2 DEF EhTyped
<1>4. x \in Records
  BY <1>3 DEF Records, Maps, Zero
<1>5. x.object = object /\ x.type = type /\ x.tryDisplacement = 0 /\ x.tryBlock = 0
  OBVIOUS
<1> HIDE DEF x
<1>6. /\ ehRecords' \in Seq(Records) /\ Len(ehRecords') = n + 1 /\ ehRecords'[n + 1] = x
      /\ \A r \in 1 .. n : ehRecords'[r] = ehRecords[r]
  BY <1>1, <1>3, <1>4
<1>7. /\ ehDestroyed' \in Seq(Nat) /\ Len(ehDestroyed') = n + 1 /\ ehDestroyed'[n + 1] = 0
      /\ \A r \in 1 .. n : ehDestroyed'[r] = ehDestroyed[r]
  BY <1>1, <1>3
<1> HIDE DEF n
<1>8. EhTyped'
  <2>1. ehRecords' # <<>>
    BY <1>3, <1>6
  <2>2. ehAt' \in 0 .. Len(ehFrames')
    BY <1>1, <1>3
  <2> QED
    BY <1>1, <1>2, <1>6, <1>7, <2>1, <2>2 DEF EhTyped
<1>9. EhStack'
  <2>1. CallsApart(ehFrames', ehRecords')
    <3>1. \A i \in 1 .. Len(ehFrames) : IsCall(ehFrames, i) =>
            ehRecords'[ehFrames[i].record] = ehRecords[ehFrames[i].record]
      BY <1>2, <1>6 DEF CallsApart, n
    <3>2. Len(ehRecords') >= Len(ehRecords)
      BY <1>3, <1>6 DEF n
    <3> QED
      BY <1>1, <1>2, <1>3, <1>6, <3>1, <3>2, SameCaught
  <2>2. Held(ehFrames', ehMode', ehAt')
    <3>1. \A i \in 1 .. Len(ehFrames) : ~(i > Len(ehFrames))
      BY <1>3
    <3> QED
      BY <1>1, <1>2, <3>1 DEF Held
  <2>3. InFlight'
    <3>1. \A i \in 1 .. Len(ehFrames) : IsCall(ehFrames, i) => ehFrames[i].record < n + 1
      BY <1>2, <1>3 DEF CallsApart, n
    <3> QED
      BY <1>1, <1>6, <3>1 DEF InFlight, Current
  <2> QED
    BY <2>1, <2>2, <2>3 DEF EhStack
<1>10. ObjectsOwn(ehRecords')
  <2> SUFFICES ASSUME NEW r \in 1 .. n + 1
               PROVE  ehRecords'[r].object = IF ehRecords'[r].type = NoType THEN 0 ELSE r
    BY <1>6 DEF ObjectsOwn
  <2>1. CASE r = n + 1
    BY <1>5, <1>6, <2>1 DEF n
  <2>2. CASE r # n + 1
    <3>1. r \in 1 .. n
      BY <1>3, <2>2
    <3> QED
      BY <1>2, <1>6, <3>1 DEF ObjectsOwn, n
  <2> QED
    BY <2>1, <2>2
<1>11. DestroyedOnRelease'
  <2>1. DestroyedOnce(ehFrames, ehRecords, ehDestroyed, ehMode)
    BY <1>1, <1>2, DestroyedIs
  <2>2. ehMode' = "search" => DestroyedOnce(ehFrames', ehRecords', ehDestroyed', ehMode')
    <3> SUFFICES ASSUME ehMode' = "search", NEW r \in 1 .. n + 1, ehRecords'[r].type # NoType
                 PROVE  IF r = n + 1 \/ (\E i : Holder(ehFrames, r, i)) THEN ehDestroyed'[r] = 0
                        ELSE ehDestroyed'[r] = 1
      BY <1>1, <1>6 DEF DestroyedOnce
    <3>1. CASE r = n + 1
      BY <1>7, <3>1
    <3>2. CASE r # n + 1
      <4>1. r \in 1 .. n
        BY <1>3, <3>2
      <4>2. IF \E i : Holder(ehFrames, r, i) THEN ehDestroyed[r] = 0 ELSE ehDestroyed[r] = 1
        BY <1>1, <1>6, <2>1, <4>1 DEF DestroyedOnce, n
      <4> QED
        BY <1>7, <3>2, <4>1, <4>2
    <3> QED
      BY <3>1, <3>2
  <2> QED
    BY <1>1, <1>8, <2>2, DestroyedIsNext
<1>12. Skips'
  <2>1. \A i \in 1 .. Len(ehFrames) : ~(i > Len(ehFrames))
    BY <1>3
  <2>2. ehRecords'[Len(ehRecords')].tryDisplacement = Zero /\ ehRecords'[Len(ehRecords')].tryBlock = 0
    BY <1>5, <1>6 DEF Zero
  <2> QED
    BY <1>1, <2>1, <2>2 DEF Skips, Current
<1>13. PassedOver'
  <2>1. \A i \in 1 .. Len(ehFrames) : ~(i > Len(ehFrames))
    BY <1>3
  <2> QED
    BY <1>1, <2>1 DEF PassedOver
<1> QED
  BY <1>8, <1>9, <1>10, <1>11, <1>12, <1>13 DEF EhInv

\* The blocks of f and their clauses.
LEMMA BlocksAre ==
  ASSUME NEW f \in Function
  PROVE  /\ DecompFuncInfo(f).dispTryBlockMap \in Maps
         /\ DOMAIN TryBlocks(DecompFuncInfo(f)) \subseteq Nat \ {0}
         /\ DecompFuncInfo(f).dispTryBlockMap = Zero => DOMAIN TryBlocks(DecompFuncInfo(f)) = {}
<1>1. DecompFuncInfo(f).dispTryBlockMap \in Maps
  BY TablesAssumption DEF Maps
<1>2. CASE DecompFuncInfo(f).dispTryBlockMap = Zero
  <2>1. TryBlocks(DecompFuncInfo(f)) = <<>>
    BY <1>2 DEF TryBlocks
  <2>2. DOMAIN TryBlocks(DecompFuncInfo(f)) = {}
    BY <2>1
  <2> QED
    BY <1>1, <2>2
<1>3. CASE DecompFuncInfo(f).dispTryBlockMap # Zero
  <2>1. TryBlocks(DecompFuncInfo(f)) = Image[DecompFuncInfo(f).dispTryBlockMap]
    BY <1>3 DEF TryBlocks
  <2>2. DecompFuncInfo(f).dispTryBlockMap \in DOMAIN Image
    BY <1>1, <1>3 DEF Maps
  <2>3. DOMAIN TryBlocks(DecompFuncInfo(f)) \subseteq Nat \ {0}
    BY <2>1, <2>2, TablesAssumption
  <2> QED
    BY <1>1, <1>3, <2>3
<1> QED
  BY <1>2, <1>3

LEMMA OwnMap ==
  ASSUME NEW f \in Function, NEW g \in Function,
         DecompFuncInfo(g).dispTryBlockMap = DecompFuncInfo(f).dispTryBlockMap,
         DecompFuncInfo(f).dispTryBlockMap # Zero
  PROVE  g = f
  BY TablesAssumption

LEMMA HandlersAre ==
  ASSUME NEW f \in Function, NEW b \in DOMAIN TryBlocks(DecompFuncInfo(f))
  PROVE  LET handlers == Handlers(f, TryBlocks(DecompFuncInfo(f))[b])
         IN /\ DOMAIN handlers \subseteq Nat \ {0}
            /\ \A h \in DOMAIN handlers : /\ handlers[h].dispOfHandler \in Function
                                          /\ CatchBlock(handlers[h].dispOfHandler)
                                          /\ handlers[h].continuationAddress \in [0 .. 1 -> Int]
<1> DEFINE block == TryBlocks(DecompFuncInfo(f))[b]
           handlers == Handlers(f, block)
<1>1. /\ block.dispHandlerArray \in (DOMAIN Image) \cup {Zero}
      /\ \A h \in DOMAIN handlers : /\ handlers[h].dispOfHandler \in Function
                                    /\ CatchBlock(handlers[h].dispOfHandler)
                                    /\ handlers[h].continuationAddress \in [0 .. 1 -> Int]
  BY TablesAssumption DEF CatchBlock
<1> HIDE DEF block
<1>2. DOMAIN handlers \subseteq Nat \ {0}
  <2>1. CASE block.dispHandlerArray = Zero
    <3>1. handlers = <<>>
      BY <2>1 DEF Handlers
    <3>2. DOMAIN handlers = {}
      BY <3>1
    <3> QED
      BY <3>2
  <2>2. CASE block.dispHandlerArray # Zero
    <3>1. DOMAIN handlers = DOMAIN Image[block.dispHandlerArray]
      BY <2>2 DEF Handlers
    <3> QED
      BY <1>1, <2>2, <3>1, TablesAssumption
  <2> QED
    BY <2>1, <2>2
<1> QED
  BY <1>1, <1>2 DEF block

LEMMA FitIs ==
  ASSUME NEW f \in Function, NEW b \in DOMAIN TryBlocks(DecompFuncInfo(f)), NEW type \in DOMAIN Thrown,
         Fits(f, b, type) # {}
  PROVE  First(Fits(f, b, type))[1] \in DOMAIN Handlers(f, TryBlocks(DecompFuncInfo(f))[b])
<1> DEFINE A == DOMAIN Handlers(f, TryBlocks(DecompFuncInfo(f))[b])
           B == DOMAIN Thrown[type].catchables
<1>1. A \in SUBSET Nat
  BY HandlersAre
<1>2. B \in SUBSET Nat
  BY TablesAssumption
<1>3. Fits(f, b, type) \subseteq A \X B
  BY DEF Fits
<1> HIDE DEF A, B
<1>4. First(Fits(f, b, type)) \in A \X B
  BY <1>1, <1>2, <1>3, FirstIs
<1> QED
  BY <1>4 DEF A

\* What the record lets the handler skip is what is being left.
LEMMA CatchingIsOwed ==
  ASSUME EhInv, CxxFrameAt, ~TwiceIn(ehFrames), ehRecords[Current].type # NoType
  PROVE  Catching(ehFrames[ehAt], ehRecords[Current])
           = OwedIn(ehFrames, ehRecords, ehAt, ehRecords[Current].type)
<1> DEFINE frame == ehFrames[ehAt]
           record == ehRecords[Current]
           f == frame.fn
           info == DecompFuncInfo(f)
           blocks == TryBlocks(info)
           left == LeftIn(ehFrames, ehRecords, ehAt)
           passed == {i \in 1 .. Len(ehFrames) : i > ehAt /\ IsCall(ehFrames, i)}
<1>1. /\ ehMode = "search" /\ ehAt > 0 /\ frame.kind = "cxx"
      /\ EhTyped /\ CallsApart(ehFrames, ehRecords) /\ Skips
  BY DEF CxxFrameAt, EhInv, EhStack
<1>2. /\ ehAt \in 1 .. Len(ehFrames) /\ Len(ehFrames) \in Nat /\ Current \in Nat /\ Current \in 1 .. Len(ehRecords)
      /\ \A i \in 1 .. Len(ehFrames) : ehFrames[i] \in Frames
      /\ \A r \in 1 .. Len(ehRecords) : ehRecords[r] \in Records
  BY <1>1 DEF EhTyped, Current
<1>3. f \in Function /\ record \in Records /\ record.tryBlock \in Nat
  BY <1>2 DEF Frames, Records
<1>4. DOMAIN blocks \subseteq Nat \ {0} /\ (info.dispTryBlockMap = Zero => DOMAIN blocks = {})
  BY <1>3, BlocksAre
<1>5. /\ passed = {} => record.tryDisplacement = Zero /\ record.tryBlock = 0
      /\ \A i \in passed : (\A j \in passed : i <= j) =>
          /\ record.tryDisplacement = ehRecords[ehFrames[i].record].tryDisplacement
          /\ record.tryBlock = ehRecords[ehFrames[i].record].tryBlock
  BY <1>1 DEF Skips
<1> HIDE DEF passed
<1>6. ASSUME NEW b \in DOMAIN blocks
      PROVE  ~(info.dispTryBlockMap = record.tryDisplacement /\ b <= record.tryBlock) <=> b > left
  <2>1. b \in Nat /\ b > 0 /\ info.dispTryBlockMap # Zero
    BY <1>4
  <2>2. CASE ehAt < Len(ehFrames) /\ IsCall(ehFrames, ehAt + 1)
    <3> DEFINE caught == ehRecords[ehFrames[ehAt + 1].record]
    <3>1. ehAt + 1 \in passed /\ \A j \in passed : ehAt + 1 <= j
      BY <1>2, <2>2 DEF passed
    <3>2. record.tryDisplacement = caught.tryDisplacement /\ record.tryBlock = caught.tryBlock
      BY <1>5, <3>1
    <3>3. caught.tryDisplacement = info.dispTryBlockMap
      <4>1. ehAt + 1 \in 1 .. Len(ehFrames) /\ ehAt + 1 - 1 = ehAt
        BY <1>2, <2>2
      <4> QED
        <5> DEFINE i == ehAt + 1
        <5>1. i \in 1 .. Len(ehFrames) /\ IsCall(ehFrames, i) /\ i - 1 = ehAt
          BY <1>2, <2>2, <4>1
        <5> HIDE DEF i
        <5>2. Names(ehRecords[ehFrames[i].record], ehFrames[i - 1].fn)
          BY <1>1, <5>1 DEF CallsApart
        <5>3. Names(ehRecords[ehFrames[i].record], ehFrames[ehAt].fn)
          BY <5>1, <5>2
        <5> QED
          BY <5>3 DEF Names, i
    <3>4. left = caught.tryBlock
      BY <2>2 DEF LeftIn
    <3> QED
      BY <1>3, <2>1, <3>2, <3>3, <3>4
  <2>3. CASE ~(ehAt < Len(ehFrames) /\ IsCall(ehFrames, ehAt + 1))
    <3>1. left = 0
      BY <2>3 DEF LeftIn
    <3>2. CASE passed = {}
      BY <1>5, <2>1, <3>1, <3>2
    <3>3. CASE passed # {}
      <4>1. passed \in SUBSET Nat
        BY <1>2 DEF passed
      <4>2. PICK i \in passed : \A j \in passed : i <= j
        BY <3>3, <4>1, LeastNumber
      <4>3. /\ i \in 1 .. Len(ehFrames) /\ i > ehAt /\ i # ehAt + 1 /\ IsCall(ehFrames, i)
        BY <1>2, <2>3 DEF passed
      <4>4. i - 1 \in 1 .. Len(ehFrames) /\ i - 1 # ehAt
        BY <1>2, <4>3
      <4>5. ehFrames[i - 1].kind = "cxx" /\ Names(ehRecords[ehFrames[i].record], ehFrames[i - 1].fn)
        BY <1>1, <4>3 DEF CallsApart
      <4>6. record.tryDisplacement = DecompFuncInfo(ehFrames[i - 1].fn).dispTryBlockMap
        BY <1>5, <4>2, <4>5 DEF Names
      <4>7. ehFrames[i - 1].fn \in Function /\ ehFrames[i - 1].fn # f
        <5>1. ehFrames[i - 1] \in Frames
          BY <1>2, <4>4
        <5>2. ehFrames[i - 1].fn # ehFrames[ehAt].fn
          BY <1>1, <1>2, <4>4, <4>5 DEF TwiceIn
        <5> QED
          BY <5>1, <5>2 DEF Frames
      <4>8. record.tryDisplacement # info.dispTryBlockMap
        BY <1>3, <2>1, <4>6, <4>7, OwnMap
      <4> QED
        BY <2>1, <3>1, <4>8
    <3> QED
      BY <3>2, <3>3
  <2> QED
    BY <2>2, <2>3
<1>7. Catching(frame, record) = {b \in Searched(frame, record) : Fits(f, b, record.type) # {}}
  BY DEF Catching
<1>8. Searched(frame, record) =
        {b \in DOMAIN blocks : /\ blocks[b].tryLow <= StateFromIp(info, frame.ip)
                               /\ StateFromIp(info, frame.ip) <= blocks[b].tryHigh
                               /\ ~(info.dispTryBlockMap = record.tryDisplacement /\ b <= record.tryBlock)}
  BY DEF Searched
<1>9. OwedIn(ehFrames, ehRecords, ehAt, record.type) =
        {b \in DOMAIN blocks : /\ blocks[b].tryLow <= StateFromIp(info, frame.ip)
                               /\ StateFromIp(info, frame.ip) <= blocks[b].tryHigh
                               /\ b > left /\ Fits(f, b, record.type) # {}}
  BY DEF OwedIn
<1> HIDE DEF frame, record, f, info, blocks, left
<1>10. \A b : b \in Catching(frame, record) <=> b \in OwedIn(ehFrames, ehRecords, ehAt, record.type)
  BY <1>6, <1>7, <1>8, <1>9, Zenon
<1>11. Catching(frame, record) = OwedIn(ehFrames, ehRecords, ehAt, record.type)
  BY <1>10
<1> QED
  BY <1>11 DEF frame, record

LEMMA DeadInv ==
  ASSUME EhInv, ehMode' = "dead", UNCHANGED <<ehFrames, ehRecords, ehAt, ehDestroyed>>
  PROVE  EhInv'
  BY DEF EhInv, EhTyped

\* A frame without a clause is passed.
LEMMA PassFrameInv ==
  ASSUME EhInv, PassFrame
  PROVE  EhInv'
<1>1. /\ CxxFrameAt /\ Catching(ehFrames[ehAt], ehRecords[Current]) = {}
      /\ ehAt' = ehAt - 1 /\ UNCHANGED <<ehFrames, ehRecords, ehMode, ehDestroyed>>
  BY DEF PassFrame
<1>2. ehMode = "search" /\ ehAt > 0 /\ ehFrames[ehAt].kind = "cxx" /\ ~IsCall(ehFrames, ehAt)
  BY <1>1 DEF CxxFrameAt, IsCall
<1>3. EhTyped /\ EhStack /\ ObjectsOwn(ehRecords) /\ DestroyedOnRelease /\ Skips /\ PassedOver
  BY <1>2 DEF EhInv
<1>4. ehAt \in 1 .. Len(ehFrames) /\ Len(ehFrames) \in Nat /\ ehAt' \in 0 .. Len(ehFrames)
  BY <1>1, <1>2, <1>3 DEF EhTyped
<1>5. EhTyped'
  BY <1>1, <1>2, <1>3, <1>4 DEF EhTyped
<1>6. \A i \in 1 .. Len(ehFrames) : IsCall(ehFrames, i) => (i > ehAt' <=> i > ehAt)
  BY <1>1, <1>2, <1>4
<1>7. EhStack'
  <2>1. Held(ehFrames', ehMode', ehAt')
    BY <1>1, <1>3, <1>6 DEF EhStack, Held
  <2> QED
    BY <1>1, <1>3, <2>1 DEF EhStack, InFlight, Current
<1>8. DestroyedOnRelease'
  BY <1>1, <1>3 DEF DestroyedOnRelease, Current
<1>9. Skips'
  <2>1. {i \in 1 .. Len(ehFrames) : i > ehAt' /\ IsCall(ehFrames, i)}
          = {i \in 1 .. Len(ehFrames) : i > ehAt /\ IsCall(ehFrames, i)}
    BY <1>6
  <2> QED
    BY <1>1, <1>2, <1>3, <2>1 DEF Skips, Current
<1>10. PassedOver'
  <2> SUFFICES ASSUME ~TwiceIn(ehFrames), ehRecords[Current].type # NoType,
                      NEW k \in 1 .. Len(ehFrames), k > ehAt', ehFrames[k].kind = "cxx"
               PROVE  OwedIn(ehFrames, ehRecords, k, ehRecords[Current].type) = {}
    BY <1>1 DEF PassedOver, Current
  <2>1. CASE k = ehAt
    BY <1>1, <2>1, CatchingIsOwed
  <2>2. CASE k # ehAt
    <3>1. k > ehAt
      BY <1>1, <1>4, <2>2
    <3> QED
      BY <1>2, <1>3, <3>1 DEF PassedOver
  <2> QED
    BY <2>1, <2>2
<1> QED
  BY <1>1, <1>3, <1>5, <1>7, <1>8, <1>9, <1>10 DEF EhInv

\* What is open depends on the code of the frames and on what was caught.
LEMMA OwedSame ==
  ASSUME NEW F, NEW R, NEW G, NEW S, NEW k, NEW type,
         G[k].fn = F[k].fn, G[k].ip = F[k].ip, LeftIn(G, S, k) = LeftIn(F, R, k)
  PROVE  OwedIn(G, S, k, type) = OwedIn(F, R, k, type)
  BY DEF OwedIn

LEMMA FilterInv ==
  ASSUME EhInv, ExFilterRethrow
  PROVE  EhInv'
<1> DEFINE call == ehFrames[ehAt]
           q == call.record
           c == Len(ehRecords)
           x == [call EXCEPT !.destruct = FALSE]
           y == [ehRecords[c] EXCEPT !.tryDisplacement = ehRecords[q].tryDisplacement,
                                     !.tryBlock = ehRecords[q].tryBlock]
<1>1. /\ ehMode = "search" /\ ehAt > 0 /\ IsCall(ehFrames, ehAt)
      /\ ehDestroyed' = IF ehRecords[c].object # ehRecords[q].object
                        THEN DestructExceptionObject(q) ELSE ehDestroyed
      /\ ehRecords' = [ehRecords EXCEPT ![c].tryDisplacement = ehRecords[q].tryDisplacement,
                                        ![c].tryBlock = ehRecords[q].tryBlock]
      /\ ehFrames' = [ehFrames EXCEPT ![ehAt].destruct = FALSE]
      /\ ehAt' = ehAt - 1 /\ ehMode' = ehMode
  BY DEF ExFilterRethrow, IsCall, Current
<1>2. EhTyped /\ EhStack /\ ObjectsOwn(ehRecords) /\ DestroyedOnRelease /\ Skips /\ PassedOver
  BY <1>1 DEF EhInv
<1>3. /\ ehFrames \in Seq(Frames) /\ ehRecords \in Seq(Records) /\ c \in Nat /\ c \in 1 .. Len(ehRecords)
      /\ ehAt \in 1 .. Len(ehFrames) /\ Len(ehFrames) \in Nat /\ ehAt' \in 0 .. Len(ehFrames)
  BY <1>1, <1>2 DEF EhTyped
<1>4. /\ q \in 1 .. c /\ q < c /\ ehRecords[q].type # NoType /\ call.destruct
      /\ ehAt > 1 /\ ehAt < Len(ehFrames)
      /\ \A i \in 1 .. Len(ehFrames) : IsCall(ehFrames, i) => ehFrames[i].record < c /\ ehFrames[i].record \in 1 .. c
  BY <1>1, <1>2, <1>3 DEF EhStack, CallsApart, Held, InFlight, Current
<1>5. /\ ehFrames' \in Seq(Frames) /\ Len(ehFrames') = Len(ehFrames)
      /\ \A i \in 1 .. Len(ehFrames) : ehFrames'[i] = IF i = ehAt THEN x ELSE ehFrames[i]
  <2>1. call \in Frames
    BY <1>3
  <2>2. x \in Frames
    BY <2>1 DEF Frames
  <2>3. ehFrames' = [ehFrames EXCEPT ![ehAt] = x]
    BY <1>1
  <2> HIDE DEF x
  <2> QED
    BY <1>3, <2>2, <2>3
<1>6. /\ x.kind = call.kind /\ x.fn = call.fn /\ x.record = call.record /\ x.ip = call.ip /\ ~x.destruct
  <2>1. call \in Frames
    BY <1>3
  <2> QED
    BY <2>1 DEF Frames
<1>7. /\ ehRecords' \in Seq(Records) /\ Len(ehRecords') = c
      /\ \A r \in 1 .. c : ehRecords'[r] = IF r = c THEN y ELSE ehRecords[r]
  <2>1. ehRecords[c] \in Records /\ ehRecords[q] \in Records
    BY <1>3, <1>4
  <2>2. y \in Records
    BY <2>1 DEF Records
  <2>3. ehRecords' = [ehRecords EXCEPT ![c] = y]
    BY <1>1, <1>3, <2>1 DEF Records
  <2> HIDE DEF y
  <2> QED
    BY <1>3, <2>2, <2>3
<1>8. /\ y.object = ehRecords[c].object /\ y.type = ehRecords[c].type
      /\ y.tryDisplacement = ehRecords[q].tryDisplacement /\ y.tryBlock = ehRecords[q].tryBlock
  <2>1. ehRecords[c] \in Records
    BY <1>3
  <2> QED
    BY <2>1 DEF Records
<1> HIDE DEF x, y, c, call
<1>9. SameFrames(ehFrames, ehFrames') /\ \A i \in 1 .. Len(ehFrames) : ehFrames'[i].ip = ehFrames[i].ip
  BY <1>5, <1>6 DEF SameFrames, call
<1>10. ehRecords[c].object # ehRecords[q].object
  <2>1. /\ ehRecords[c].object = (IF ehRecords[c].type = NoType THEN 0 ELSE c)
        /\ ehRecords[q].object = q
    BY <1>2, <1>3, <1>4 DEF ObjectsOwn, c
  <2> QED
    BY <1>3, <1>4, <2>1
<1>11. /\ ehDestroyed' \in Seq(Nat) /\ Len(ehDestroyed') = Len(ehDestroyed)
       /\ \A r \in 1 .. c : ehDestroyed'[r] = IF r = q THEN ehDestroyed[q] + 1 ELSE ehDestroyed[r]
  <2>1. q \in 1 .. Len(ehRecords)
    BY <1>4 DEF c
  <2> QED
    BY <1>1, <1>2, <1>4, <1>10, <2>1, Destroyed DEF c
<1>12. EhTyped'
  <2>1. ehRecords' # <<>>
    BY <1>3, <1>7
  <2> QED
    BY <1>1, <1>2, <1>3, <1>5, <1>7, <1>11, <2>1 DEF EhTyped, c
<1>13. EhStack'
  <2>1. CallsApart(ehFrames', ehRecords)
    <3>1. ~IsCall(ehFrames, Len(ehFrames))
      BY <1>2, <1>3 DEF EhStack, CallsApart
    <3> QED
      BY <1>2, <1>3, <1>5, <1>9, <3>1, LowerPart DEF EhStack
  <2>2. CallsApart(ehFrames', ehRecords')
    <3>1. \A i \in 1 .. Len(ehFrames') : IsCall(ehFrames', i) =>
            ehRecords'[ehFrames'[i].record] = ehRecords[ehFrames'[i].record]
      <4> SUFFICES ASSUME NEW i \in 1 .. Len(ehFrames), IsCall(ehFrames', i)
                   PROVE  ehRecords'[ehFrames'[i].record] = ehRecords[ehFrames'[i].record]
        BY <1>5
      <4>1. IsCall(ehFrames, i) /\ ehFrames'[i].record = ehFrames[i].record
        BY <1>5, <1>9 DEF SameFrames, IsCall
      <4> QED
        BY <1>3, <1>4, <1>7, <4>1
    <3>2. Len(ehRecords') >= Len(ehRecords)
      BY <1>3, <1>7 DEF c
    <3> QED
      BY <1>3, <1>7, <2>1, <3>1, <3>2, SameCaught
  <2>3. Held(ehFrames', ehMode', ehAt')
    <3> SUFFICES ASSUME NEW i \in 1 .. Len(ehFrames), IsCall(ehFrames', i)
                 PROVE  ehFrames'[i].destruct <=> ~(i > ehAt')
      BY <1>1, <1>5 DEF Held
    <3>1. IsCall(ehFrames, i)
      BY <1>5, <1>9 DEF SameFrames, IsCall
    <3>2. ehFrames[i].destruct <=> ~(i > ehAt)
      BY <1>1, <1>2, <3>1 DEF EhStack, Held
    <3> QED
      BY <1>1, <1>3, <1>5, <1>6, <3>2
  <2>4. InFlight'
    <3>1. \A i \in 1 .. Len(ehFrames') : IsCall(ehFrames', i) => ehFrames'[i].record < c
      BY <1>4, <1>5, <1>9 DEF SameFrames, IsCall
    <3> QED
      BY <1>7, <3>1 DEF InFlight, Current
  <2> QED
    BY <2>2, <2>3, <2>4 DEF EhStack
<1>14. ObjectsOwn(ehRecords')
  BY <1>2, <1>7, <1>8 DEF ObjectsOwn, c
<1>15. DestroyedOnRelease'
  <2>1. DestroyedOnce(ehFrames, ehRecords, ehDestroyed, ehMode)
    BY <1>1, <1>2, DestroyedIs
  <2>2. Holder(ehFrames, q, ehAt)
    BY <1>1, <1>3, <1>4 DEF Holder, call
  <2>3. \A i : ~Holder(ehFrames', q, i)
    <3> SUFFICES ASSUME NEW i, Holder(ehFrames', q, i) PROVE FALSE
      OBVIOUS
    <3>1. i \in 1 .. Len(ehFrames) /\ IsCall(ehFrames, i) /\ ehFrames[i].record = q /\ ehFrames'[i].destruct
      BY <1>5, <1>9 DEF Holder, IsCall, SameFrames
    <3>2. i # ehAt
      BY <1>5, <1>6, <3>1
    <3>3. i < ehAt \/ ehAt < i
      BY <1>3, <3>1, <3>2
    <3>4. ehFrames[i].record < ehFrames[ehAt].record \/ ehFrames[ehAt].record < ehFrames[i].record
      BY <1>1, <1>2, <1>3, <3>1, <3>3 DEF EhStack, CallsApart
    <3> QED
      BY <1>4, <3>1, <3>4 DEF call
  <2>4. \A r : r # q => ((\E i : Holder(ehFrames', r, i)) <=> (\E i : Holder(ehFrames, r, i)))
    <3> SUFFICES ASSUME NEW r, r # q, NEW i PROVE Holder(ehFrames', r, i) <=> Holder(ehFrames, r, i)
      OBVIOUS
    <3>1. CASE i = ehAt
      <4>1. ehFrames'[i].record # r /\ ehFrames[i].record # r
        BY <1>3, <1>5, <1>6, <3>1 DEF call
      <4> QED
        BY <4>1 DEF Holder
    <3>2. CASE i # ehAt
      <4>1. i \in 1 .. Len(ehFrames) => ehFrames'[i] = ehFrames[i]
        BY <1>5, <3>2
      <4> QED
        BY <1>5, <4>1 DEF Holder, IsCall
    <3> QED
      BY <3>1, <3>2
  <2>5. ehDestroyed[q] = 0
    BY <1>4, <2>1, <2>2 DEF DestroyedOnce, c
  <2>6. DestroyedOnce(ehFrames', ehRecords', ehDestroyed', ehMode')
    <3> SUFFICES ASSUME NEW r \in 1 .. c, ehRecords'[r].type # NoType
                 PROVE  IF r = c \/ (\E i : Holder(ehFrames', r, i)) THEN ehDestroyed'[r] = 0
                        ELSE ehDestroyed'[r] = 1
      BY <1>1, <1>7 DEF DestroyedOnce
    <3>1. ehRecords[r].type # NoType
      BY <1>7, <1>8
    <3>2. CASE r = q
      BY <1>4, <1>11, <2>3, <2>5, <3>2
    <3>3. CASE r # q
      <4>1. ehDestroyed'[r] = ehDestroyed[r]
        BY <1>11, <3>3
      <4>2. IF r = c \/ (\E i : Holder(ehFrames, r, i)) THEN ehDestroyed[r] = 0 ELSE ehDestroyed[r] = 1
        BY <1>1, <2>1, <3>1 DEF DestroyedOnce, c
      <4> QED
        BY <2>4, <3>3, <4>1, <4>2
    <3> QED
      BY <3>2, <3>3
  <2> QED
    BY <1>12, <2>6, DestroyedIsNext
<1>16. Skips'
  <2> DEFINE passed == {i \in 1 .. Len(ehFrames') : i > ehAt' /\ IsCall(ehFrames', i)}
  <2>1. ehAt \in passed
    BY <1>1, <1>3, <1>5, <1>6 DEF IsCall, call
  <2>2. \A i \in passed : i >= ehAt
    BY <1>1, <1>3, <1>5
  <2>3. ASSUME NEW i \in passed, \A j \in passed : i <= j
        PROVE  /\ ehRecords'[c].tryDisplacement = ehRecords'[ehFrames'[i].record].tryDisplacement
               /\ ehRecords'[c].tryBlock = ehRecords'[ehFrames'[i].record].tryBlock
    <3>1. i = ehAt
      BY <1>3, <1>5, <2>1, <2>2, <2>3
    <3>2. ehFrames'[i].record = q
      BY <1>3, <1>5, <1>6, <3>1 DEF call
    <3>3. ehRecords'[q] = ehRecords[q] /\ ehRecords'[c] = y
      BY <1>3, <1>4, <1>7 DEF c
    <3> QED
      BY <1>8, <3>2, <3>3
  <2> HIDE DEF passed
  <2>4. /\ passed = {} => ehRecords'[c].tryDisplacement = Zero /\ ehRecords'[c].tryBlock = 0
        /\ \A i \in passed : (\A j \in passed : i <= j) =>
             /\ ehRecords'[c].tryDisplacement = ehRecords'[ehFrames'[i].record].tryDisplacement
             /\ ehRecords'[c].tryBlock = ehRecords'[ehFrames'[i].record].tryBlock
    BY <2>1, <2>3
  <2> QED
    BY <1>7, <2>4 DEF Skips, Current, passed
<1>17. PassedOver'
  <2> SUFFICES ASSUME ~TwiceIn(ehFrames'), ehRecords'[c].type # NoType,
                      NEW k \in 1 .. Len(ehFrames), k > ehAt', ehFrames'[k].kind = "cxx"
               PROVE  OwedIn(ehFrames', ehRecords', k, ehRecords'[c].type) = {}
    BY <1>1, <1>5, <1>7 DEF PassedOver, Current
  <2>1. ehRecords'[c].type = ehRecords[c].type
    BY <1>3, <1>7, <1>8 DEF c
  <2>2. ehFrames[k].kind = "cxx" /\ k > ehAt
    <3>1. ehFrames[k].kind = "cxx"
      BY <1>5, <1>9 DEF SameFrames
    <3>2. k # ehAt
      BY <1>1, <3>1 DEF IsCall
    <3> QED
      BY <1>1, <1>3, <3>1, <3>2
  <2>3. ~TwiceIn(ehFrames)
    BY <1>5, <1>9 DEF TwiceIn, SameFrames
  <2>4. OwedIn(ehFrames, ehRecords, k, ehRecords[c].type) = {}
    BY <1>1, <1>2, <2>1, <2>2, <2>3 DEF PassedOver, Current, c
  <2>5. OwedIn(ehFrames', ehRecords', k, ehRecords[c].type) = OwedIn(ehFrames, ehRecords, k, ehRecords[c].type)
    <3>1. ehFrames'[k].fn = ehFrames[k].fn /\ ehFrames'[k].ip = ehFrames[k].ip
      BY <1>5, <1>9 DEF SameFrames
    <3>2. k < Len(ehFrames) =>
            ehFrames'[k + 1].kind = ehFrames[k + 1].kind /\ ehFrames'[k + 1].record = ehFrames[k + 1].record
      BY <1>3, <1>5, <1>9 DEF SameFrames
    <3>3. k < Len(ehFrames) /\ IsCall(ehFrames, k + 1) =>
            ehRecords'[ehFrames[k + 1].record].tryBlock = ehRecords[ehFrames[k + 1].record].tryBlock
      <4> SUFFICES ASSUME k < Len(ehFrames), IsCall(ehFrames, k + 1)
                   PROVE  ehRecords'[ehFrames[k + 1].record] = ehRecords[ehFrames[k + 1].record]
        OBVIOUS
      <4>1. k + 1 \in 1 .. Len(ehFrames)
        BY <1>3
      <4>2. ehFrames[k + 1].record \in 1 .. c /\ ehFrames[k + 1].record # c
        BY <1>3, <1>4, <4>1
      <4> QED
        BY <1>7, <4>2
    <3> QED
      <4>1. LeftIn(ehFrames', ehRecords', k) = LeftIn(ehFrames, ehRecords, k)
        BY <1>5, <3>2, <3>3 DEF LeftIn, IsCall
      <4> QED
        BY <3>1, <4>1, OwedSame
  <2> QED
    BY <2>1, <2>4, <2>5
<1> QED
  BY <1>12, <1>13, <1>14, <1>15, <1>16, <1>17 DEF EhInv

\* A catch block is called on top of the function that catches.
LEMMA CatchOnTop ==
  ASSUME NEW R, NEW F \in Seq(Frames), NEW x \in Frames, NEW y \in Frames, CallsApart(F, R), Len(F) > 0,
         F[Len(F)].kind = "cxx", IsCall(<<x>>, 1), y.kind = "cxx", CatchBlock(y.fn),
         x.record \in 1 .. Len(R), R[x.record].type # NoType, Names(R[x.record], F[Len(F)].fn),
         \A i \in 1 .. Len(F) : IsCall(F, i) => F[i].record < x.record
  PROVE  CallsApart(F \o <<x, y>>, R)
<1> DEFINE G == F \o <<x, y>>
           n == Len(F)
<1>1. /\ n \in Nat /\ n > 0 /\ Len(G) = n + 2 /\ G[n + 1] = x /\ G[n + 2] = y
      /\ \A i \in 1 .. n : G[i] = F[i]
  OBVIOUS
<1>2. x.kind = "call"
  BY DEF IsCall
<1> HIDE DEF G, n
<1>3. \A i \in 1 .. Len(G) : IsCall(G, i) => (i = n + 1 \/ (i \in 1 .. n /\ IsCall(F, i) /\ i < n))
  <2> SUFFICES ASSUME NEW i \in 1 .. n, IsCall(G, i) PROVE IsCall(F, i) /\ i < n
    <3>1. \A i \in 1 .. Len(G) : i \in 1 .. n \/ i = n + 1 \/ i = n + 2
      BY <1>1
    <3>2. ~IsCall(G, n + 2)
      BY <1>1 DEF IsCall
    <3> QED
      BY <3>1, <3>2
  <2>1. IsCall(F, i)
    BY <1>1 DEF IsCall
  <2> QED
    BY <2>1 DEF CallsApart, n
<1>4. ASSUME NEW i \in 1 .. Len(G), IsCall(G, i)
      PROVE  /\ i > 1 /\ G[i - 1].kind = "cxx"
             /\ i < Len(G) /\ G[i + 1].kind = "cxx" /\ CatchBlock(G[i + 1].fn)
             /\ G[i].record \in 1 .. Len(R)
             /\ R[G[i].record].type # NoType
             /\ Names(R[G[i].record], G[i - 1].fn)
  <2>1. CASE i = n + 1
    <3>1. i > 1 /\ i < Len(G) /\ G[i - 1] = F[n] /\ G[i] = x /\ G[i + 1] = y
      <4>1. i - 1 = n /\ i + 1 = n + 2 /\ n \in 1 .. n
        BY <1>1, <2>1
      <4> QED
        BY <1>1, <2>1, <4>1
    <3> QED
      BY <3>1 DEF n
  <2>2. CASE i # n + 1
    <3>1. i \in 1 .. n /\ IsCall(F, i) /\ i < n
      BY <1>3, <1>4, <2>2
    <3>2. /\ i > 1 /\ F[i - 1].kind = "cxx"
          /\ F[i + 1].kind = "cxx" /\ CatchBlock(F[i + 1].fn)
          /\ F[i].record \in 1 .. Len(R) /\ R[F[i].record].type # NoType
          /\ Names(R[F[i].record], F[i - 1].fn)
      BY <3>1 DEF CallsApart, n
    <3>3. G[i - 1] = F[i - 1] /\ G[i] = F[i] /\ G[i + 1] = F[i + 1] /\ i < Len(G)
      <4>1. i - 1 \in 1 .. n /\ i + 1 \in 1 .. n /\ i < Len(G)
        BY <1>1, <3>1, <3>2
      <4> QED
        BY <1>1, <3>1, <4>1
    <3> QED
      BY <3>2, <3>3
  <2> QED
    BY <2>1, <2>2
<1>5. ASSUME NEW i \in 1 .. Len(G), G[i].kind = "cxx", CatchBlock(G[i].fn)
      PROVE  i > 1 /\ IsCall(G, i - 1)
  <2>1. CASE i \in 1 .. n
    <3>1. i > 1 /\ IsCall(F, i - 1)
      BY <1>1, <1>5, <2>1 DEF CallsApart, n
    <3> QED
      BY <1>1, <2>1, <3>1 DEF IsCall
  <2>2. CASE i = n + 2
    <3>1. i - 1 = n + 1
      BY <1>1, <2>2
    <3> QED
      BY <1>1, <1>2, <2>2, <3>1 DEF IsCall
  <2>3. i # n + 1
    BY <1>1, <1>2, <1>5
  <2> QED
    BY <1>1, <2>1, <2>2, <2>3
<1>6. ASSUME NEW i \in 1 .. Len(G), NEW j \in 1 .. Len(G), IsCall(G, i), IsCall(G, j), i < j
      PROVE  G[i].record < G[j].record
  <2>1. i \in 1 .. n /\ IsCall(F, i) /\ G[i] = F[i]
    BY <1>1, <1>3, <1>6
  <2>2. CASE j = n + 1
    BY <1>1, <2>1, <2>2 DEF n
  <2>3. CASE j # n + 1
    <3>1. j \in 1 .. n /\ IsCall(F, j) /\ G[j] = F[j]
      BY <1>1, <1>3, <1>6, <2>3
    <3> QED
      BY <1>6, <2>1, <3>1 DEF CallsApart, n
  <2> QED
    BY <2>2, <2>3
<1> QED
  BY <1>4, <1>5, <1>6 DEF CallsApart, G

LEMMA CatchInv ==
  ASSUME EhInv, Catch
  PROVE  EhInv'
<1> DEFINE frame == ehFrames[ehAt]
           c == Len(ehRecords)
           record == ehRecords[c]
           blocks == Catching(frame, record)
           b == Min(blocks)
           info == DecompFuncInfo(frame.fn)
           fit == First(Fits(frame.fn, b, record.type))
           handler == Handlers(frame.fn, TryBlocks(info)[b])[fit[1]]
           lower == SubSeq(ehFrames, 1, ehAt)
           x == CallCatchFrame(frame.fn, c, handler.continuationAddress)
           y == CxxFrame(handler.dispOfHandler, 0)
           z == [record EXCEPT !.tryDisplacement = info.dispTryBlockMap, !.tryBlock = b]
<1>1. /\ ehMode = "search" /\ ehAt > 0 /\ frame.kind = "cxx" /\ blocks # {}
      /\ ehRecords' = [ehRecords EXCEPT ![c].tryDisplacement = info.dispTryBlockMap, ![c].tryBlock = b]
      /\ ehFrames' = lower \o <<x, y>>
      /\ ehMode' = "run" /\ ehAt' = 0 /\ ehDestroyed' = ehDestroyed
  BY DEF Catch, CxxFrameAt, Current
<1>2. EhTyped /\ EhStack /\ ObjectsOwn(ehRecords) /\ DestroyedOnRelease
  BY <1>1 DEF EhInv
<1>3. /\ ehFrames \in Seq(Frames) /\ ehRecords \in Seq(Records) /\ c \in Nat /\ c \in 1 .. Len(ehRecords)
      /\ ehAt \in 1 .. Len(ehFrames) /\ Len(ehFrames) \in Nat /\ frame \in Frames /\ record \in Records
  <2>1. /\ ehFrames \in Seq(Frames) /\ ehRecords \in Seq(Records) /\ ehRecords # <<>>
        /\ ehAt \in 1 .. Len(ehFrames) /\ Len(ehFrames) \in Nat
    <3>1. ehMode = "search" /\ ehAt > 0
      BY <1>1
    <3>2. ehFrames \in Seq(Frames) /\ ehRecords \in Seq(Records) /\ ehAt \in 0 .. Len(ehFrames)
      BY <1>2 DEF EhTyped
    <3>3. ehRecords # <<>>
      BY <1>2, <3>1 DEF EhTyped
    <3>4. Len(ehFrames) \in Nat
      BY <3>2
    <3> QED
      BY <3>1, <3>2, <3>3, <3>4
  <2>2. c \in Nat /\ c \in 1 .. Len(ehRecords)
    BY <2>1
  <2> QED
    BY <2>1, <2>2
<1>4. frame.fn \in Function /\ info.dispTryBlockMap \in Maps
      /\ DOMAIN TryBlocks(info) \subseteq Nat \ {0}
  <2>1. frame.fn \in Function
    BY <1>3 DEF Frames
  <2> QED
    BY <2>1, BlocksAre
<1>5. record.type \in DOMAIN Thrown /\ record.type # NoType
  <2>1. record.type # NoType
    BY <1>1 DEF Catching
  <2> QED
    BY <1>3, <2>1 DEF Records
<1>6. /\ blocks \subseteq DOMAIN TryBlocks(info) /\ \A a \in blocks : Fits(frame.fn, a, record.type) # {}
  BY <1>5 DEF Catching, Searched
<1>7. /\ b \in DOMAIN TryBlocks(info) /\ b \in Nat /\ b # 0 /\ Fits(frame.fn, b, record.type) # {}
  <2>1. b \in blocks
    <3> HIDE DEF blocks
    <3>1. blocks \in SUBSET Nat
      BY <1>4, <1>6
    <3> QED
      BY <1>1, <3>1, MinIs
  <2> HIDE DEF blocks, b
  <2> QED
    BY <1>4, <1>6, <2>1
<1> HIDE DEF blocks, b
<1>8. fit[1] \in DOMAIN Handlers(frame.fn, TryBlocks(info)[b])
  BY <1>4, <1>5, <1>7, FitIs
<1> HIDE DEF fit
<1>9. /\ handler.dispOfHandler \in Function /\ CatchBlock(handler.dispOfHandler)
      /\ handler.continuationAddress \in [0 .. 1 -> Int]
  BY <1>4, <1>7, <1>8, HandlersAre
<1> HIDE DEF handler
<1>10. /\ x \in Frames /\ IsCall(<<x>>, 1) /\ x.kind = "call" /\ x.record = c /\ x.destruct
       /\ y \in Frames /\ y.kind = "cxx" /\ CatchBlock(y.fn)
  <2>1. /\ x.kind = "call" /\ x.record = c /\ x.destruct /\ y.kind = "cxx" /\ y.fn = handler.dispOfHandler
    BY DEF CallCatchFrame, CxxFrame
  <2>2. x \in Frames
    BY <1>3, <1>4, <1>9 DEF CallCatchFrame, Frames
  <2>3. y \in Frames
    BY <1>9 DEF CxxFrame, Frames
  <2> HIDE DEF x, y
  <2>4. IsCall(<<x>>, 1)
    BY <2>1 DEF IsCall
  <2> QED
    BY <1>9, <2>1, <2>2, <2>3, <2>4
<1> HIDE DEF x, y
<1>11. lower \in Seq(Frames) /\ Len(lower) = ehAt /\ \A i \in 1 .. ehAt : lower[i] = ehFrames[i]
  BY <1>3
<1> HIDE DEF lower
<1>12. /\ ehFrames' \in Seq(Frames) /\ Len(ehFrames') = ehAt + 2
       /\ \A i \in 1 .. ehAt : ehFrames'[i] = ehFrames[i]
       /\ ehFrames'[ehAt + 1] = x /\ ehFrames'[ehAt + 2] = y
  <2> DEFINE both == <<x, y>>
             G == lower \o both
  <2>1. both \in Seq(Frames) /\ Len(both) = 2 /\ both[1] = x /\ both[2] = y
    BY <1>10
  <2> HIDE DEF both
  <2>2. /\ G \in Seq(Frames) /\ Len(G) = Len(lower) + 2
        /\ \A i \in 1 .. Len(lower) : G[i] = lower[i]
        /\ G[Len(lower) + 1] = both[1] /\ G[Len(lower) + 2] = both[2]
    <3>1. lower \in Seq(Frames) /\ both \in Seq(Frames)
      BY <1>11, <2>1
    <3>2. /\ G \in Seq(Frames) /\ Len(G) = Len(lower) + Len(both)
          /\ \A i \in 1 .. Len(lower) : G[i] = lower[i]
          /\ \A i \in 1 .. Len(both) : G[Len(lower) + i] = both[i]
      BY <3>1
    <3>3. 1 \in 1 .. Len(both) /\ 2 \in 1 .. Len(both)
      BY <2>1
    <3> HIDE DEF G
    <3> QED
      BY <2>1, <3>2, <3>3
  <2>3. ehFrames' = G
    BY <1>1 DEF both
  <2> HIDE DEF G
  <2> QED
    BY <1>11, <2>1, <2>2, <2>3
<1>13. /\ ehRecords' \in Seq(Records) /\ Len(ehRecords') = c
       /\ \A r \in 1 .. c : ehRecords'[r] = IF r = c THEN z ELSE ehRecords[r]
  <2>1. z \in Records
    BY <1>3, <1>4, <1>7 DEF Records
  <2>2. ehRecords' = [ehRecords EXCEPT ![c] = z]
    BY <1>1, <1>3 DEF Records
  <2> HIDE DEF z
  <2> QED
    BY <1>3, <2>1, <2>2
<1>14. /\ z.object = record.object /\ z.type = record.type
       /\ z.tryDisplacement = info.dispTryBlockMap /\ z.tryBlock = b
  BY <1>3 DEF Records
<1> HIDE DEF z
<1>15. EhTyped'
  BY <1>1, <1>2, <1>3, <1>12, <1>13 DEF EhTyped
<1>16. \A i \in 1 .. Len(ehFrames) : IsCall(ehFrames, i) => ehFrames[i].record < c
  BY <1>1, <1>2 DEF EhStack, InFlight, Current
<1>17. EhStack'
  <2>1. CallsApart(lower, ehRecords)
    <3>1. SameFrames(ehFrames, lower) /\ Len(lower) <= Len(ehFrames)
      BY <1>3, <1>11 DEF SameFrames
    <3>2. ~IsCall(ehFrames, Len(lower))
      BY <1>1, <1>11 DEF IsCall
    <3> QED
      BY <1>2, <1>3, <1>11, <3>1, <3>2, LowerPart DEF EhStack
  <2>2. CallsApart(lower, ehRecords')
    <3>1. \A i \in 1 .. Len(lower) : IsCall(lower, i) => ehRecords'[lower[i].record] = ehRecords[lower[i].record]
      <4> SUFFICES ASSUME NEW i \in 1 .. Len(lower), IsCall(lower, i)
                   PROVE  ehRecords'[lower[i].record] = ehRecords[lower[i].record]
        OBVIOUS
      <4>1. i \in 1 .. Len(ehFrames) /\ IsCall(ehFrames, i) /\ lower[i] = ehFrames[i]
        BY <1>3, <1>11 DEF IsCall
      <4>2. lower[i].record \in 1 .. c /\ lower[i].record # c
        <5>1. ehFrames[i].record \in 1 .. c /\ ehFrames[i].record < c
          BY <1>2, <1>16, <4>1 DEF EhStack, CallsApart, c
        <5> QED
          BY <1>3, <4>1, <5>1
      <4> QED
        BY <1>13, <4>2
    <3>2. Len(ehRecords') >= Len(ehRecords)
      BY <1>3, <1>13 DEF c
    <3> QED
      BY <1>3, <1>13, <2>1, <3>1, <3>2, SameCaught
  <2>3. CallsApart(ehFrames', ehRecords')
    <3>1. x.record \in 1 .. Len(ehRecords') /\ ehRecords'[x.record] = z
      BY <1>3, <1>10, <1>13 DEF c
    <3>2. Len(lower) > 0 /\ lower[Len(lower)] = frame
      BY <1>3, <1>11
    <3>3. Names(z, frame.fn) /\ z.type # NoType
      BY <1>5, <1>7, <1>14 DEF Names
    <3>4. \A i \in 1 .. Len(lower) : IsCall(lower, i) => lower[i].record < x.record
      BY <1>3, <1>10, <1>11, <1>16 DEF IsCall
    <3> QED
      BY <1>1, <1>10, <1>11, <2>2, <3>1, <3>2, <3>3, <3>4, CatchOnTop
  <2>4. Held(ehFrames', ehMode', ehAt')
    <3> SUFFICES ASSUME NEW i \in 1 .. ehAt + 2, IsCall(ehFrames', i) PROVE ehFrames'[i].destruct
      BY <1>1, <1>12 DEF Held
    <3>1. CASE i \in 1 .. ehAt
      <4>1. IsCall(ehFrames, i) /\ i \in 1 .. Len(ehFrames) /\ ~(i > ehAt)
        BY <1>3, <1>12, <3>1 DEF IsCall
      <4>2. ehFrames[i].destruct
        BY <1>1, <1>2, <4>1 DEF EhStack, Held
      <4> QED
        BY <1>12, <3>1, <4>2
    <3>2. CASE i = ehAt + 1
      BY <1>10, <1>12, <3>2
    <3>3. i # ehAt + 2
      BY <1>10, <1>12 DEF IsCall
    <3> QED
      BY <1>3, <3>1, <3>2, <3>3
  <2> QED
    BY <1>1, <2>3, <2>4 DEF EhStack, InFlight
<1>18. ObjectsOwn(ehRecords')
  BY <1>2, <1>13, <1>14 DEF ObjectsOwn, c
<1>19. DestroyedOnRelease'
  <2>1. DestroyedOnce(ehFrames, ehRecords, ehDestroyed, ehMode)
    BY <1>1, <1>2, DestroyedIs
  <2>2. Holder(ehFrames', c, ehAt + 1)
    BY <1>3, <1>10, <1>12 DEF Holder, IsCall
  <2>3. \A r : r # c => ((\E i : Holder(ehFrames', r, i)) <=> (\E i : Holder(ehFrames, r, i)))
    <3> SUFFICES ASSUME NEW r, r # c, NEW i PROVE Holder(ehFrames', r, i) <=> Holder(ehFrames, r, i)
      OBVIOUS
    <3>1. CASE i \in 1 .. ehAt
      BY <1>3, <1>12, <3>1 DEF Holder, IsCall
    <3>2. CASE i \notin 1 .. ehAt
      <4>1. ~Holder(ehFrames', r, i)
        <5>1. i \in 1 .. ehAt + 2 => (i = ehAt + 1 \/ i = ehAt + 2)
          BY <1>3, <3>2
        <5> QED
          BY <1>10, <1>12, <5>1 DEF Holder, IsCall
      <4>2. ~Holder(ehFrames, r, i)
        <5> SUFFICES ASSUME Holder(ehFrames, r, i) PROVE FALSE
          OBVIOUS
        <5>1. i \in 1 .. Len(ehFrames) /\ i > ehAt /\ IsCall(ehFrames, i) /\ ehFrames[i].destruct
          BY <1>3, <3>2 DEF Holder
        <5> QED
          BY <1>1, <1>2, <5>1 DEF EhStack, Held
      <4> QED
        BY <4>1, <4>2
    <3> QED
      BY <3>1, <3>2
  <2>4. DestroyedOnce(ehFrames', ehRecords', ehDestroyed', ehMode')
    <3> SUFFICES ASSUME NEW r \in 1 .. c, ehRecords'[r].type # NoType
                 PROVE  IF \E i : Holder(ehFrames', r, i) THEN ehDestroyed[r] = 0 ELSE ehDestroyed[r] = 1
      BY <1>1, <1>13 DEF DestroyedOnce
    <3>1. ehRecords[r].type # NoType
      BY <1>13, <1>14
    <3>2. IF r = c \/ (\E i : Holder(ehFrames, r, i)) THEN ehDestroyed[r] = 0 ELSE ehDestroyed[r] = 1
      BY <1>1, <2>1, <3>1 DEF DestroyedOnce, c
    <3> QED
      BY <2>2, <2>3, <3>2
  <2> QED
    BY <1>15, <2>4, DestroyedIsNext
<1>20. Skips' /\ PassedOver'
  BY <1>1 DEF Skips, PassedOver
<1> QED
  BY <1>15, <1>17, <1>18, <1>19, <1>20 DEF EhInv

LEMMA EhStep == EhInv /\ [EHNext]_ehVars => EhInv'
<1> SUFFICES ASSUME EhInv, [EHNext]_ehVars PROVE EhInv'
  OBVIOUS
<1>1. ASSUME NEW f \in Function, CallFunction(f) PROVE EhInv'
  BY <1>1, FunctionCalled
<1>2. ASSUME NEW ip \in UNION {Ips[f] : f \in Function}, GoOn(ip) PROVE EhInv'
  <2>1. ip \in Int
    BY TablesAssumption
  <2> QED
    BY <1>2, <2>1, GoOnInv
<1>3. CASE Return
  BY <1>3, ReturnInv
<1>4. ASSUME NEW type \in DOMAIN Thrown, Throw(type) PROVE EhInv'
  <2>1. type # NoType
    BY TablesAssumption
  <2>2. _CxxThrowException(Len(ehRecords) + 1, type)
    BY <1>4 DEF Throw
  <2> QED
    BY <2>1, <2>2, ThrowInv
<1>5. CASE Rethrow
  <2>1. _CxxThrowException(0, NoType)
    BY <1>5 DEF Rethrow, NullObject
  <2> QED
    BY <2>1, ThrowInv
<1>6. CASE PassFrame
  BY <1>6, PassFrameInv
<1>7. CASE ReadNoType \/ Unhandled
  <2>1. ehMode' = "dead" /\ UNCHANGED <<ehFrames, ehRecords, ehAt, ehDestroyed>>
    BY <1>7 DEF ReadNoType, Unhandled
  <2> QED
    BY <2>1, DeadInv
<1>8. CASE Catch
  BY <1>8, CatchInv
<1>9. CASE ExFilterRethrow
  BY <1>9, FilterInv
<1>10. ASSUME NEW index \in 0 .. 1, CatchReturns(index) PROVE EhInv'
  BY <1>10, CatchReturnsInv
<1>11. CASE UNCHANGED ehVars
  <2>1. UNCHANGED <<ehFrames, ehRecords, ehMode, ehAt, ehDestroyed>>
    BY <1>11 DEF ehVars
  <2> QED
    BY <2>1 DEF EhInv, EhTyped, EhStack, InFlight, DestroyedOnRelease, Skips, PassedOver, Current
<1> QED
  BY <1>1, <1>2, <1>3, <1>4, <1>5, <1>6, <1>7, <1>8, <1>9, <1>10, <1>11 DEF EHNext

\* The invariant of the stack and the search, for any tables and any throws.
THEOREM ExceptionsInvariance == EHSpec => []EhInv
<1>1. EHInit => EhInv
  BY EhInitially
<1>2. EhInv /\ [EHNext]_ehVars => EhInv'
  BY EhStep
<1> QED
  BY <1>1, <1>2, PTL DEF EHSpec

\* Each object thrown is destroyed at most once, and unless "throw;" throws it
\* again exactly when no search is for it and no catch has it any more: the catch
\* block ended, or another exception left it (ExceptionHandler.cpp:366-372,
\* 536-572).  One thrown again is destroyed in flight, which is all that
\* DestroyedOnRelease knows of it and what ObjectDestroyedOnce leaves open.
THEOREM DestroyedCorrect == EHSpec => []ObjectDestroyedOnce
<1>1. EhInv => ObjectDestroyedOnce
  <2> SUFFICES ASSUME EhInv, ehMode # "dead" PROVE ObjectDestroyedOnce
    BY DEF ObjectDestroyedOnce
  <2> DEFINE Kept(r) == \E i \in DOMAIN ehFrames : /\ ehFrames[i].kind = "call" /\ ehFrames[i].destruct
                                                   /\ ehFrames[i].record = r
             Now(r) == ehMode = "search" /\ r = Current
  <2>1. DestroyedOnRelease
    BY DEF EhInv
  <2>2. \A r \in DOMAIN ehRecords :
          ehRecords[r].type # NoType => ehDestroyed[r] = IF Now(r) \/ Kept(r) THEN 0 ELSE 1
    BY <2>1 DEF DestroyedOnRelease
  <2> HIDE DEF Kept, Now
  <2>3. \A r \in DOMAIN ehRecords : ehRecords[r].type # NoType => ehDestroyed[r] <= 1
    BY <2>2
  <2>4. \A r \in DOMAIN ehRecords : ehRecords[r].type # NoType =>
          /\ ehDestroyed[r] <= 1
          /\ ~Rethrown(r) => ehDestroyed[r] = IF Now(r) \/ Kept(r) THEN 0 ELSE 1
    BY <2>2, <2>3
  <2> QED
    BY <2>4 DEF ObjectDestroyedOnce, Kept, Now
<1> QED
  BY <1>1, ExceptionsInvariance, PTL

\* What is owed, from the stack alone.
LEMMA OwedIs ==
  ASSUME EhTyped
  PROVE  /\ \A k, type : Owed(k, type) = OwedIn(ehFrames, ehRecords, k, type)
         /\ Recursion <=> TwiceIn(ehFrames)
         /\ DOMAIN ehFrames = 1 .. Len(ehFrames)
<1>1. DOMAIN ehFrames = 1 .. Len(ehFrames)
  BY DEF EhTyped
<1>2. ASSUME NEW k, NEW type PROVE Owed(k, type) = OwedIn(ehFrames, ehRecords, k, type)
  BY DEF Owed, OwedIn, Left, LeftIn, IsCall
<1>3. Recursion <=> TwiceIn(ehFrames)
  BY <1>1 DEF Recursion, TwiceIn
<1> QED
  BY <1>1, <1>2, <1>3

\* The search ends with the block that catches, or without one.
LEMMA NearestStep == EhInv /\ [EHNext]_ehVars => FindsNearest
<1> SUFFICES ASSUME EhInv, [EHNext]_ehVars, ehMode = "search", ehMode' # "search",
                    ehRecords[Current].type # NoType, ~Recursion
             PROVE  LET type == ehRecords[Current].type
                        open(k) == IF ehFrames[k].kind = "cxx" THEN Owed(k, type) ELSE {}
                    IN /\ \A k \in DOMAIN ehFrames : k > ehAt => open(k) = {}
                       /\ ehMode' = "run" =>
                            \E b \in open(ehAt) : b = ehRecords'[Current].tryBlock /\ \A d \in open(ehAt) : b <= d
  BY DEF FindsNearest
<1> DEFINE type == ehRecords[Current].type
           open(k) == IF ehFrames[k].kind = "cxx" THEN Owed(k, type) ELSE {}
<1>1. EhTyped /\ PassedOver
  BY DEF EhInv
<1>2. ~TwiceIn(ehFrames) /\ DOMAIN ehFrames = 1 .. Len(ehFrames)
      /\ \A k, t : Owed(k, t) = OwedIn(ehFrames, ehRecords, k, t)
  BY <1>1, OwedIs
<1>3. \A k \in DOMAIN ehFrames : k > ehAt => open(k) = {}
  BY <1>1, <1>2 DEF PassedOver
<1>4. Catch \/ ehMode' = "dead"
  BY DEF EHNext, ehVars, CallFunction, GoOn, Return, Throw, Rethrow, _CxxThrowException, PassFrame, ReadNoType,
         ExFilterRethrow, Unhandled, CatchReturns
<1>5. ASSUME Catch
      PROVE  \E b \in open(ehAt) : b = ehRecords'[Current].tryBlock /\ \A d \in open(ehAt) : b <= d
  <2> DEFINE frame == ehFrames[ehAt]
             record == ehRecords[Current]
             blocks == Catching(frame, record)
             info == DecompFuncInfo(frame.fn)
  <2>1. /\ CxxFrameAt /\ blocks # {} /\ frame.kind = "cxx"
        /\ ehRecords' = [ehRecords EXCEPT ![Current].tryDisplacement = info.dispTryBlockMap,
                                          ![Current].tryBlock = Min(blocks)]
    BY <1>5 DEF Catch, CxxFrameAt
  <2>2. blocks = OwedIn(ehFrames, ehRecords, ehAt, type)
    BY <1>2, <2>1, CatchingIsOwed
  <2>3. open(ehAt) = blocks
    BY <1>2, <2>1, <2>2
  <2>4. Current \in 1 .. Len(ehRecords) /\ record \in Records /\ ehRecords \in Seq(Records)
        /\ ehAt \in 1 .. Len(ehFrames) /\ frame \in Frames
    BY <1>1, <2>1 DEF EhTyped, Current, CxxFrameAt
  <2>5. ehRecords'[Current].tryBlock = Min(blocks)
    <3> HIDE DEF blocks, info
    <3> QED
      BY <2>1, <2>4 DEF Records
  <2>6. blocks \in SUBSET Nat
    <3>1. frame.fn \in Function
      BY <2>4 DEF Frames
    <3>2. DOMAIN TryBlocks(info) \subseteq Nat
      BY <3>1, BlocksAre
    <3>3. blocks \subseteq DOMAIN TryBlocks(info)
      BY DEF Catching, Searched
    <3> QED
      BY <3>2, <3>3
  <2> HIDE DEF blocks, open
  <2>7. Min(blocks) \in blocks /\ \A d \in blocks : Min(blocks) <= d
    BY <2>1, <2>6, MinIs
  <2> QED
    BY <2>3, <2>5, <2>7
<1> QED
  BY <1>3, <1>4, <1>5

\* A search ends at the innermost try block that encloses the throw and has a
\* catch for the type (ExceptionHandler.cpp:598-661).
THEOREM NearestCorrect == EHSpec => NearestHandler
<1>1. EhInv /\ [EHNext]_ehVars => [FindsNearest]_ehVars
  BY NearestStep
<1> QED
  BY <1>1, ExceptionsInvariance, PTL DEF EHSpec, NearestHandler
=============================================================================
