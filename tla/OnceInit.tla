------------------------------- MODULE OnceInit -------------------------------
(***************************************************************************)
(* One-time initialisation of function-local statics                       *)
(* (Memory/src/ThreadLocalStorage.c): _Init_thread_header, _footer and     *)
(* _abort share one critical section and one condition variable among all  *)
(* guard words of the program.                                             *)
(*                                                                         *)
(* The client is a function with several statics, one guard word each,     *)
(* initialised in their order (Brotli's DecodeHuffman has eleven), called  *)
(* by any number of threads.  The compiler emits the fast test, the second *)
(* test after the header, and the abort when the initialiser throws.       *)
(***************************************************************************)
EXTENDS Integers

CONSTANTS
  Threads,   \* callers
  None,      \* nobody: the critical section is free
  Statics,   \* number of statics in the function
  MaxFaults  \* bound: throwing initialisers and spurious wake-ups, together

ASSUME OnceAssumption ==
  /\ None \notin Threads
  /\ Statics \in Nat \ {0}
  /\ MaxFaults \in Nat

VARIABLES
  once,      \* the guard word of each static
  mutex,     \* owner of TLS_MUTEX
  pc,        \* where each thread is
  cur,       \* the static each thread has reached
  verdict,   \* the value footer or abort is about to store
  built,     \* history: how often each static was initialised
  faults     \* faults so far

vars == <<once, mutex, pc, cur, verdict, built, faults>>

Guards == 1 .. Statics
Epoch == -2147483647 - 1     \* (int) 0x80000000: initialised
Busy == -1                   \* a thread runs the initialiser
Locations == {"out", "test", "enter", "loop", "asleep", "leave", "recheck",
              "construct", "settle", "store", "settle_leave", "wake", "use"}

Init ==
  /\ once = [g \in Guards |-> 0]
  /\ mutex = None
  /\ pc = [t \in Threads |-> "out"]
  /\ cur = [t \in Threads |-> 1]
  /\ verdict = [t \in Threads |-> Epoch]
  /\ built = [g \in Guards |-> 0]
  /\ faults = 0

Goto(t, from, to) == pc[t] = from /\ pc' = [pc EXCEPT ![t] = to]

\* The static's initialisation is over for this thread: on to the next one.
Advance(t, from) ==
  IF cur[t] = Statics
  THEN Goto(t, from, "use") /\ UNCHANGED cur
  ELSE Goto(t, from, "test") /\ cur' = [cur EXCEPT ![t] = @ + 1]

-------------------------------------------------------------------------------
(***************************************************************************)
(* Faulty variants.                                                        *)
(***************************************************************************)
Recheck_Always(t) ==       \* no second test after the header
  /\ Goto(t, "recheck", "construct")
  /\ UNCHANGED <<once, mutex, cur, verdict, built, faults>>

Test_NotZero(t) ==         \* the fast test takes a busy guard for a built one
  /\ IF once[cur[t]] = 0
     THEN Goto(t, "test", "enter") /\ UNCHANGED cur
     ELSE Advance(t, "test")
  /\ UNCHANGED <<once, mutex, verdict, built, faults>>

SettleLeave_NoWake(t) ==   \* abort and footer do not wake the sleepers
  /\ mutex' = None
  /\ IF verdict[t] = Epoch
     THEN Advance(t, "settle_leave")
     ELSE Goto(t, "settle_leave", "out") /\ UNCHANGED cur
  /\ UNCHANGED <<once, verdict, built, faults>>

-------------------------------------------------------------------------------
Call(t) ==
  /\ Goto(t, "out", "test")
  /\ cur' = [cur EXCEPT ![t] = 1]
  /\ UNCHANGED <<once, mutex, verdict, built, faults>>

\* The compiler's fast path: outside the critical section, one read.
Test(t) ==
  /\ IF once[cur[t]] > Epoch
     THEN Goto(t, "test", "enter") /\ UNCHANGED cur
     ELSE Advance(t, "test")
  /\ UNCHANGED <<once, mutex, verdict, built, faults>>

(***************************************************************************)
(* _Init_thread_header.  A thread whose sleep ends takes the critical      *)
(* section again, so it is back at "enter".                                *)
(***************************************************************************)
Enter(t) ==
  /\ mutex = None
  /\ Goto(t, "enter", "loop")
  /\ mutex' = t
  /\ UNCHANGED <<once, cur, verdict, built, faults>>

Loop(t) ==
  /\ IF once[cur[t]] # Busy
     THEN /\ once' = [once EXCEPT ![cur[t]] = IF @ = 0 THEN Busy ELSE @]
          /\ Goto(t, "loop", "leave")
          /\ UNCHANGED mutex
     ELSE /\ Goto(t, "loop", "asleep")
          /\ mutex' = None
          /\ UNCHANGED once
  /\ UNCHANGED <<cur, verdict, built, faults>>

SpuriousWake(t) ==
  /\ faults < MaxFaults
  /\ Goto(t, "asleep", "enter")
  /\ faults' = faults + 1
  /\ UNCHANGED <<once, mutex, cur, verdict, built>>

Leave(t) ==
  /\ Goto(t, "leave", "recheck")
  /\ mutex' = None
  /\ UNCHANGED <<once, cur, verdict, built, faults>>

\* The compiler's second test: only the thread that set -1 initialises.
Recheck(t) ==
  /\ IF once[cur[t]] = Busy
     THEN Goto(t, "recheck", "construct") /\ UNCHANGED cur
     ELSE Advance(t, "recheck")
  /\ UNCHANGED <<once, mutex, verdict, built, faults>>

Construct(t) ==
  /\ Goto(t, "construct", "settle")
  /\ built' = [built EXCEPT ![cur[t]] = @ + 1]
  /\ verdict' = [verdict EXCEPT ![t] = Epoch]
  /\ UNCHANGED <<once, mutex, cur, faults>>

\* The initialiser throws: abort, and the exception leaves the function.
Abort(t) ==
  /\ faults < MaxFaults
  /\ Goto(t, "construct", "settle")
  /\ verdict' = [verdict EXCEPT ![t] = 0]
  /\ faults' = faults + 1
  /\ UNCHANGED <<once, mutex, cur, built>>

(***************************************************************************)
(* _Init_thread_footer stores Epoch and _Init_thread_abort stores 0; both  *)
(* then leave the critical section and wake every sleeper.                 *)
(***************************************************************************)
Settle(t) ==
  /\ mutex = None
  /\ Goto(t, "settle", "store")
  /\ mutex' = t
  /\ UNCHANGED <<once, cur, verdict, built, faults>>

Store(t) ==
  /\ Goto(t, "store", "settle_leave")
  /\ once' = [once EXCEPT ![cur[t]] = verdict[t]]
  /\ UNCHANGED <<mutex, cur, verdict, built, faults>>

SettleLeave(t) ==
  /\ Goto(t, "settle_leave", "wake")
  /\ mutex' = None
  /\ UNCHANGED <<once, cur, verdict, built, faults>>

Woken(t, to) ==
  /\ pc[t] = "wake"
  /\ pc' = [s \in Threads |->
              IF s = t THEN to ELSE IF pc[s] = "asleep" THEN "enter" ELSE pc[s]]

Wake(t) ==
  /\ \/ /\ verdict[t] = 0
        /\ Woken(t, "out")
        /\ UNCHANGED cur
     \/ /\ verdict[t] = Epoch /\ cur[t] = Statics
        /\ Woken(t, "use")
        /\ UNCHANGED cur
     \/ /\ verdict[t] = Epoch /\ cur[t] < Statics
        /\ Woken(t, "test")
        /\ cur' = [cur EXCEPT ![t] = @ + 1]
  /\ UNCHANGED <<once, mutex, verdict, built, faults>>

\* The body of the function reads the statics and returns.
Use(t) ==
  /\ Goto(t, "use", "out")
  /\ UNCHANGED <<once, mutex, cur, verdict, built, faults>>

Step(t) ==
  \/ Test(t) \/ Enter(t) \/ Loop(t) \/ Leave(t) \/ Recheck(t) \/ Construct(t)
  \/ Settle(t) \/ Store(t) \/ SettleLeave(t) \/ Wake(t) \/ Use(t)

Fault(t) == SpuriousWake(t) \/ Abort(t)

Next == \E t \in Threads : Call(t) \/ Step(t) \/ Fault(t)

Spec == Init /\ [][Next]_vars

(***************************************************************************)
(* Fairness: a thread inside the function is scheduled while it can run.   *)
(* The critical section needs no more: once every static is initialised    *)
(* nobody enters it, so a thread cannot be passed over for ever.           *)
(***************************************************************************)
FairSpec == Spec /\ \A t \in Threads : WF_vars(Step(t))

-------------------------------------------------------------------------------
(***************************************************************************)
(* Properties.                                                             *)
(***************************************************************************)
TypeOK ==
  /\ once \in [Guards -> {0, Busy, Epoch}]
  /\ mutex \in Threads \cup {None}
  /\ pc \in [Threads -> Locations]
  /\ cur \in [Threads -> Guards]
  /\ verdict \in [Threads -> {0, Epoch}]
  /\ built \in [Guards -> {0, 1}]
  /\ faults \in 0 .. MaxFaults

\* The thread has been told by header to run the initialiser of its static.
Initialising(t) ==
  \/ pc[t] \in {"construct", "settle", "store"}
  \/ pc[t] \in {"leave", "recheck"} /\ once[cur[t]] = Busy

\* Two threads never initialise the same static at once, whoever wakes first
\* after a footer or an abort.
OneInitialiser ==
  \A s, t \in Threads :
    Initialising(s) /\ Initialising(t) /\ cur[s] = cur[t] => s = t

\* A thread that has passed a static, on the fast path or after sleeping,
\* finds it initialised exactly once, even if earlier attempts threw.
PassedIsBuilt ==
  \A t \in Threads : \A g \in Guards :
    pc[t] # "out" /\ (g < cur[t] \/ pc[t] = "use") => built[g] = 1

\* A sleeper whose static is no longer busy is about to be woken: no wake-up
\* falls between the test of the guard and the sleep.
NoLostWakeup ==
  \A t \in Threads :
    pc[t] = "asleep" /\ once[cur[t]] # Busy =>
      \E s \in Threads : pc[s] \in {"settle_leave", "wake"}

(***************************************************************************)
(* The inductive invariant: the critical section is where the program      *)
(* counters say, an initialiser keeps its guard busy, a guard says         *)
(* initialised exactly for what was built, and stays so.                   *)
(***************************************************************************)
InSection(t) == pc[t] \in {"loop", "leave", "store", "settle_leave"}
Publishing(t) == pc[t] \in {"settle", "store"} /\ verdict[t] = Epoch

Guarding ==
  \A t \in Threads :
    /\ InSection(t) <=> mutex = t
    /\ Initialising(t) => once[cur[t]] = Busy
    /\ pc[t] \in {"leave", "recheck"} => once[cur[t]] # 0
    /\ pc[t] \in {"settle_leave", "wake"} /\ verdict[t] = Epoch =>
         once[cur[t]] = Epoch

Building ==
  \A g \in Guards :
    built[g] = 1 <=> \/ once[g] = Epoch
                     \/ \E t \in Threads : cur[t] = g /\ Publishing(t)

Passing ==
  \A t \in Threads : \A g \in Guards :
    pc[t] # "out" /\ (g < cur[t] \/ pc[t] = "use") => once[g] = Epoch

\* The guard words, the critical section and the threads agree in every
\* reachable state of header, footer and abort.
OnceInv ==
  TypeOK /\ OneInitialiser /\ Guarding /\ Building /\ Passing /\ NoLostWakeup

\* Every call of the function returns, or leaves it with the exception of a
\* throwing initialiser.
CallsReturn == \A t \in Threads : pc[t] # "out" ~> pc[t] = "out"
===============================================================================
