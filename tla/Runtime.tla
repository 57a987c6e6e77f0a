------------------------------- MODULE Runtime -------------------------------
(* What Memory.dll does instead of the C runtime when a process starts and     *)
(* ends (Memory/src/dllentry.cpp, crt.c) and the messages of error codes that  *)
(* every library registers while it starts (exception.cpp).                    *)
EXTENDS Integers, Sequences, SequencesExt

CONSTANTS
  Initialisers,   \* what the entries of .CRT$XCA .. .CRT$XCZ do: "atexit", "registry", "none"
  ScrtCount,      \* rows of the table scrt (1 in the source)
  RtThreads,      \* threads that first use a local static object while the program runs
  MaxNodes        \* bound: calls of atexit in a run

VARIABLES
  rtPhase,     \* "attach", "scrt", "run", "onexit", "gone"
  rtIndex,     \* the initialiser, then the row of scrt, that is next
  rtNext,      \* the ExitNodes: next of each node (0: none)
  rtLive,      \* nodes that are allocated
  exittable,   \* the first node
  rtAtexit,    \* thread -> the node it is about to put first (0: it is not in atexit)
  rtNode,      \* the node onexit is at
  rtRan,       \* handlers that ran, in order (a handler is known by its node)
  ErrorMessage,\* code + 1 -> message
  rtAnswer,    \* the last answer of Memory::message
  rtScrt,      \* rows of scrt that are initialised, in order
  rtReturned,  \* nodes whose atexit returned before the process began to end, in order
  rtOverlap    \* two calls of atexit have overlapped

rtVars == <<rtPhase, rtIndex, rtNext, rtLive, exittable, rtAtexit, rtNode, rtRan,
            ErrorMessage, rtAnswer, rtScrt, rtReturned, rtOverlap>>
exitVars == <<rtNext, rtLive, exittable, rtAtexit, rtReturned, rtOverlap>>

RtInit ==
  /\ rtPhase = "attach" /\ rtIndex = 1
  /\ rtNext = <<>> /\ rtLive = {} /\ exittable = 0
  /\ rtAtexit = [t \in RtThreads |-> 0]
  /\ rtNode = 0 /\ rtRan = <<>>
  /\ ErrorMessage = <<>> /\ rtAnswer = "none"
  /\ rtScrt = <<>>
  /\ rtReturned = <<>> /\ rtOverlap = FALSE

\* A mutant: the new node forgets the ones registered before it.
Atexit_Alone ==
  /\ Len(rtNext) < MaxNodes
  /\ LET node == Len(rtNext) + 1
     IN /\ rtNext' = Append(rtNext, 0)
        /\ rtLive' = rtLive \cup {node}
        /\ exittable' = node
        /\ rtReturned' = IF rtPhase = "onexit" THEN rtReturned ELSE Append(rtReturned, node)
  /\ UNCHANGED <<rtAtexit, rtOverlap>>
\* atexit, called where no other thread runs; the initialiser that calls it
\* passes a function.  A failed allocation registers nothing.
Atexit ==
  /\ Len(rtNext) < MaxNodes
  /\ LET node == Len(rtNext) + 1
     IN /\ rtNext' = Append(rtNext, exittable)
        /\ rtLive' = rtLive \cup {node}
        /\ exittable' = node
        /\ rtReturned' = IF rtPhase = "onexit" THEN rtReturned ELSE Append(rtReturned, node)
  /\ UNCHANGED <<rtAtexit, rtOverlap>>

\* Memory::registry: a larger array takes the messages over; the new code is
\* the number of those before.
Registry ==
  ErrorMessage' = [i \in 1 .. Len(ErrorMessage) + 1 |->
                     IF i \in DOMAIN ErrorMessage THEN ErrorMessage[i] ELSE "message"]

\* CRTINIT: the function pointers between the two marks, in order; empty ones
\* are left out.
CRTINIT ==
  /\ rtPhase = "attach"
  /\ IF rtIndex > Len(Initialisers)
     THEN /\ rtPhase' = "scrt" /\ rtIndex' = 1
          /\ UNCHANGED <<exitVars, ErrorMessage>>
     ELSE /\ \/ /\ Initialisers[rtIndex] = "atexit"
                /\ Atexit /\ UNCHANGED ErrorMessage
             \/ /\ Initialisers[rtIndex] = "registry"
                /\ Registry /\ UNCHANGED exitVars
             \/ /\ Initialisers[rtIndex] = "none"
                /\ UNCHANGED <<exitVars, ErrorMessage>>
          /\ rtIndex' = rtIndex + 1 /\ UNCHANGED rtPhase
  /\ UNCHANGED <<rtNode, rtRan, rtAnswer, rtScrt>>

\* scrt_init: row after row while they succeed.  If one fails, or anything
\* before it did, the system unloads the library at once, which runs the
\* other half of _DllMainCRTStartup.
scrt_init ==
  /\ rtPhase = "scrt"
  /\ IF rtIndex > ScrtCount
     THEN /\ rtPhase' \in {"run", "onexit"} /\ UNCHANGED <<rtIndex, rtScrt>>
          /\ rtNode' = IF rtPhase' = "onexit" THEN exittable ELSE rtNode
     ELSE /\ rtScrt' = Append(rtScrt, rtIndex) /\ rtIndex' = rtIndex + 1
          /\ UNCHANGED <<rtPhase, rtNode>>
  /\ UNCHANGED <<exitVars, rtRan, ErrorMessage, rtAnswer>>

\* atexit in a thread: the node is made and points to the first one ...
AtexitNode(t) ==
  /\ rtPhase = "run" /\ rtAtexit[t] = 0 /\ Len(rtNext) < MaxNodes
  /\ rtNext' = Append(rtNext, exittable)
  /\ rtLive' = rtLive \cup {Len(rtNext) + 1}
  /\ rtAtexit' = [rtAtexit EXCEPT ![t] = Len(rtNext) + 1]
  /\ rtOverlap' = (rtOverlap \/ \E u \in RtThreads : rtAtexit[u] # 0)
  /\ UNCHANGED <<rtPhase, rtIndex, exittable, rtNode, rtRan, ErrorMessage, rtAnswer, rtScrt,
                 rtReturned>>

\* ... and then becomes the first one itself, whatever happened in between.
AtexitFirst(t) ==
  /\ rtPhase = "run" /\ rtAtexit[t] # 0
  /\ exittable' = rtAtexit[t]
  /\ rtReturned' = Append(rtReturned, rtAtexit[t])
  /\ rtAtexit' = [rtAtexit EXCEPT ![t] = 0]
  /\ UNCHANGED <<rtPhase, rtIndex, rtNext, rtLive, rtNode, rtRan, ErrorMessage, rtAnswer, rtScrt,
                 rtOverlap>>

\* Memory::message of a code of the libraries.
MessageOf(errcode) ==
  /\ rtPhase = "run"
  /\ rtAnswer' = IF errcode < Len(ErrorMessage) THEN ErrorMessage[errcode + 1]
                 ELSE "ERROR_INVALID_PARAMETER"
  /\ UNCHANGED <<rtPhase, rtIndex, exitVars, rtNode, rtRan, ErrorMessage, rtScrt>>

\* The process ends: the system has stopped the other threads wherever they are.
Detach ==
  /\ rtPhase = "run"
  /\ rtPhase' = "onexit" /\ rtNode' = exittable
  /\ UNCHANGED <<rtIndex, exitVars, rtRan, ErrorMessage, rtAnswer, rtScrt>>

\* onexit: the handler runs, and may register another; the node's successor is
\* read after that, and the node is freed.
RunHandler ==
  /\ rtPhase = "onexit" /\ rtNode # 0
  /\ rtRan' = Append(rtRan, rtNode)
  /\ \/ /\ Len(rtNext) < MaxNodes
        /\ rtNext' = Append(rtNext, exittable)
        /\ exittable' = Len(rtNext) + 1
        /\ rtLive' = (rtLive \cup {Len(rtNext) + 1}) \ {rtNode}
     \/ rtLive' = rtLive \ {rtNode} /\ UNCHANGED <<rtNext, exittable>>
  /\ rtNode' = rtNext[rtNode]
  /\ UNCHANGED <<rtPhase, rtIndex, rtAtexit, ErrorMessage, rtAnswer, rtScrt, rtReturned, rtOverlap>>

\* The list is forgotten, the messages are freed, scrt_uninit undoes the rows.
Gone ==
  /\ rtPhase = "onexit" /\ rtNode = 0
  /\ exittable' = 0 /\ ErrorMessage' = <<>> /\ rtScrt' = <<>>
  /\ rtPhase' = "gone"
  /\ UNCHANGED <<rtIndex, rtNext, rtLive, rtAtexit, rtNode, rtRan, rtAnswer, rtReturned, rtOverlap>>

RtNext == \/ CRTINIT \/ scrt_init \/ Detach \/ RunHandler \/ Gone
          \/ \E t \in RtThreads : AtexitNode(t) \/ AtexitFirst(t)
          \/ \E code \in 0 .. 2 : MessageOf(code)

RtSpec == RtInit /\ [][RtNext]_rtVars

-----------------------------------------------------------------------------
\* Handlers run in the opposite order of their registration and once; all that
\* were registered before the process began to end have run when it is gone,
\* unless two registrations overlapped (the later store then drops the other
\* thread's node).  What a handler registers while the list is walked never
\* runs, and only those nodes and the dropped ones are not freed.
ExitOrder ==
  /\ rtPhase = "gone" /\ ~rtOverlap =>
       /\ rtRan = Reverse(rtReturned)
       /\ rtLive \intersect ToSet(rtReturned) = {}
  /\ ToSet(rtRan) \subseteq ToSet(rtReturned)
  /\ \A i, j \in DOMAIN rtRan : i < j =>
       \E a, b \in DOMAIN rtReturned : b < a /\ rtReturned[a] = rtRan[i] /\ rtReturned[b] = rtRan[j]
  /\ rtNode # 0 => rtNode \in rtLive
=============================================================================
