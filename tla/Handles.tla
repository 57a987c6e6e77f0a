------------------------------- MODULE Handles -------------------------------
(* Objects that own a handle of the system: WTM::thread and WTM::process,      *)
(* Streaming::file, and Filesystem::foreach; and what threads are asked.  The  *)
(* system's calls may fail.  A failed DuplicateHandle leaves an object that is *)
(* not there; a failed CloseHandle in a file's destructor ends the process.    *)
(* A foreach declares a destructor and nothing else, so that the compiler's    *)
(* copy and assignment apply to it, moves included: they copy the handle.      *)
EXTENDS Integers, Sequences, FiniteSets

CONSTANTS
  Owners,        \* the places of objects
  KindOf,        \* the kind of object a place holds
  MaxOpen,       \* bound: handles in a behaviour
  MaxSuspend     \* the most that a thread is suspended

VARIABLES
  haOwner,       \* a place's object: [there, handle]
  haOpen,        \* the handles: [kind, state, thread], in the order of their making
  haLost,        \* handles that a first() or an assignment of a foreach has overwritten
  haShared,      \* handles that a copy or an assignment of a foreach has copied
  haThreads,     \* the system's threads: [suspended, state], in the order of their making
  haStopped      \* an exception left a destructor

haVars == <<haOwner, haOpen, haLost, haShared, haThreads, haStopped>>

None == 0
NoObject == [there |-> FALSE, handle |-> None]
Holding(h) == [there |-> TRUE, handle |-> h]

HaInit ==
  /\ haOwner = [o \in Owners |-> NoObject]
  /\ haOpen = <<>> /\ haLost = {} /\ haShared = {} /\ haThreads = <<>> /\ haStopped = FALSE

\* The other objects of the same class.
Others(o) == {from \in Owners : from # o /\ KindOf[from] = KindOf[o]}
\* A handle that is closed already is closed a second time.
CloseHandle(open, h) ==
  IF h = None THEN open
  ELSE [open EXCEPT ![h].state = IF @ = "open" THEN "closed" ELSE "twice"]
Handle(kind, thread) == [kind |-> kind, state |-> "open", thread |-> thread]
\* DuplicateHandle: another handle for what h is for.
SecondHandle(h) == Handle(haOpen[h].kind, haOpen[h].thread)
Rest == UNCHANGED <<haLost, haShared, haThreads, haStopped>>
\* A file's close() throws what CloseHandle answers: fatal where nothing may leave.
Fatal(o) == haStopped' \in {FALSE} \cup {KindOf[o] = "file" /\ haOwner[o].handle # None}

-----------------------------------------------------------------------------
(* Construction.                                                               *)

\* thread::create: a new thread, whose handle the object owns.
Create(o) ==
  /\ KindOf[o] = "thread" /\ ~haOwner[o].there /\ Len(haOpen) < MaxOpen
  /\ haThreads' = Append(haThreads, [suspended |-> 0, state |-> "running"])
  /\ haOpen' = Append(haOpen, Handle("thread", Len(haThreads) + 1))
  /\ haOwner' = [haOwner EXCEPT ![o] = Holding(Len(haOpen) + 1)]
  /\ UNCHANGED <<haLost, haShared, haStopped>>

\* thread::current and process::current: a copy of the handle that needs no
\* closing; process::open: an object even when there is no such process; a file.
Open(o) ==
  /\ ~haOwner[o].there /\ KindOf[o] \in {"thread", "process", "file"}
  /\ \/ /\ Len(haOpen) < MaxOpen
        /\ haOpen' = Append(haOpen, Handle(KindOf[o], None))
        /\ haOwner' = [haOwner EXCEPT ![o] = Holding(Len(haOpen) + 1)]
     \/ /\ KindOf[o] = "process"
        /\ haOwner' = [haOwner EXCEPT ![o] = Holding(None)]
        /\ UNCHANGED haOpen
  /\ Rest

\* The copy constructors: a second handle for the same object, or an exception.
Duplicate(o, from) ==
  /\ ~haOwner[o].there /\ haOwner[from].there
  /\ KindOf[o] \in {"thread", "process"}
  /\ haOwner[from].handle # None /\ Len(haOpen) < MaxOpen
  /\ haOpen' = Append(haOpen, SecondHandle(haOwner[from].handle))
  /\ haOwner' = [haOwner EXCEPT ![o] = Holding(Len(haOpen) + 1)]
  /\ Rest

\* Mutant: the object moved from keeps its handle.
MoveNew_Shares(o, from) ==
  /\ ~haOwner[o].there /\ haOwner[from].there
  /\ KindOf[o] # "foreach"
  /\ haOwner' = [haOwner EXCEPT ![o] = haOwner[from]]
  /\ UNCHANGED haOpen /\ Rest

\* The move constructors.
MoveNew(o, from) ==
  /\ ~haOwner[o].there /\ haOwner[from].there
  /\ KindOf[o] # "foreach"
  /\ haOwner' = [haOwner EXCEPT ![o] = haOwner[from], ![from] = Holding(None)]
  /\ UNCHANGED haOpen /\ Rest

\* operator=(&&): the old handle is closed, the other one's is taken over.
TakeOver(o, from) ==
  /\ haOwner[o].there /\ haOwner[from].there
  /\ KindOf[o] # "foreach"
  /\ haOpen' = CloseHandle(haOpen, haOwner[o].handle)
  /\ haOwner' = [haOwner EXCEPT ![o] = haOwner[from], ![from] = Holding(None)]
  /\ Fatal(o)
  /\ UNCHANGED <<haLost, haShared, haThreads>>

\* operator=(const &): a copy, which is moved in; nothing is closed when it fails.
DuplicateAssign(o, from) ==
  /\ haOwner[o].there /\ haOwner[from].there
  /\ KindOf[o] \in {"thread", "process"}
  /\ haOwner[from].handle # None /\ Len(haOpen) < MaxOpen
  /\ haOpen' = CloseHandle(Append(haOpen, SecondHandle(haOwner[from].handle)), haOwner[o].handle)
  /\ haOwner' = [haOwner EXCEPT ![o] = Holding(Len(haOpen) + 1)]
  /\ Rest

\* The copy, and the move, of a foreach: a second object with the same handle.
CopySearch(o, from) ==
  /\ ~haOwner[o].there /\ haOwner[from].there
  /\ KindOf[o] = "foreach"
  /\ haOwner' = [haOwner EXCEPT ![o] = haOwner[from]]
  /\ haShared' = haShared \cup ({haOwner[from].handle} \ {None})
  /\ UNCHANGED <<haOpen, haLost, haThreads, haStopped>>

\* The assignment of a foreach: the search that was under way is not closed.
AssignSearch(o, from) ==
  /\ haOwner[o].there /\ haOwner[from].there
  /\ KindOf[o] = "foreach"
  /\ haOwner' = [haOwner EXCEPT ![o] = haOwner[from]]
  /\ haShared' = haShared \cup ({haOwner[from].handle} \ {None})
  /\ haLost' = haLost \cup ({haOwner[o].handle} \ {None, haOwner[from].handle})
  /\ UNCHANGED <<haOpen, haThreads, haStopped>>

\* The destructors.
Destroy(o) ==
  /\ haOwner[o].there
  /\ haOpen' = CloseHandle(haOpen, haOwner[o].handle)
  /\ haOwner' = [haOwner EXCEPT ![o] = NoObject]
  /\ Fatal(o)
  /\ UNCHANGED <<haLost, haShared, haThreads>>

\* file::close and foreach::close; a file whose handle could not be closed keeps it.
CloseOwner(o) ==
  /\ haOwner[o].there /\ KindOf[o] \in {"file", "foreach"} /\ haOwner[o].handle # None
  /\ haOpen' = CloseHandle(haOpen, haOwner[o].handle)
  /\ haOwner' = [haOwner EXCEPT ![o].handle = None]
  /\ Rest

\* foreach::first: the search that was under way is not closed.
FirstFile(o) ==
  /\ KindOf[o] = "foreach" /\ Len(haOpen) < MaxOpen
  /\ haOpen' = Append(haOpen, Handle("foreach", None))
  /\ haLost' = haLost \cup ({haOwner[o].handle} \ {None})
  /\ haOwner' = [haOwner EXCEPT ![o] = Holding(Len(haOpen) + 1)]
  /\ UNCHANGED <<haShared, haThreads, haStopped>>

\* process::privilege: the token is closed on every way out.
Privilege(o) ==
  /\ KindOf[o] = "process" /\ haOwner[o].there /\ haOwner[o].handle # None /\ Len(haOpen) < MaxOpen
  /\ haOpen' = CloseHandle(Append(haOpen, Handle("token", None)), Len(haOpen) + 1)
  /\ UNCHANGED haOwner /\ Rest

-----------------------------------------------------------------------------
(* What is asked of threads and processes.                                     *)

ThreadOf(o) == IF haOwner[o].handle = None THEN None ELSE haOpen[haOwner[o].handle].thread
Running(t) == t # None /\ haThreads[t].state = "running"
NoHandleChanges == UNCHANGED <<haOwner, haOpen, haLost, haShared, haStopped>>

\* suspend() and resume(): counted by the system, and not below 0.
Suspend(o) ==
  LET t == ThreadOf(o) IN
  /\ Running(t) /\ haThreads[t].suspended < MaxSuspend
  /\ haThreads' = [haThreads EXCEPT ![t].suspended = @ + 1]
  /\ NoHandleChanges
Resume(o) ==
  LET t == ThreadOf(o) IN
  /\ Running(t) /\ haThreads[t].suspended > 0
  /\ haThreads' = [haThreads EXCEPT ![t].suspended = @ - 1]
  /\ NoHandleChanges

\* The system: a thread that is not suspended returns, whoever has its handle.
End(t) ==
  /\ Running(t) /\ haThreads[t].suspended = 0
  /\ haThreads' = [haThreads EXCEPT ![t].state = "ended"]
  /\ NoHandleChanges

HaNext ==
  /\ ~haStopped
  /\ \/ \E o \in Owners :
          \/ Create(o) \/ Open(o) \/ Destroy(o) \/ CloseOwner(o) \/ FirstFile(o) \/ Privilege(o)
          \/ Suspend(o) \/ Resume(o)
          \/ \E from \in Others(o) :
               \/ Duplicate(o, from) \/ MoveNew(o, from) \/ TakeOver(o, from) \/ DuplicateAssign(o, from)
               \/ CopySearch(o, from) \/ AssignSearch(o, from)
     \/ \E t \in DOMAIN haThreads : End(t)

HaSpec == HaInit /\ [][HaNext]_haVars

-----------------------------------------------------------------------------
(* Whatever is copied, moved, assigned and destroyed: a handle that is open    *)
(* has one owner, none that is closed has any, and none is closed twice; only  *)
(* a search that a first() or an assignment overwrites is open without one     *)
(* (foreach.cpp:48).  A search that a foreach was copied from has more owners, *)
(* each of which closes it (foreach.cpp:36-39, 76-83): of it, this says that   *)
(* its last owner does not leave it open.                                      *)
HoldersOf(h) == {o \in Owners : haOwner[o].there /\ haOwner[o].handle = h}
ClosedOnce ==
  \A h \in DOMAIN haOpen :
    LET holders == HoldersOf(h)
        state == haOpen[h].state
    IN  /\ h \notin haShared =>
             /\ state # "twice"
             /\ Cardinality(holders) = IF state = "closed" \/ h \in haLost THEN 0 ELSE 1
        /\ holders = {} => state # "open" \/ h \in haLost
=============================================================================
