---------------------------- MODULE FrameHandler ----------------------------
(* C++ exceptions without Microsoft's runtime: Memory/src/ExceptionHandler.cpp *)
(* is the language handler the system calls for every frame while it looks for *)
(* a catch, together with the tables the compiler leaves in the image          *)
(* (HandlerMap.cpp, TryBlockMap.cpp).  A search goes over the frames from the  *)
(* throw outwards, one call of the handler per frame; the first try block that *)
(* encloses the frame's instruction and has a catch for the type wins, the     *)
(* frames above it are dropped and the catch block runs on top, called by      *)
(* CxxCallCatchBlock.                                                          *)
EXTENDS Integers, Sequences, SequencesExt, FiniteSetsExt

CONSTANTS
  Function,       \* functions and catch blocks ("funclets") with tables of their own
  Image,          \* the tables of the image, by displacement (0: no table)
  Info,           \* the compressed function information of each function
  Start,          \* where each function starts in the image
  Ips,            \* instructions of a function that matter, relative to its start
  Thrown,         \* types that are thrown: [attributes, catchables]
  MaxFrames, MaxThrows   \* bounds: functions on the stack besides catch blocks, throws

VARIABLES
  ehFrames,   \* the stack, oldest first
  ehRecords,  \* the EHExceptionRecord of every throw so far
  ehMode,     \* "run", "search", "dead"
  ehAt,       \* the frame whose handler the search calls next
  ehDestroyed,\* how often the object of each throw was destroyed
  ehVariable  \* what the last catch found in its variable

ehVars == <<ehFrames, ehRecords, ehMode, ehAt, ehDestroyed, ehVariable>>

Zero == 0        \* dispX = 0: the table does not exist
NullObject == 0  \* the object of "throw;": _CxxThrowException(nullptr, nullptr)
NoType == "none" \* pThrowInfo = nullptr

-----------------------------------------------------------------------------
(* Tables.  A table entry is its header's flags and the numbers that follow.   *)

\* Numbers are 1 to 5 bytes; the low bits of the first one tell how many.
s_negLengthTab == [bits \in 0 .. 15 |-> IF bits = 15 THEN 5 ELSE IF bits = 7 THEN 4
                     ELSE IF bits % 8 = 3 THEN 3 ELSE IF bits % 4 = 1 THEN 2 ELSE 1]

\* ReadUnsigned: the value and the place after it.  The four bytes that end
\* with the number are read as one and shifted right, which drops whatever
\* precedes the number.
ReadUnsigned(buffer, at) ==
  LET length == s_negLengthTab[buffer[at] % 16]
      byte(i) == IF i \in DOMAIN buffer THEN buffer[i] ELSE 0
      value == FoldFunctionOnSet(+, 0,
                 [i \in 0 .. length - 1 |-> byte(at + i) * (256 ^ i)], 0 .. length - 1)
  IN [value |-> IF length = 5 THEN FoldFunctionOnSet(+, 0,
                  [i \in 0 .. 3 |-> byte(at + 1 + i) * (256 ^ i)], 0 .. 3)
                ELSE value \div (2 ^ length),
      next |-> at + length]

\* The reference: the shortest length that holds the number, its mark in the low
\* bits of the first byte; what stands before and after does not matter.
UnsignedExact(value, before, after) ==
  LET length == Min({n \in 1 .. 4 : value < 2 ^ (7 * n)} \cup {5})
      marked == IF length = 5 THEN value ELSE (value * 2 ^ length) + 2 ^ (length - 1) - 1
      bytes == [i \in 1 .. Min({length, 4}) |-> (marked \div 256 ^ (i - 1)) % 256]
      buffer == <<before>> \o (IF length = 5 THEN <<15>> ELSE <<>>) \o bytes \o <<after>>
  IN ReadUnsigned(buffer, 2) = [value |-> value, next |-> 2 + length]

Has(entry, flag) == IF flag \in entry.flags THEN 1 ELSE 0
Field(entry, flag, n) == IF flag \in entry.flags THEN entry.fields[n] ELSE 0

\* DecompFuncInfo: fields that the header does not announce are absent, not 0.
DecompFuncInfo(f) ==
  LET entry == Info[f]
      bbt == 1
      unwind == bbt + Has(entry, "BBT")
      try == unwind + Has(entry, "UnwindMap")
      states == try + Has(entry, "TryBlockMap")
      segments == Image[entry.fields[states]]
      mine == {i \in DOMAIN segments : segments[i].rva = Start[f]}
  IN [isCatch |-> "isCatch" \in entry.flags,
      bbtFlags |-> Field(entry, "BBT", bbt),
      dispUnwindMap |-> Field(entry, "UnwindMap", unwind),
      dispTryBlockMap |-> Field(entry, "TryBlockMap", try),
      dispIPtoStateMap |-> IF "isSeparated" \notin entry.flags THEN entry.fields[states]
                           ELSE IF mine = {} THEN Zero ELSE segments[Min(mine)].table,
      dispFrame |-> Field(entry, "isCatch", states + 1)]

\* DecompHandler: one catch clause of a try block.
DecompHandler(f, entry) ==
  LET type == 1 + Has(entry, "adjectives")
      object == type + Has(entry, "dispType")
      code == object + Has(entry, "dispCatchObj")
      addresses == IF "two" \in entry.flags THEN 2 ELSE Has(entry, "one")
  IN [adjectives |-> IF "adjectives" \in entry.flags THEN entry.fields[1] ELSE {},
      dispType |-> Field(entry, "dispType", type),
      dispCatchObj |-> Field(entry, "dispCatchObj", object),
      dispOfHandler |-> entry.fields[code],
      continuationAddress |->
        [i \in 0 .. 1 |-> IF i < addresses THEN Start[f] + entry.fields[code + 1 + i] ELSE 0]]

TryBlocks(info) == IF info.dispTryBlockMap = Zero THEN <<>> ELSE Image[info.dispTryBlockMap]
Handlers(f, block) ==
  IF block.dispHandlerArray = Zero THEN <<>>
  ELSE LET map == Image[block.dispHandlerArray]
       IN [i \in DOMAIN map |-> DecompHandler(f, map[i])]

\* The state of an instruction: that of the last entry that starts at or
\* before it.  Entries hold the distance to the one before.
StateFromIp(info, ip) ==
  LET map == IF info.dispIPtoStateMap = Zero THEN <<>> ELSE Image[info.dispIPtoStateMap]
      begin(i) == FoldFunctionOnSet(+, 0, [j \in 1 .. i |-> map[j].delta], 1 .. i)
      later == {i \in DOMAIN map : ip < begin(i)}
      last == IF later = {} THEN Len(map) ELSE Min(later) - 1
  IN IF last = 0 THEN -1 ELSE map[last].state - 1

\* What the compiler leaves: the entries of tables are numbered from 1, a clause
\* names a catch block, and a function with try blocks has a map of its own.
ASSUME TablesAssumption ==
  /\ \A d \in DOMAIN Image : DOMAIN Image[d] \subseteq Nat \ {0}
  /\ \A f \in Function :
       LET map == DecompFuncInfo(f).dispTryBlockMap
           blocks == TryBlocks(DecompFuncInfo(f))
       IN /\ map \in (DOMAIN Image) \cup {Zero}
          /\ \A g \in Function : DecompFuncInfo(g).dispTryBlockMap = map /\ map # Zero => g = f
          /\ \A b \in DOMAIN blocks :
               /\ blocks[b].dispHandlerArray \in (DOMAIN Image) \cup {Zero}
               /\ \A h \in DOMAIN Handlers(f, blocks[b]) :
                    LET handler == Handlers(f, blocks[b])[h]
                    IN /\ handler.dispOfHandler \in Function
                       /\ "isCatch" \in Info[handler.dispOfHandler].flags
                       /\ handler.continuationAddress \in [0 .. 1 -> Int]
  /\ Start \in [Function -> Int] /\ \A f \in Function : Ips[f] \subseteq Int
  /\ NoType \notin DOMAIN Thrown
  /\ \A type \in DOMAIN Thrown : DOMAIN Thrown[type].catchables \subseteq Nat \ {0}

-----------------------------------------------------------------------------
(* Types and the object a catch sees.                                          *)

TypeMatch(handler, catchable, attributes) ==
  \/ handler.dispType = Zero
  \/ "BadAllocCompat" \in handler.adjectives /\ "IsStdBadAlloc" \in catchable.properties
  \/ /\ handler.dispType = catchable.type
     /\ "ByReferenceOnly" \in catchable.properties => "Reference" \in handler.adjectives
     /\ attributes \intersect {"Const", "Unaligned", "Volatile"} \subseteq handler.adjectives

\* How the variable is filled, and from which part of the object (AdjustPointer).
BuildCatchObjectHelperInternal(handler, catchable) ==
  LET simple == "IsSimpleType" \in catchable.properties
      adjusted(how) == [how |-> how, at |-> catchable.mdisp]
  IN CASE "Reference" \in handler.adjectives -> adjusted("reference")
       [] "Reference" \notin handler.adjectives /\ simple ->
            IF "pointer" \in catchable.properties THEN adjusted("bytes") ELSE [how |-> "bytes", at |-> 0]
       [] "Reference" \notin handler.adjectives /\ ~simple ->
            adjusted(CASE catchable.copyFunction = "none" -> "bytes"
                       [] "HasVirtualBase" \in catchable.properties -> "copiedBase"
                       [] OTHER -> "copied")
\* What is put into the catch variable, if there is one.
BuildCatchObject(handler, catchable) ==
  IF handler.dispType = Zero \/ handler.dispCatchObj = Zero THEN [how |-> "nothing", at |-> 0]
  ELSE BuildCatchObjectHelperInternal(handler, catchable)

-----------------------------------------------------------------------------
(* The stack.  A "cxx" frame is a function or a catch block; a "call" frame is *)
(* CxxCallCatchBlock, between the function that catches and its catch block.   *)

CxxFrame(f, ip) == [kind |-> "cxx", fn |-> f, ip |-> ip, record |-> 0, destruct |-> FALSE,
                    cont |-> [i \in 0 .. 1 |-> 0]]
CallCatchFrame(f, record, cont) ==
  [kind |-> "call", fn |-> f, ip |-> 0, record |-> record, destruct |-> TRUE, cont |-> cont]

Top == Last(ehFrames)
Current == Len(ehRecords)      \* the throw the search is for

EHInit ==
  /\ ehFrames = <<>>
  /\ ehRecords = <<>> /\ ehDestroyed = <<>>
  /\ ehMode = "run" /\ ehAt = 0
  /\ ehVariable = [how |-> "nothing", at |-> 0]

\* A function is called, goes on to another instruction, returns.
CallFunction(f) ==
  /\ ehMode = "run" /\ "isCatch" \notin Info[f].flags
  /\ Cardinality({i \in DOMAIN ehFrames : ehFrames[i].kind = "cxx" /\ "isCatch" \notin Info[ehFrames[i].fn].flags})
     < MaxFrames
  /\ ehFrames' = Append(ehFrames, CxxFrame(f, 0))
  /\ UNCHANGED <<ehRecords, ehMode, ehAt, ehDestroyed, ehVariable>>

GoOn(ip) ==
  /\ ehMode = "run" /\ ehFrames # <<>> /\ ip > Top.ip /\ ip \in Ips[Top.fn]
  /\ ehFrames' = [ehFrames EXCEPT ![Len(ehFrames)].ip = ip]
  /\ UNCHANGED <<ehRecords, ehMode, ehAt, ehDestroyed, ehVariable>>

Return ==
  /\ ehMode = "run" /\ ehFrames # <<>> /\ "isCatch" \notin Info[Top.fn].flags
  /\ ehFrames' = Front(ehFrames)
  /\ UNCHANGED <<ehRecords, ehMode, ehAt, ehDestroyed, ehVariable>>

\* _CxxThrowException: nothing is to be skipped yet.  A "pure" type has no
\* image the handler can read: an access violation, which no catch takes.
_CxxThrowException(object, type) ==
  /\ ehMode = "run" /\ ehFrames # <<>> /\ Len(ehRecords) < MaxThrows
  /\ ehRecords' = Append(ehRecords, [object |-> object, type |-> type,
                                     tryDisplacement |-> 0, tryBlock |-> 0])
  /\ ehDestroyed' = Append(ehDestroyed, 0)
  /\ ehAt' = Len(ehFrames)
  /\ ehMode' = IF type # NoType /\ "Pure" \in Thrown[type].attributes THEN "dead" ELSE "search"
  /\ UNCHANGED <<ehFrames, ehVariable>>

Throw(type) == _CxxThrowException(Len(ehRecords) + 1, type)
\* "throw;" in a catch block.
Rethrow == /\ \E i \in DOMAIN ehFrames : ehFrames[i].kind = "call"
           /\ _CxxThrowException(NullObject, NoType)

\* DestructExceptionObject: nothing for the null object of a rethrow.
DestructExceptionObject(record) ==
  IF ehRecords[record].type = NoType THEN ehDestroyed
  ELSE [ehDestroyed EXCEPT ![ehRecords[record].object] = @ + 1]

-----------------------------------------------------------------------------
(* The search.  The language handler of the frame ehAt is called.              *)

\* The try blocks InternalCxxFrameHandler looks into, by their place in the map.
\* It skips those up to the block the record names, in any frame with that map.
Searched(frame, record) ==
  LET info == DecompFuncInfo(frame.fn)
      blocks == TryBlocks(info)
      state == StateFromIp(info, frame.ip)
  IN {b \in DOMAIN blocks :
        /\ blocks[b].tryLow <= state /\ state <= blocks[b].tryHigh
        /\ ~(info.dispTryBlockMap = record.tryDisplacement /\ b <= record.tryBlock)}

\* The catch clauses of block b that fit the type: <<clause, catchable>>.
Fits(f, b, type) ==
  LET handlers == Handlers(f, TryBlocks(DecompFuncInfo(f))[b])
      catchables == Thrown[type].catchables
  IN {hc \in (DOMAIN handlers) \X (DOMAIN catchables) :
        TypeMatch(handlers[hc[1]], catchables[hc[2]], Thrown[type].attributes)}

First(fits) == CHOOSE hc \in fits : \A other \in fits :
                 hc[1] < other[1] \/ (hc[1] = other[1] /\ hc[2] <= other[2])

CxxFrameAt == ehMode = "search" /\ ehAt > 0 /\ ehFrames[ehAt].kind = "cxx"

Catching(frame, record) ==
  IF record.type = NoType THEN {}
  ELSE {b \in Searched(frame, record) : Fits(frame.fn, b, record.type) # {}}

\* No clause fits: ExceptionContinueSearch.
PassFrame ==
  /\ CxxFrameAt
  /\ LET frame == ehFrames[ehAt]
         record == ehRecords[Current]
     IN /\ Catching(frame, record) = {}
        /\ record.type = NoType =>
             \A b \in Searched(frame, record) :
               Handlers(frame.fn, TryBlocks(DecompFuncInfo(frame.fn))[b]) = <<>>
  /\ ehAt' = ehAt - 1
  /\ UNCHANGED <<ehFrames, ehRecords, ehMode, ehDestroyed, ehVariable>>

\* The handler reads the types of a rethrow, which has none.
ReadNoType ==
  /\ CxxFrameAt /\ ehRecords[Current].type = NoType
  /\ \E b \in Searched(ehFrames[ehAt], ehRecords[Current]) :
       Handlers(ehFrames[ehAt].fn,
                TryBlocks(DecompFuncInfo(ehFrames[ehAt].fn))[b]) # <<>>
  /\ ehMode' = "dead"
  /\ UNCHANGED <<ehFrames, ehRecords, ehAt, ehDestroyed, ehVariable>>

\* Catch: the record remembers the block, the frames above are dropped
\* (UnwindNestedFrames; the destructors of their locals are not run: the unwind
\* map's place is read and never used) and the catch block starts.
Catch ==
  /\ CxxFrameAt
  /\ LET frame == ehFrames[ehAt]
         record == ehRecords[Current]
         blocks == Catching(frame, record)
         b == Min(blocks)
         info == DecompFuncInfo(frame.fn)
         fit == First(Fits(frame.fn, b, record.type))
         handler == Handlers(frame.fn, TryBlocks(info)[b])[fit[1]]
     IN /\ blocks # {}
        /\ ehRecords' = [ehRecords EXCEPT ![Current].tryDisplacement = info.dispTryBlockMap,
                                          ![Current].tryBlock = b]
        /\ ehVariable' = BuildCatchObject(handler, Thrown[record.type].catchables[fit[2]])
        /\ ehFrames' = SubSeq(ehFrames, 1, ehAt)
                       \o <<CallCatchFrame(frame.fn, Current, handler.continuationAddress),
                            CxxFrame(handler.dispOfHandler, 0)>>
        /\ ehMode' = "run" /\ ehAt' = 0
        /\ UNCHANGED ehDestroyed

\* Mutants: the new exception forgets what the old one had to skip; the caught
\* object stays.
ExFilterRethrow_Forgets ==
  /\ ehMode = "search" /\ ehAt > 0 /\ ehFrames[ehAt].kind = "call"
  /\ LET old == ehFrames[ehAt].record
     IN ehDestroyed' = IF ehRecords[Current].object # ehRecords[old].object
                       THEN DestructExceptionObject(old) ELSE ehDestroyed
  /\ ehFrames' = [ehFrames EXCEPT ![ehAt].destruct = FALSE]
  /\ ehAt' = ehAt - 1
  /\ UNCHANGED <<ehRecords, ehMode, ehVariable>>

ExFilterRethrow_Leaks ==
  /\ ehMode = "search" /\ ehAt > 0 /\ ehFrames[ehAt].kind = "call"
  /\ LET old == ehFrames[ehAt].record
     IN ehRecords' = [ehRecords EXCEPT
          ![Current].tryDisplacement = ehRecords[old].tryDisplacement,
          ![Current].tryBlock = ehRecords[old].tryBlock]
  /\ ehFrames' = [ehFrames EXCEPT ![ehAt].destruct = FALSE]
  /\ ehAt' = ehAt - 1
  /\ UNCHANGED <<ehMode, ehDestroyed, ehVariable>>

\* ExFilterRethrow: an exception leaves a catch block.  The caught object goes,
\* also when the exception is "throw;" and carries no object of its own, and the
\* new exception is to skip what the old one had to.
ExFilterRethrow ==
  /\ ehMode = "search" /\ ehAt > 0 /\ ehFrames[ehAt].kind = "call"
  /\ LET old == ehFrames[ehAt].record
     IN /\ ehDestroyed' = IF ehRecords[Current].object # ehRecords[old].object
                          THEN DestructExceptionObject(old) ELSE ehDestroyed
        /\ ehRecords' = [ehRecords EXCEPT
             ![Current].tryDisplacement = ehRecords[old].tryDisplacement,
             ![Current].tryBlock = ehRecords[old].tryBlock]
  /\ ehFrames' = [ehFrames EXCEPT ![ehAt].destruct = FALSE]
  /\ ehAt' = ehAt - 1
  /\ UNCHANGED <<ehMode, ehVariable>>

\* Nobody catches: the system ends the process.
Unhandled ==
  /\ ehMode = "search" /\ ehAt = 0
  /\ ehMode' = "dead"
  /\ UNCHANGED <<ehFrames, ehRecords, ehAt, ehDestroyed, ehVariable>>

\* CxxCallCatchBlock, after the catch block ended: the caught object goes and
\* the function continues where the clause says, at its address 0 or 1.
CatchReturns(continuationIndex) ==
  /\ ehMode = "run" /\ Len(ehFrames) > 2 /\ "isCatch" \in Info[Top.fn].flags
  /\ LET call == ehFrames[Len(ehFrames) - 1]
         rest == SubSeq(ehFrames, 1, Len(ehFrames) - 2)
     IN /\ call.cont[continuationIndex] # 0
        /\ ehDestroyed' = IF call.destruct THEN DestructExceptionObject(call.record)
                          ELSE ehDestroyed
        /\ ehFrames' = [rest EXCEPT ![Len(rest)].ip =
                          call.cont[continuationIndex] - Start[call.fn]]
  /\ UNCHANGED <<ehRecords, ehMode, ehAt, ehVariable>>

EHNext ==
  \/ \E f \in Function : CallFunction(f)
  \/ \E ip \in UNION {Ips[f] : f \in Function} : GoOn(ip)
  \/ Return
  \/ \E type \in DOMAIN Thrown : Throw(type)
  \/ Rethrow
  \/ PassFrame \/ ReadNoType \/ Catch \/ ExFilterRethrow \/ Unhandled
  \/ \E index \in 0 .. 1 : CatchReturns(index)

EHSpec == EHInit /\ [][EHNext]_ehVars

-----------------------------------------------------------------------------
(* What C++ says of a catch, from the stack alone.                             *)

\* Blocks of frame k that are being left: that of the catch block on top of it
\* and those inside.
Left(k) == IF k < Len(ehFrames) /\ ehFrames[k + 1].kind = "call"
           THEN ehRecords[ehFrames[k + 1].record].tryBlock ELSE 0
Owed(k, type) ==
  LET info == DecompFuncInfo(ehFrames[k].fn)
      state == StateFromIp(info, ehFrames[k].ip)
      blocks == TryBlocks(info)
  IN {b \in DOMAIN blocks : /\ blocks[b].tryLow <= state /\ state <= blocks[b].tryHigh
                            /\ b > Left(k) /\ Fits(ehFrames[k].fn, b, type) # {}}
Recursion == \E i, k \in DOMAIN ehFrames :
               /\ i # k /\ ehFrames[i].fn = ehFrames[k].fn
               /\ ehFrames[i].kind = "cxx" /\ ehFrames[k].kind = "cxx"

FindsNearest ==
  (ehMode = "search" /\ ehMode' # "search" /\ ehRecords[Current].type # NoType /\ ~Recursion)
     => LET type == ehRecords[Current].type
            open(k) == IF ehFrames[k].kind = "cxx" THEN Owed(k, type) ELSE {}
        IN /\ \A k \in DOMAIN ehFrames : k > ehAt => open(k) = {}
           /\ ehMode' = "run" =>
                \E b \in open(ehAt) : b = ehRecords'[Current].tryBlock /\ \A c \in open(ehAt) : b <= c
\* A search that ends has found the innermost try block that encloses the throw
\* and has a catch for the type, and passed over none: in particular not one a
\* catch block inside has just left, nor one of an outer function because of
\* what was caught in between (the two fields of the record are all that is
\* remembered).  It holds while no function is on the stack twice: the record
\* names a map, not a frame, so that a recursive function's outer blocks are
\* skipped with the inner ones.
NearestHandler == [][FindsNearest]_ehVars

\* What "throw;" throws again: the exception of the catch block begun last.
Rethrown(r) ==
  LET calls == {i \in DOMAIN ehFrames : ehFrames[i].kind = "call"}
  IN /\ ehMode = "search" /\ ehRecords[Current].type = NoType
     /\ calls # {} /\ ehFrames[Max(calls)].record = r

\* The object of an exception is destroyed exactly once: when its catch block
\* ends, normally or by another exception, and never while it is in flight or a
\* catch block still has it.  Of the object that "throw;" throws again only the
\* first half holds: it is destroyed at most once, but while it is in flight.
\* The record of "throw;" has no object, the filter takes it for a new exception
\* and destroys the old one (ExceptionHandler.cpp:369-371), which is the one that
\* should go on.
ObjectDestroyedOnce ==
  ehMode # "dead" => \A r \in DOMAIN ehRecords :
    LET held == \/ ehMode = "search" /\ r = Current
                \/ \E i \in DOMAIN ehFrames : /\ ehFrames[i].kind = "call" /\ ehFrames[i].destruct
                                              /\ ehFrames[i].record = r
    IN ehRecords[r].type # NoType =>
         /\ ehDestroyed[r] <= 1
         /\ ~Rethrown(r) => ehDestroyed[r] = IF held THEN 0 ELSE 1
=============================================================================
