----------------------------- MODULE HeapString -----------------------------
(* Memory::string, the owner of a block of the process heap that every result  *)
(* of the libraries is made of (Memory/src/string.cpp), over the allocation    *)
(* functions that stand in for the C runtime's (crt.c, Memory.cpp, optnew.cpp).*)
(* The heap is supposed to have room: nothing here asks whether it had.        *)
EXTENDS Integers, Sequences, FiniteSetsExt

CONSTANTS
  MsNames,     \* variables of type Memory::string
  MsBytes,     \* byte values
  MsMaxLength  \* bound: the longest string

VARIABLES
  msHeap,      \* allocated block -> what it holds
  msString,    \* variable -> [alive, address, length]
  msFault      \* a block was freed or read that is not allocated

msVars == <<msHeap, msString, msFault>>

Null == 0
Unwritten == "unwritten"       \* what a fresh block holds
Dead == [alive |-> FALSE, address |-> Null, length |-> 0]
Owner(address, length) == [alive |-> TRUE, address |-> address, length |-> length]

MsInit ==
  /\ msHeap = <<>>
  /\ msString = [s \in MsNames |-> Dead]
  /\ msFault = FALSE

\* The heap hands out any free block; the numbers say which are the same.
FreshBlock(heap) == Min(1 .. Cardinality(DOMAIN heap) + 1 \ DOMAIN heap)
With(heap, block, bytes) ==
  [b \in DOMAIN heap \cup {block} |-> IF b = block THEN bytes ELSE heap[b]]
Without(heap, block) == [b \in DOMAIN heap \ {block} |-> heap[b]]

\* malloc: no block is empty.
malloc(heap, size) ==
  With(heap, FreshBlock(heap), [i \in 1 .. (IF size = 0 THEN 1 ELSE size) |-> Unwritten])
free(heap, address) == IF address = Null THEN heap ELSE Without(heap, address)
Wrong(heap, address) == address # Null /\ address \notin DOMAIN heap

\* realloc: to nothing it frees and answers null, from nothing it allocates;
\* the block may move or stay.
Moves(heap, address, size) ==
  IF size = 0 THEN {Null}
  ELSE {FreshBlock(heap)} \cup (IF address = Null THEN {} ELSE {address})
realloc(heap, address, size, moved) ==
  IF moved = Null THEN free(heap, address)
  ELSE With(free(heap, address), moved,
            [i \in 1 .. size |-> IF address # Null /\ i <= Len(heap[address])
                                 THEN heap[address][i] ELSE Unwritten])

\* The constructors.
Construct(s, size) ==
  /\ ~msString[s].alive
  /\ msHeap' = malloc(msHeap, size)
  /\ msString' = [msString EXCEPT ![s] = Owner(FreshBlock(msHeap), size)]
  /\ UNCHANGED msFault

Contents(s) == SubSeq(msHeap[msString[s].address], 1, msString[s].length)
Copied(s) == LET block == FreshBlock(msHeap)
                 empty == malloc(msHeap, msString[s].length)
             IN IF msString[s].length = 0 THEN empty ELSE [empty EXCEPT ![block] = Contents(s)]

CopyConstruct(s, from) ==
  /\ ~msString[s].alive /\ msString[from].alive
  /\ msHeap' = Copied(from)
  /\ msString' = [msString EXCEPT ![s] = Owner(FreshBlock(msHeap), msString[from].length)]
  /\ UNCHANGED msFault

MoveConstruct(s, from) ==
  /\ ~msString[s].alive /\ msString[from].alive
  /\ msString' = [msString EXCEPT ![s] = msString[from], ![from] = Owner(Null, 0)]
  /\ UNCHANGED <<msHeap, msFault>>

Destruct(s) ==
  /\ msString[s].alive
  /\ msHeap' = free(msHeap, msString[s].address)
  /\ msFault' = (msFault \/ Wrong(msHeap, msString[s].address))
  /\ msString' = [msString EXCEPT ![s] = Dead]

\* Assignment: a copy is made first, then its block is moved in.
CopyAssign(s, from) ==
  /\ msString[s].alive /\ msString[from].alive
  /\ IF s = from THEN UNCHANGED msVars
     ELSE /\ msHeap' = free(Copied(from), msString[s].address)
          /\ msString' = [msString EXCEPT ![s] = Owner(FreshBlock(msHeap), msString[from].length)]
          /\ msFault' = (msFault \/ Wrong(msHeap, msString[s].address))

\* A mutant: the block that the string had is not freed.
MoveAssign_Leaks(s, from) ==
  /\ msString[s].alive /\ msString[from].alive
  /\ IF s = from THEN UNCHANGED msVars
     ELSE /\ msString' = [msString EXCEPT ![s] = msString[from], ![from] = Owner(Null, 0)]
          /\ UNCHANGED <<msHeap, msFault>>
MoveAssign(s, from) ==
  /\ msString[s].alive /\ msString[from].alive
  /\ IF s = from THEN UNCHANGED msVars
     ELSE /\ msHeap' = free(msHeap, msString[s].address)
          /\ msString' = [msString EXCEPT ![s] = msString[from], ![from] = Owner(Null, 0)]
          /\ msFault' = (msFault \/ Wrong(msHeap, msString[s].address))

resize(s, size) ==
  /\ msString[s].alive
  /\ IF msString[s].length = size THEN UNCHANGED msVars
     ELSE \E moved \in Moves(msHeap, msString[s].address, size) :
            /\ msHeap' = realloc(msHeap, msString[s].address, size, moved)
            /\ msString' = [msString EXCEPT ![s] = Owner(moved, size)]
            /\ msFault' = (msFault \/ Wrong(msHeap, msString[s].address))

\* operator[] gives access inside the length and throws beyond it.
Put(s, offset, byte) ==
  /\ msString[s].alive /\ offset < msString[s].length
  /\ msFault' = (msFault \/ Wrong(msHeap, msString[s].address))
  /\ msHeap' = [msHeap EXCEPT ![msString[s].address][offset + 1] = byte]
  /\ UNCHANGED msString

MsNext == \E s \in MsNames :
  \/ \E size \in 0 .. MsMaxLength : Construct(s, size) \/ resize(s, size)
  \/ \E from \in MsNames : \/ CopyConstruct(s, from) \/ MoveConstruct(s, from)
                           \/ CopyAssign(s, from) \/ MoveAssign(s, from)
  \/ Destruct(s)
  \/ \E offset \in 0 .. MsMaxLength - 1, byte \in MsBytes : Put(s, offset, byte)

MsSpec == MsInit /\ [][MsNext]_msVars

-----------------------------------------------------------------------------
\* Whatever is copied, moved, resized and destroyed, in any order and with
\* itself: every block of the heap has exactly one owner, which is alive; a
\* string that is not empty has a block of its length; and no block is freed
\* or used twice.
StringsOwn ==
  /\ ~msFault
  /\ \A b \in DOMAIN msHeap : Cardinality({s \in MsNames : msString[s].address = b}) = 1
  /\ \A s \in MsNames : LET str == msString[s] IN
       /\ str.address # Null => str.alive /\ str.address \in DOMAIN msHeap
       /\ str.length > 0 => str.address # Null /\ Len(msHeap[str.address]) >= str.length
=============================================================================
