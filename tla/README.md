# Miko in TLA+

Miko is a C++ WebSocket library for Windows with its own freestanding runtime:
fifteen sub-projects, each a DLL, from the C runtime (Memory) through sockets
(WSA), streams (Streaming), HTTP and WebSocket (CWS) to a Brotli decoder
(Compression), hashes (Cryptography), JSON, and the build driver that compiles
all of them (compile). The repository has no tests; the modules here are its
specification, model-checked with TLC and, for fourteen components, proved with
TLAPS. The standards the code implements are kept with it
(`CWS/references/RFC6455.txt`, `Compression/RFC7932.txt`,
`Cryptography/references/RFC1321.txt` and `RFC3174.txt`,
`String/references/RFC1738.txt`); properties quote them where they say what a
result must be.

The libraries fall in two groups. The five where several actors, cut streams or
long histories meet (the lock, once-initialisation, WebSocket, digests, Brotli)
and the build driver have a run each. The others are instantiated together by
`MCLibrary`, whose run `library` checks one behaviour of one of them at a time.

## Inventory

Paths are relative to `src/`.

| Part | State it keeps | Operations | What is hard | What makes it correct |
|---|---|---|---|---|
| Concurrency (`ReentrantLock`) | one 64-bit word: owner and count | lock, trylock, unlock, queries | a plain count next to a compare-and-swap, a spin without a queue, the count's wrap, owners that exit | exclusion, an exact count, refusal of non-owners |
| Memory: once-initialisation (`ThreadLocalStorage.c`) | guard words, one critical section, one condition variable | `_Init_thread_header`, `_footer`, `_abort` | races of first callers, throwing initialisers, lost wake-ups | initialised once, used only after, nobody sleeps for ever |
| Memory: the C runtime (`crt.c`, `dllentry.cpp`, `Memory.cpp`, `string.cpp`, `exception.cpp`) | exit table, error registry, buffers | malloc/realloc, atexit/onexit, init and uninit tables, registry, `Memory::string` | handlers registered while handlers run, the registry grown without a lock, moved-from buffers | LIFO exit, dense codes, one owner per buffer |
| Memory: byte orders (`CommonEndian.c`) | none | get and set, big and little endian | 64-bit shifts | set and get are inverse |
| Memory: C++ exceptions (`ExceptionHandler.cpp`, `TryBlockMap*.cpp`, `HandlerMap*.cpp`, ...) | the FH4 unwind state of every frame | search, catch, unwind, rethrow | nested frames, states read back from compressed tables, exceptions thrown while unwinding | the innermost matching handler, every state unwound once |
| WSA (`Socket.cpp`, `Address.cpp`) | the handle, its addresses, its family | socket, bind, listen, connect, accept, read, write, select, shutdown, close | every call may fail half-way; the peer ends or resets; moves | one owner of a handle; fields match the handle |
| Streaming (`fully.cpp`, `format.cpp`, `string.cpp`) | one pushed-back byte; a position | whole reads and writes, words and numbers | partial transfers, the pushed-back byte | no byte lost, doubled or reordered |
| CWS (`WebSocket.cpp`) | opening, buffers, the pending control frame | send, receive, frame, close | threads that send at once, fragments, control frames between them, broken connections | a reliable channel of messages, nothing after CLOSE |
| HTTP (`ConnectionManager.cpp`, `Mesage.cpp`, `URL.cpp`) | headers as an array of pairs | transmit, receive, resolve | framing by Content-Length or close, values that stay from an earlier header | the message received is the message sent |
| JSON (`JSON.cpp`, `object.cpp`) | a tree that owns its children | resolve, stringify, access, copy, move | growth of arrays, escapes, ownership | resolve is the inverse of stringify; no child owned twice |
| compile (`compiler.cpp`) | the list of projects, their `compiled` flags | load, compile, depend, include, report | order, cycles, duplicate and missing names, commands that fail | dependencies first, once each, a truthful report |
| Cryptography: digests (`MessageDigest.cpp`, `CommonMessageDigest.cpp`, `MD*.cpp`, `SHA*.cpp`, `SHAKE.cpp`) | block, position, digest, length | update, finally | calls cut anywhere, the padding at a block's end, stale bytes of the block | what is hashed is the padded message |
| Cryptography: codes and randomness (`BASE64.cpp`, `CRC.cpp`, `RNG.cpp`, `MersenneTwister.cpp`) | tables, generator state | encode, decode, next, random | tails of groups, 64-bit products | inverse pairs; the reference definitions |
| Compression (`Brotli.cpp`, `StaticDictionary.cpp`) | bit reader, prefix codes, context maps, distance ring, output | uncompress | boundaries of repeat codes, ring updates, references before the output's start | RFC 7932 |
| String (`sstring.cpp`, `string.cpp`, `MWORD.cpp`, `URL.cpp`) | buffers | numbers to text and back, search, big numbers, URLs | extreme values, carries, malformed text | inverse pairs; arithmetic |
| Filesystem (`Filesystem.cpp`, `file.cpp`, `foreach.cpp`) | handles | create, make, remove, read, write, list | check-then-create races, leaked handles | one owner of a handle |
| WTM (`thread.cpp`, `process.cpp`) | handles | start, wait, suspend, resume, duplicate | move and close, counts of suspension | one owner of a handle |
| Timestamp | none | current, convert | a failed conversion | - |
| WST, `DllMain` files | none | a demonstration program, loader entry points | - | - |

The DLLs call one another directly: `CWS` sends through `Streaming::fully`,
which repeats the partial transfers of `WSA::Socket`; every function-local
static of every DLL goes through Memory's once-initialisation; every error is a
C++ exception thrown through Memory's handlers. There are no callbacks but the
digest's block function and the exit handlers, and no thread of the library's
own: concurrency is that of the callers.

## Modules

| Module | Models | Kind |
|---|---|---|
| `ReentrantMutex` | what a reentrant lock promises | abstract specification |
| `ReentrantLock` | `Concurrency/src/ReentrantLock.cpp` | component, refines `ReentrantMutex` |
| `ReentrantLockProofs` | | 7 theorems |
| `OnceInit` | `Memory/src/ThreadLocalStorage.c`, and the code the compiler emits around it | component |
| `MemoryProofs` | | 9 theorems: 4 about `OnceInit`, 2 about `Runtime`, 3 about `FrameHandler` |
| `BuildDriver` | `compile/src/compiler.cpp` | component |
| `BuildDriverProofs` | | 3 theorems |
| `MessageChannel` | what a connection promises two applications | abstract specification |
| `WebSocketFrame` | the bytes of a frame (`CWS/src/WebSocket.cpp`) | operators |
| `WebSocket` | `CWS/src/WebSocket.cpp` over `Streaming/src/fully.cpp` and `WSA/src/Socket.cpp` | composition, refines `MessageChannel` |
| `DataLemmas` | | lemmas: induction and recursion on numbers, sequences, numbers taken apart into bytes |
| `WebSocketProofs` | | 8 theorems about `WebSocket`, 2 about `Http` |
| `Endian` | `Memory/src/CommonEndian.c` | operators |
| `MessageDigest` | `Cryptography/src/MessageDigest.cpp`, its subclasses and the sponges | component |
| `MessageDigestProofs` | | 5 theorems |
| `PrefixCode` | `DecodeHuffman`, `CreateHuffman` (`Compression/src/Brotli.cpp`) | component |
| `StaticDictionary` | `Compression/src/StaticDictionary.cpp` | operators |
| `SlidingWindow` | what a Brotli stream tells a decoder to do | abstract specification |
| `BrotliCodes` | the tables and formats of `Compression/src/Brotli.cpp` | operators |
| `Brotli` | the rest of `Compression/src/Brotli.cpp`, over `StaticDictionary` | component, refines `SlidingWindow` |
| `BrotliProofs` | | 5 theorems about `Brotli`, 3 about `PrefixCode` |
| `FrameHandler` | `Memory/src/ExceptionHandler.cpp`, `HandlerMap*.cpp`, `TryBlockMap*.cpp` | component |
| `Runtime` | `Memory/src/crt.c`, `dllentry.cpp`, `exception.cpp` | component |
| `HeapString` | `Memory/src/string.cpp` over `crt.c`, `Memory.cpp` | component |
| `Sockets` | `WSA/src/Socket.cpp`, `Address.cpp`, `SocketAddress.cpp` | component |
| `Http` | `HTTP/src/ConnectionManager.cpp`, `Mesage.cpp`, `HTTP.cpp` over `Streaming/src/format.cpp`, `fully.cpp` | composition |
| `JsonTree` | `JSON/src/object.cpp` | component |
| `JsonText` | `JSON/src/JSON.cpp` | operators |
| `Files` | `Filesystem/src/Filesystem.cpp` | component |
| `Handles` | `WTM/src/thread.cpp`, `process.cpp`, `Filesystem/src/file.cpp`, `foreach.cpp` | component |
| `LibraryProofs` | | 13 theorems about `Sockets`, `HeapString`, `Handles`, `Files` and `JsonTree` |
| `Numbers` | `String/src/sstring.cpp` | operators |
| `MachineWord` | `String/src/MWORD.cpp` | operators |
| `Texts` | `String/src/string.cpp`, `Hexadecimal.cpp`, the `URL.cpp` of String, HTTP and CWS, `Memory/src/typeinfod.cpp` | operators |
| `Polynomials` | words as sets of the places of their ones | operators |
| `Codes` | `Cryptography/src/BASE64.cpp`, `CRC.cpp`, `MersenneTwister.cpp`, `RNG.cpp` | operators |
| `Keccak` | `Cryptography/src/SPONGE.cpp`, `NibbleReader.cpp`, the permutation of `SHA3.cpp` | operators |
| `Hashes` | the block functions of `MD4`, `MD5`, `SHA1`, `SHA256`, `SHA512.cpp`, with `SHAC.c` and `rotate.c` | operators |
| `MCLibrary` | | the instances of the run `library` |
| other `MC*` | | constants for TLC |

### ReentrantLock

The state is the word (`exclusive`, a pair of halves), and per thread its place
in the code and what it has loaded (`reg`). Every access to the word is an
action: `Swap` is the compare-and-swap, `LoadAdd`/`StoreAdd` and
`LoadSub`/`StoreSub` are the two halves of the plain `+=` and `-=`, `Test` and
`Reset` the comparison with zero and the store that follows. `Belong` and `Mine`
are the owner tests of unlock and of the count query. `Exit` and `Reuse` are the
system's: a thread ends, perhaps as owner, and its identifier is given again.

### OnceInit

A client with several statics and any number of threads. `Test`, `Recheck` and
`Abort` are the compiler's; `Enter`, `Loop`, `Leave` are `_Init_thread_header`;
`Settle`, `Store`, `SettleLeave`, `Wake` are `_footer` and `_abort`, which differ
only in the value stored. A sleeper leaves the condition variable when it is
broadcast or, within `MaxFaults`, for no reason.

### BuildDriver

The recursion of the constructor and of `compile()`/`depend()` is an explicit
stack of frames; `list` is `ProjectList`, new projects at its head. `Resource`
and `Command` run rc.exe and cl.exe and may fail. A cycle of dependencies
exhausts the stack (`Crash`), and so would the null pointer that `include()` does
not test for; `IncludeFinds` says it never meets one.

### WebSocket

One direction of a connection. `Begin` is the head of `frame(const Message &)`,
with its test of `alive()`; `SendMask` and `SendPayload` are its later writes,
`Write` one turn of `fully::write`. `Read` is one turn of `fully::read`;
`GotHead`, `GotSize`, `GotWide`, `GotKey`, `GotPayload` are the parts of `frame()`
and `receive()`. The library takes no lock around the frames of a message, so the
senders hold one (`Lock`, `Unlock`: external). The connection may break, be
reset, or be closed by another thread before any byte.

### MessageDigest

`Update` and `Copy` are the call and one turn of the loop of `update()`;
`Finally` takes the copies; `Appendix` is `appendix()` with the `computation()`
after it; `Pad101`, `Squeeze` and `Squeezed` are `SHA3::finally` and
`SHAKE::finally`. The hash of a block stands for itself: a digest is the sequence
of the bytes hashed so far, so that what is hashed can be compared with what the
standards say should be. A block that was never written holds `Garbage`. A sponge
absorbs the whole 200-byte block; its last bytes, the capacity, are cleared by
the constructor and written by nobody, so the model's block ends before them.

### PrefixCode, StaticDictionary, Brotli

A decoder reads bits that may be anything, so every read is a choice.
`PrefixCode` is one call of `DecodeHuffman`: `Simple` is the whole simple
branch; `Complex`, `SymbolLength` and `KindsRead` read the code of the code
lengths and check its space; `Literal` and `Repeat` are the two branches of the
loop over code lengths, with the run that consecutive repeat tokens build;
`Built` is the call of `CreateHuffman` at the end. A tree is the function from
its paths to its symbols, `space` the 32-bit number that may wrap below zero.
Its own names carry `Pc`, so that the proofs can have it beside `Brotli`.

`Brotli` is the decoder over the symbols such codes return. `LastEmpty`,
`Metadata`, `Begin` and `Raw` are `DecodeMetaBlock`; `Types` is the head of
`DecodeCompressedMetaBlock`, which supports one block type of each kind and
raises an error for more; `Trees`, `MapCode`, `MapRead` and `Mapped` are the two
calls of `DecodeContextMap` with the inverse move-to-front; `Command`, `Insert`,
`Inserted`, `Copy`, `BadDistance` and `EndBlock` are the loop. `distance` is the
ring of the last four distances, which lives across meta-blocks, as does `blen`,
which each compressed block resets. Copies are byte by byte, forwards, as the
normal build's `memcpy` (`rep movsb` in `Memory/src/intrinsic.c`) makes them; the
CMake build takes the compiler's, for which an overlapping copy is undefined.
The decoder writes into a buffer of the announced length without comparing a copy
or a word with the room that is left, and takes what a simple prefix code names
for a symbol even when it is outside of its alphabet (`SymbolsRead`,
`StrayCommands`, `Stray`). Only a literal is stopped at the buffer's end, by
`Memory::string::operator[]`. The model's streams are any symbols, copies
and words, wherever they end. `valid` remembers that the stream has turned
out to be one that RFC 7932 has rejected, `size` is the buffer and `output` the
`length` bytes the decoder believes written, of which `Resized` keeps those in the
buffer. `StreamEnds` is the end of the stream at any place. What else a write
beyond the buffer damages is not modelled.

### FrameHandler

The stack is a sequence of frames (`ehFrames`): C++ functions at an instruction,
catch blocks, and the calls of `CxxCallCatchBlock` below them. `ehRecords` are
the exception records with the two fields the search writes
(`tryDisplacement`, `tryBlock`); `ehMode` is `run` or `search`, `ehAt` the frame
whose handler is asked. A throw, `throw;`, a call, a return and a foreign
exception are the program's actions; one call of the language handler is one
step. The tables are data of the image: `Function`, `Image` and `Info` give the
instance three functions with nested blocks, a function in two segments and one
catch block with a try block of its own; `ReadUnsigned` decodes their
compressed numbers. The flag `contIsRVA` is read by nobody: `HandlerMap.cpp:54-65`
goes by the function's `isSeparated` where `ExceptionHandler.h:86` declares the
flag. What the record remembers names a map and a block of it, not a frame, so
that in a recursive function the search passes over blocks of the outer call;
`NearestHandler` is stated for stacks in which no function occurs twice. The
record of `throw;` carries no object, so that `ExFilterRethrow` takes it for
another exception and destroys the old object, the one that goes on
(`ExceptionHandler.cpp:369-371`). The model does so too, and `ObjectDestroyedOnce`
claims for that object (`Rethrown`) only that it is destroyed at most once.

### Runtime, HeapString

`Runtime` walks the initialisers (`CRTINIT`, `scrt_init`), some of which call
`atexit()` or the registry (`Atexit`, `Registry`). Then threads run: `AtexitNode`
makes a node that points to the head of the list and `AtexitFirst` makes it the
head, so that two threads may overlap, and `MessageOf` looks an error up. `Detach`,
`RunHandler` and `Gone` are the end of the process with the loop of `onexit()`.
`HeapString` has one action for each constructor, assignment, `resize`, write and
destructor, over a heap of blocks that has room for every one: `string` never asks
whether it got a block (`string.cpp:6`, `:56`), and what it would do without one is
an access to address 0, not a state of this model.

### Sockets

`skObject` are the objects' fields, `skKernel` the system's sockets. Each call of
the system may fail where it may; what the object has stored by then stays, which
is what `Opened`, `Bind` and `Connect` are about. `skMixed` names the objects whose
last call failed half-way: their addresses are those that were tried.
A socket counts as closed once it was given to `closesocket`, even if that fails
(`Socket.cpp:327-334`). `IPV4()` compares in a chain (`Address.cpp:94`), so most
addresses with the sixth word 0xFFFF pass for mapped ones; `AddressExact` says
nothing of those.

### Http

Two ends of one connection and a wire of tokens. `Transmit` writes a message, and
`Deliver` lets any number of its tokens arrive; `Receive` is `receive()` of a
message whose parts are there, with `ReadWord` for `format`'s words and its
pushed-back byte; a body that ends with the connection is what happens to have
arrived by then. `CloseEnd` ends the transmitter's side. Of the buffer for a
server's version eight bytes of eleven are set, and it is written up to the first
zero: what the stack held there (`stray`) goes out with the first line
(`StatusWords`). `ReadFirst` looks for the status at a fixed place, and stores the
reason in 64 bytes without a bound; a longer one (`ReasonRoom`) ends the model's
connection as a fault. The table of methods has a ninth entry without a name
(`RM_TYPE_COUNT` is 9, `HTTP.cpp:4`), which the instance's messages include.
`Regular` names the messages whose parts the protocol can tell apart, those with
stray bytes not among them, `Framed` those that say where they end, and `Arriving`
is what a header becomes on the way: `ConnectionManager.cpp:119` gives a line
without a colon the value that the buffer holds.

### JsonTree, JsonText

`JsonTree` is a heap of objects. A statement reaches a member by a path of
`operator[]`, which creates what is missing, and assigns a value, a copy or
another object. Statements that move between objects of one tree, or assign an
object its own string, are remembered (`jtAliased`): `cleanup()` then frees what is
read next. `JsonText` has two levels, documents of tokens and string literals of
classes of characters; a string of a document is a token that stands for its text
(`TextOf`), and its literal is followed by whatever the rest of its buffer holds
(`StringTokens`), because `stringify` answers with the capacity as the length. A
negative integer is read back as a double. Nothing is claimed of values with an
escaped string, with a double that is written with an exponent, and of the bytes
of 0x80 and more (`Unsaid`, `EscapesExact`).

### Files, Handles

`Files` runs `create()`, `make()` and `remove()` of two actors over one tree, one
system call per step; `fsRaced` marks the calls another actor's change came into.
The system's calls fail there only for what is or is not on the path.
`Handles` has the operations of four kinds of owners (threads, processes, files,
searches of a directory) over one table of handles,
with threads that end, are waited for, suspended and resumed. A search
(`foreach`) declares a destructor and nothing else, so that the compiler's copy
and assignment share its handle (`CopySearch`, `AssignSearch`): `haShared` names
those handles, and one that is closed again is in the state "twice".

### Numbers, MachineWord, Texts

Widths are parameters (64, 52 and 11 bits in the source), so that every number of
a small format is tried. Two facts the properties name: a power of two whose text
is just below it is read with the carry in the fraction's highest bit, and a text
with a fixed number of digits is refused below 0.1. `Texts` states the grammar of
each URL class, as RFC 6455 and RFC 1738 have it. CWS tests the two slashes with
`&&`, so that one passes, and a secure address without a port leaves the port that
the object had: nothing is claimed of these two (see Findings).

### Codes, Polynomials, Keccak, Hashes

A word is the set of the places of its ones; a shift moves them, `^` is the
symmetric difference. The checks are compared with long division, `random(max)`
with the product it is said to be, the twister with its recurrence, BASE64 with
RFC 2045, Keccak-f with FIPS 202 step by step, and digests with the answers that
RFC 1320, 1321, 3174 and FIPS 180-4 publish: one and two blocks of each. BASE64
accepts last characters whose spare bits are not zero, and looks for each of two
`=` by itself. A generator that was not seeded returns zeros for ever
(`MersenneTwister.h:30`). Rotations shift a machine word by 64 where `n % w` is
zero and for the mask of width 64 (`rotate.c:3`); the model takes what the target's
shifts do, which is to take the count modulo 64.

## Runs

| Run | Instance | Shows |
|---|---|---|
| `lock` | 3 threads, depth 2, counts modulo 3 | the exact count, refusals, refinement of `ReentrantMutex`; a free lock is taken |
| `lock_abandoned` | the same, threads may exit as owner | an orphaned lock stays shut until its identifier returns |
| `once` | 3 threads, 2 statics, 2 faults | one initialiser, nobody passes early, no lost wake-up; every call returns |
| `build` | every graph of 3 projects and a missing name, and this repository's | `DriverInv`: dependencies first, once each; `CyclesAloneFail`: no null, no crash but by a cycle, nothing in a cycle compiled; a truthful report; the driver ends; an assumption of `MCBuildDriver` says that this repository's own graph has no cycle and no unknown name |
| `build_resource` | one project with two resource scripts | a **violation**: see below |
| `websocket` | 2 threads, 3 scripts, segments of 1, 4 and 60 bytes | frame boundaries, nothing after CLOSE, refinement of `MessageChannel`; all arrives, ends are noticed |
| `websocket_ping` | a ping between two fragments | a **violation**: see below |
| `digest` | 6 digests with their real sizes, messages of up to 168 bytes cut into calls of 0, 7, 55 and 64 | the padding of the standards, SHAKE's output in order |
| `prefix_code` | 13 symbols, codes of up to 3 bits, 3 literal lengths per code | `CodeInv`: the space left and the canonical code; runs of repeats |
| `prefix_simple` | simple codes of 4 symbols | a **violation**: see below |
| `brotli` | 4 announced bytes of 2 values, a window of 2, distances up to 12, maps of 3 entries, any symbols | `StreamInv`: sizes and counts, the distance ring, maps in range; refinement of `SlidingWindow` while the stream is valid |
| `library` | one component at a time, in the instances of `MCLibrary` | see the next table |

| Property of `library` | Component | Instance |
|---|---|---|
| `NearestHandler`, `ObjectDestroyedOnce` | `FrameHandler` | 3 functions with 4 try blocks, 2 of them on the stack besides catch blocks, 3 throws of 3 kinds |
| `ExitOrder` | `Runtime` | 5 initialisers, 2 threads, 6 nodes |
| `StringsOwn` | `HeapString` | 3 strings of up to 2 bytes |
| `TreesOwned`, `ReadonlyKept` | `JsonTree` | 2 variables, 3 nodes, paths of one and two steps |
| `HandlesOwned`, `PeerRecorded` | `Sockets` | 2 objects, 2 peers, 2 system sockets |
| `MessagesArrive` | `Http` | 11 messages, two in a row |
| `TrueIsMine`, `CallsAlone` | `Files` | 2 actors, a path and one below it, 4 calls |
| `ClosedOnce` | `Handles` | 2 threads, 2 searches, 2 files, a process; 3 handles |
| `NumbersExact` | `Numbers`, `MachineWord`, `FrameHandler`'s numbers | every double of 9 bits, every QWORD of 8, pairs up to 40 in digits of 2 bits |
| `CodesExact` | `Codes`, `Keccak`, `Hashes`, `BrotliCodes` | texts of up to 4 characters, checks of up to 16 bits over 3 bytes, a twister of 4 words of 6 bits, Keccak with lanes of 4 bits, 14 published digests, Brotli's lengths and its distances up to 200 in 64 formats |
| `TextsExact` | `Texts`, `Sockets`' addresses | URLs of 5 schemes and 5 characters, pairs of texts, addresses of 3 kinds of words |
| `JsonExact` | `JsonText` | documents of 5 tokens, literals of 4 characters, values 3 deep with stray bytes or blanks behind an escaped literal |

Why the bounds are enough. *Lock*: three threads give a holder, a waiter and one
that interferes; depth 2 has an inner and an outer release, and a modulus of 3 is
the smallest that tells a count from its wrap. *Once*: three threads are a winner, a
sleeper and one that arrives late; two statics share the one condition variable, so
a wake-up for one reaches sleepers of the other. *Build*: three projects under a
root have every shape of dependency that matters (chain, diamond, cycle of one, two
and three); larger graphs repeat them, and the graph the driver really meets is
checked as it is. *WebSocket*: a message in two fragments, one that interrupts, a
CLOSE, and one of 126 bytes, the first that needs a longer length; segments of one
byte put a break at every byte. *Digest*: 55 and 64 leave one byte and none for the
mark, 7 moves the cuts, and 168 is a whole block of the widest sponge; 2693 bits are
three blocks of output and a last byte of five bits. *Prefix codes*: 13 symbols hold
a run of two repeat tokens of 16 and, of 17, one with its 10 and the first that pass
the alphabet; three bits give codes of all shapes, over- and undersubscribed.
*Brotli*: four bytes hold an insertion, a copy and another insertion, over two
meta-blocks or four, the second of which would run out of counts that were not
reset; a command's lengths and a copy's end may be up to four bytes beyond them; the
window is shorter than the output, so the limit is met from both sides; 12 distances
are past the last direct code and the first extra-bit codes. The tables of lengths
are the real ones; the dictionary has two words of four letters, one of each greater
length, and one transform of each kind that the decoder tells apart. *Library*: two
objects (or threads, or actors) are what a copy, a move or a race needs, and a third
handle, node or call what a leak or a double use would show in; exceptions go
through two calls because the search passes from one frame to the next, and three
throws give one in flight while another is caught and a third that leaves its catch
block. Formats of 8 and 9 bits have subnormals, both infinities, carries into the
exponent and powers of two with a nearer lower neighbour. Eleven messages hold each
framing (a length, the end of the connection, neither), the headers the parser could
take for something else, the tables' ends, and stray bytes with and without an end
of line; room for four characters of a reason is met by them from both sides.
Documents of five tokens nest twice and end at every place of the parser's loop.

Fairness. A thread that is inside an operation is scheduled (weak fairness of its
next step): Windows runs every ready thread and the code's waits are spins with
`Sleep(0)` or condition variables. Nothing is assumed of a thread outside: it
need not call again. In `lock` that is enough for the lock to be taken by
somebody, not for each waiter, and no more is claimed. In `websocket` bytes that
were sent arrive, or the connection breaks, as TCP promises. `build` is sequential: a
call that has begun goes on. The other runs check safety only and state no
fairness.

`CHECK_DEADLOCK FALSE` stands in the configurations of runs that really stop: the
driver ends, the scripts of a connection do, and so does a stream.

## Findings

* `build_resource`: a project whose rc.exe fails is compiled without that resource
  and marked compiled (`compile/src/compiler.cpp:478`); the comment at line 86
  says the mark means a successful build.
* `websocket_ping`: `receive()` looks for control frames with `OPC & 0x80`
  (`CWS/src/WebSocket.cpp:165`) although `OPC` has four bits, so a ping in the
  middle of a fragmented message is joined to it and ends it. RFC 6455 asks
  endpoints to handle such frames.
* `prefix_simple`: `DecodeHuffman` gives the codes of a simple prefix code to its
  symbols in the order they are read (`Compression/src/Brotli.cpp:289`); RFC 7932
  (`RFC7932.txt:762`) says they may come unsorted and that codes of one length go
  to the symbols in sorted order.

More divergences from documents of the repository were met that no run shows as a
violation. The models do what the code does, and the properties claim nothing
there, as their comments say.

* RFC 7932: neither a copy (`Brotli.cpp:727`) nor a word of the dictionary
  (`StaticDictionary.cpp:230`) is compared with the room left in the output, and
  the symbols of a simple prefix code are not compared with the alphabet
  (`Brotli.cpp:289`). `RFC7932.txt:1976-1979` and `757-760` ask for such streams
  to be rejected. `StreamInv` and `RefinesWindow` say what holds of them all the
  same, and the rest under `valid`.
* RFC 7932: a metadata block with MSKIPBYTES 0 skips one byte (`Brotli.cpp:780`
  adds one in every case) where the RFC says none; the model's stream has no
  position, in which that would be seen. `OmitLast`
  (`StaticDictionary.cpp:164`) compares the length with `k` but does not subtract
  it, so the transforms that omit last letters keep the word as it is;
  `StaticDictionary.tla` does what the code does.
* RFC 6455: `"ws:" "//"` (`CWS/references/RFC6455.txt:741-742`) against the `&&`
  of `CWS/src/URL.cpp:12`, which takes an address with one of the slashes; and
  "the default for "wss" is port 443" (`RFC6455.txt:749-750`) against an object
  that is resolved again, whose port and `special` are not reset. `TextsExact`
  says nothing of these two.

Peculiarities about which the repository's documents say nothing, with the
property that leaves room for each:

* `throw;` destroys the object that it throws again (`ExceptionHandler.cpp:369-371`;
  `ObjectDestroyedOnce`).
* A server's first line carries whatever the stack holds behind its eight bytes
  (`ConnectionManager.cpp:8`, `25-29`), and a client reads the reason without a
  bound into 64 bytes (`54`, `66-80`; `MessagesArrive`).
* A copied `foreach` closes its handle once for each copy, and one that is assigned
  over never (`foreach_file.h:7-18`, `foreach.cpp:36-39`, `76-83`; `ClosedOnce`).
* `JSON::stringify` returns the buffer's capacity as the length (`JSON.cpp:314`),
  so that a value with an escaped string need not be read back (`JsonExact`).
* `IPV4()` takes addresses that are none (`Address.cpp:94`; `TextsExact`).

Three more are outside of the models: `Streaming::file::seek` throws after it has
moved the position (`Filesystem/src/file.cpp:76`); a calendar whose conversion
fails keeps the date it had (`Timestamp/src/calender.cpp:55`); and a WebSocket
object that is copied or assigned shares or drops its generator
(`CWS/src/WebSocket.cpp:22-48`).

## Proofs

`tlapm` checks each proof module; what is proved holds for every value of the
constants that satisfies the named assumption of the module.

* **ReentrantLock** (`LockAssumption`; any threads, any modulus above 1). `LockInv`
  adds to the type invariant who owns the low half while the count is being
  changed (`Ownership`), that a word about to be stored is still the word in
  memory (`Progression`, the reason the plain `+=` is safe) and what the queries
  have answered (`Answers`). One lemma per action; from it follow exclusion, the
  count (when the depth stays below the modulus), the two action properties and
  that every step is a step of `ReentrantMutex` or a stutter. The invariant
  supposes `~Abandon`: an identifier that is reused while its old owner holds the
  lock inherits it.
* **OnceInit** (`OnceAssumption`; any threads, statics and faults). `OnceInv` ties the
  critical section to the program counters, a busy guard to its one initialiser
  (`Guarding`), and `Epoch` to what was built (`Building`, `Passing`).
* **WebSocket** (`SocketAssumption`, and `XorAssumption`: exclusive or undoes
  itself). The three read-back theorems are about the bytes of a frame, for every
  message and every length of 64 bits. `WebSocketInv` says that only the holder of
  the lock is inside `frame()` and works on the last frame begun (`Sending`), that
  after a CLOSE the socket is shut or nobody may begin (`Closing`), and how much
  the receiver waits for (`Receiving`); `CloseIsLast` follows.

  `SyncInv` is about the stream of bytes, which is cut anywhere. Each frame begun
  starts where the one before it ends, and what was sent carries its encoding from
  there; of the last one, the part not yet sent is in the hands of the thread
  inside `frame()`, which is why `Sending` is needed. The receiver is in the frame
  after those it has taken, and what it has read of the head, the length and the
  mask are the bytes of that frame, so that it waits for exactly what is left.
  `FrameSyncCorrect` follows. `ChannelInv` adds that control frames come between
  messages (`Apart`) and that what `receive()` has joined is the
  gathering of the frames taken since the last whole message (`Joins`);
  `ChannelRefined` concludes that every step is a step of `MessageChannel` or a
  stutter. Two hypotheses are about the scripts, which are the application's:
  `SizedScripts` (a length fits the QWORD that `frame()` writes) and
  `UnmixedScripts` (no control frame inside a fragmented message). The second is
  what the run `websocket_ping` shows to be needed: without it the refinement is
  false. TLC checks that the scripts of `websocket` satisfy it.
* **The build driver** (`BuildAssumption`; any graphs, names, orders and failing
  commands). `BuildInv` says that every call on the stack waits for the project of
  the next and that the names before it are settled (`Waiting`), that what is
  compiled was built and is closed under its dependencies (`Built`), and that main's
  loop leaves only compiled projects behind it. `DriverCorrect` and `ReportCorrect`
  follow. `CyclesCorrect` is about the stack: the calls on it follow the
  dependencies, so a stack longer than the list holds a project twice, and the path
  from one to the other is a cycle. It supposes `RoomEnough`: a finite tree, and a
  stack with room for a call per project.
* **MessageDigest** (`DigestAssumption`: any block size, any data, a length that 64
  bits count in bits). `DigestInv` says that digest, block and what is left to copy
  are the message (`Buffered`), and that the copies of `finally()` are the message,
  its mark and zeros (`Padding`). `PaddingCorrect` concludes that what is hashed is
  the padding of RFC 1321, RFC 3174 and Keccak; `SaveReadBack` is the
  byte order it rests on. `OutputInv` is about the answer: SHAKE has squeezed
  whole blocks, or all that was asked for. `OutputCorrect` concludes that its byte i
  is byte (i - 1) % size of block (i - 1) \div size, and that the other digests
  answer with their one block's first bytes; that such a digest is whole bytes and no
  longer than a block is in `DigestAssumption`.
* **Brotli** (`BrotliAssumption`, `DictionaryAssumption`; any window, dictionary,
  formats and sizes; of powers of two only that they are positive). `BlockInv`
  relates the place in the stream, the room left in the output and the block count
  of literals, for streams that may be invalid: a meta-block is left only when its
  length is reached, nothing passes it while `valid`, and `BLENL = 1 << 24` is never
  spent before the buffer is full, even by a block that begins behind an overrun. It
  needs no strengthening but that the output is a sequence (`DecoderInv`), which the
  words of the dictionary have to keep, through every transform. `DecoderReadInv`
  adds that the distances copied from are positive and the ring is the end of their
  history (`Distanced`), how far the maps are filled, and that, while symbols are of
  their alphabet, moving to the front keeps their entries in range (`MapsFilled`);
  `StreamCorrect` is `StreamInv`. `WindowRefined` concludes that every step is one
  of `SlidingWindow`, which tells nothing of an invalid stream, or a stutter: the
  loop that copies byte by byte from a growing output gives the letter a whole
  number of distances back (`RepeatedByte`), and a distance beyond the window is a
  word of the dictionary.
* **PrefixCode** (`PrefixAssumption`; any alphabet, any longest code of up to 15 bits,
  any order of the token kinds, any bits; what an alphabet could take fits 32 bits,
  as the code's largest does: 704 symbols of up to 2^15). `ReadInv` says that lengths
  are given in order (`Ahead`), that `space` is what they leave of the code space,
  modulo its range, and what the decoder remembers of a run: its length is the
  number of its digits, and the length it repeats is the last that was not zero
  (`RepeatInv`). A token of a run multiplies its digits so far by 4 or 8, so a run's
  sum is compared with the sum before it term by term (`RunGrows`); `RunsCorrect`
  follows. `CodeCorrect` is about what `CreateHuffman` makes of lengths that leave no
  space. The space that shorter lengths take (`Below`) is where the codes of a length
  begin (`OffsetsFit`: the running offsets never pass their 16 bits), so the codes,
  as numbers of `MaxBits` bits, are intervals in order that cover all numbers
  (`CodesOrdered`, `CodeFound`); and the bits of a path are the first bits of exactly
  the numbers in its interval (`BitsOfFirst`, `Beginning`).
* **Sockets** (no assumption; any objects, peers and system sockets). `SkInv` adds to
  `PeerRecorded` what ownership means for the objects: what one holds is open and
  was not dropped (`Holds`), no two hold the same (`Apart`), and what is open and was
  not dropped is held (`Held`). Four lemmas say how a handle stays, is given, passed
  on and freed; each operation is one of them. `HandlesCorrect` and `PeersCorrect`
  follow.
* **HeapString** (no assumption; any variables and lengths). `MsInv` is ownership
  again, of blocks: what a string holds is allocated and long enough (`MsHolds`), no
  two hold the same (`MsApart`), every block is held (`MsHeld`). `StringsOwn`
  counts the owners of a block, so `StringsCorrect` needs all three; that the heap
  finds a new block (`FreshIs`) is a fact about the least number of a set.
* **Handles** (no assumption; any places and kinds of objects). `HaInv` is ownership
  of handles, where a search that a second `first()` or an assignment overwrites is
  open without an owner, every other open handle has one, and only one that a
  copied search shares has more or is closed again; `OwnersCorrect` counts them. `HaSystem`
  adds that what a handle is for is a thread of the system.
* **Runtime** (no assumption; any initialisers, threads and nodes). `RtInv` says that
  a node points to one registered before it, to the last one if no two calls of
  `atexit` overlapped (`Linked`), that a node not yet first is like those that are
  (`RtPending`), and where `onexit` is in the list: what ran are nodes of later
  places, the later ones first, all of them if nothing overlapped (`RtWalk`).
  `RuntimeCorrect` is `ExitOrder`.
* **Files** (`FilesAssumption`: a set of paths holds what is above them; any actors,
  calls and depths). `FsInv` says that a call
  under way has not answered and that the first of what it has to do is its own path
  (`InOrder`); what it creates last is that one. `FilesCorrect` is `TrueIsMine`.
  `CallsCorrect` is `CallsAlone`: what is on disk is below directories (`Whole`), and
  a call's list is its path with those above it down to some length (`Todo`). While
  nobody disturbs it, the tree is the one before and nothing below that length is
  there, or, on the way back, everything above that length has been made and was
  missing or a directory before (`Phase`). Each answer is then the one of `Alone`; what
  other actors change only matters to a call through `fsRaced` (`OneActs`).

* **JsonTree** (`JsonTreeAssumption`: finitely many variables, indexes that are
  numbers; any variables, steps and bounds). `JtInv` says that without a fault the
  heap is a forest: an object is held in at most one place, and a variable in none
  (`Forest`); that every object is reached from a variable while nothing was
  aliased; and that only an aliasing statement can fault. No object lies below
  itself: what is reached is finite and each object of it is held once. So what
  `cleanup()` frees is one whole tree that nobody else reaches, a copy is a tree of
  new objects, and a move takes a tree out of one place and puts it in another. A path
  that creates members on its way keeps all that (`Led`), and keeps what a variable
  marked read-only holds as it was. `TreesCorrect` counts owners;
  `ReadonlyCorrect` follows from the steps of a path.
* **Http** (`HttpAssumption`: the texts of a message are sequences of tokens; any
  messages, stray bytes included, any number of them, delivered in any pieces).
  `HtInv` says that while each message received was whole (`AllWhole`: it said where
  it ends, no stray byte was in its first line, and nothing closed before the last),
  what has arrived and what is on its way are the wires of the messages not yet
  received, in a row (`Aligned`, `RowOf`). It needs no more than that and what was
  sent, because `receive()` keeps nothing between its calls. The work is in what one
  call returns when a row begins with the wire of a message: each word of the first
  line ends where it was written, and the header, read one character at a time, has
  after each line the entries of the lines so far (`Behind`), the value that a line
  without a colon takes included. So the call ends at the body, takes its length
  from the entries and leaves what follows. A message that does not say where it
  ends is what the second half is about: the header is right all the same and the
  body is what had arrived. `MessagesCorrect` is `MessagesArrive`.
* **FrameHandler** (`TablesAssumption`: entries are numbered from 1, a catch clause
  names a catch block, a function with try blocks has a map of its own, and there is
  a type nobody throws; any functions, tables, throws and depth of the stack).
  `EhInv` says how the stack is built (`EhStack`): a catch block stands above the
  call that entered it and that above the function that catches. Its records say who
  holds which exception (`ObjectsOwn`); an object is destroyed when no search is for
  its own throw and no call holds it (`DestroyedOnRelease`), which for one that
  `throw;` throws again is while it is in flight. `DestroyedCorrect` is what of that
  should be. `InFlight` and `Skips` are about the two fields of a record: they are
  those of the last call of a catch block that the search has passed, and of an
  older frame they name nothing. With `PassedOver` - no frame below has a block that
  fits and is not being left - `NearestCorrect` concludes that the search ends in
  the innermost block. That a map belongs to one function, as the compiler leaves
  it, is needed for that: the record names a map and no frame.

Induction over data is done without the library's theorems, whose parameters are
operators: `LeastNumber` in `DataLemmas` takes a set of numbers, and
`NumberInduction` follows. So what a fold gives can be proved where the invariant
says how the fold goes on, as `ChannelRefined` does, and a recursive function over
numbers is shown to exist and to be solved by a formula or term by term, as in
`BrotliProofs` (`RecursionExists`).

Only model-checked: liveness (fairness and `ENABLED` are beyond the prover), and
`NumbersExact`, `CodesExact`, `TextsExact` and `JsonExact`, whose numbers, codes,
hashes and texts are computed by recursive operators over their data, which the
prover cannot take.

Number literals in proofs stay below 2^48: products of literals are folded by
the proof manager in machine integers, so "fits in 64 bits" is stated with
divisions (`In64Bits`).

## Plan

Done: the inventory's components but the last two rows. What would add most, in
this order; each has its hazards in `PROJECT.json`.

1. `Brotli`: the position in the stream, for metadata blocks; omitted last letters
   against the RFC.
2. `Sockets` under `Http` and `WebSocket`: connections that are reused after an
   error, two at a time.
3. `WebSocket` objects that are copied and moved.

## Not modelled

Contents of `Compression/src/dictionary.cpp` (122 KB of words: a third of the
implementation's lines), the demonstration program (WST), Timestamp (two changes of
units around the system's calendar), the search for entry points in a loaded image
(`frame.cpp`, `winimage.cpp`), the system's unwinder under `FrameHandler`, `select`
and the socket options, streams over strings, the numbers of `Streaming::format`,
the copying of WebSocket objects, the checks' rows wider than 16 bits (their numbers
would not fit TLC's integers; the code is the same), code pages, names and
priorities of threads, loader entry points, type declarations and imports of Windows
functions, wording and formatting of messages. Weak memory is not modelled either:
on x86 and x64, which the driver targets, the interleavings of `ReentrantLock` and
`OnceInit` are all there is, except that a plain store may be seen late by others,
which neither module's properties depend on: the words that matter are stored by
their owner and read by it, or changed by locked instructions and inside a critical
section.
