-------------------------------- MODULE Brotli --------------------------------
(***************************************************************************)
(* The Brotli decoder: uncompress, DecodeMetaBlock, DecodeContextMap and   *)
(* DecodeCompressedMetaBlock of Compression/src/Brotli.cpp.  What is read  *)
(* from the stream is a choice; the prefix codes are PrefixCode's.  The    *)
(* trees may return any byte, so a context map is read and checked but it  *)
(* is not kept: which tree returns a byte makes no difference here.        *)
(*                                                                         *)
(* The stream is any sequence of choices.  Two things the decoder does not *)
(* test, and RFC 7932 (lines 757-760 and 1976-1979) has it reject: that a  *)
(* copy or a word ends inside its meta-block, and that a simple prefix     *)
(* code names symbols of its alphabet.  `valid` remembers whether one of   *)
(* them was met.  A copy or a word may then pass the end of the buffer:    *)
(* `length` counts the bytes there too, but the next resize() may find     *)
(* anything in them.  What else such a write damages is not modelled.      *)
(***************************************************************************)
EXTENDS Integers, Sequences, FiniteSetsExt, Functions, BrotliCodes, StaticDictionary

CONSTANTS Byte,        \* values of a literal
          WindowBits,  \* what ReadWBITS returns: 9 to 24 in the code
          WindowGap,   \* 16 in the code: the window is 2^WBITS less this
          Formats,     \* <<NPOSTFIX, NDIRECT >> NPOSTFIX>>: up to 3 and 15
          MaxBlock,    \* longest meta-block: 2^24 in the code
          BlockCount,  \* BLENL, BLENI and BLEND at first: 2^24 in the code
          FarDistance, \* 2^24 in the code: no short code may pass it
          Contexts,    \* entries of a context map: 64 for literals, 4 for distances
          MaxTrees,    \* trees of a context map: up to 256
          MaxRun,      \* RLEMAX: up to 16
          MaxOutput,   \* bound: bytes announced by one stream, and those of a command
          MaxDistance  \* bound: distances that are not short codes

ASSUME BrotliAssumption ==
  /\ Byte \subseteq 0 .. 255
  /\ \A w \in WindowBits : w \in Nat /\ 2 ^ w - WindowGap \in Nat \ {0}
  /\ Formats \subseteq (0 .. 3) \X (0 .. 15)
  /\ MaxBlock \in Nat \ {0} /\ BlockCount \in Nat /\ BlockCount >= MaxBlock
  /\ FarDistance \in Nat /\ Contexts \in Nat \ {0}
  /\ MaxTrees \in 1 .. 256 /\ MaxRun \in 0 .. 16
  /\ MaxOutput \in Nat /\ MaxDistance \in Nat

VARIABLES phase,    \* where the decoder is
          last,     \* ISLAST of this meta-block
          window,   \* (1 << WBITS) - 16
          output,   \* the bytes written: `length` of them, `size` of which are in the buffer
          size,     \* output.length
          distance, \* the last four distances, State::distance
          blen,     \* BLENL, BLENI and BLEND
          format,   \* <<NPOSTFIX, NDIRECT>> of this meta-block
          maps,     \* context maps still to read
          map,      \* the one being read
          trees, rlemax,     \* of that map
          left,     \* literals left of this insertion, or bytes of a raw block
          clength,  \* the copy length of this command
          implicit, \* IACC < 128
          used,     \* the distances copied from, except by code 0 (history)
          valid     \* every symbol was of its alphabet, every byte in the buffer (history)

context == <<maps, map, trees, rlemax>>
command == <<left, clength, implicit>>
vars == <<phase, last, window, output, size, distance, blen, format, context, command, used, valid>>

-----------------------------------------------------------------------------
(* Tables and operators *)

DISTANCE_INDEX == <<0, 1, 2, 3, 0, 0, 0, 0, 0, 0, 1, 1, 1, 1, 1, 1>>
DISTANCE_OFFSET == <<0, 0, 0, 0, -1, 1, -2, 2, -3, 3, -1, 1, -2, 2, -3, 3>>

CommandsOf(iacc) ==
  {[insert |-> i, copy |-> c, implicit |-> iacc < 128] :
     i \in LengthsOf(INSERT_LENGTH, INSERT_EXTRA, InsertCode(iacc), MaxOutput),
     c \in LengthsOf(COPY_LENGTH, COPY_EXTRA, CopyCode(iacc), MaxOutput)}
Commands == UNION {CommandsOf(iacc) : iacc \in 0 .. 703}

(* What a simple prefix code of n symbols may return: any number of as many bits. *)
SymbolsRead(n) == 0 .. Min({2 ^ b : b \in {c \in 0 .. 10 : 2 ^ c >= n}}) - 1

(* A code of 704 or more reads beyond the table of cells: the lengths may be any. *)
StrayCommands == {[insert |-> i, copy |-> c, implicit |-> FALSE] : i, c \in 0 .. MaxOutput}

Short(dcode) == distance[DISTANCE_INDEX[dcode + 1] + 1] + DISTANCE_OFFSET[dcode + 1]

(* updateLastDistance *)
Updated_Forward(d) == IF d = 0 THEN distance ELSE <<d, distance[1], distance[1], distance[1]>>
Updated(d) == IF d = 0 THEN distance ELSE <<d, distance[1], distance[2], distance[3]>>

(* memcpy moves bytes one by one from the first, so a copy may feed on itself. *)
Copied_OldBytes(d, n) ==
  output \o [k \in 1 .. n |-> IF k <= d THEN output[Len(output) - d + k] ELSE 0]
Copied(d, n) ==
  LET byte[k \in 1 .. Len(output) + n] == IF k <= Len(output) THEN output[k] ELSE byte[k - d]
  IN [k \in 1 .. Len(output) + n |-> byte[k]]

(* IMTF: the value at the index, which then moves to the front of the queue. *)
ToFront(q, index) ==
  [v \in 0 .. 255 |-> IF v = 0 THEN q[index] ELSE IF v <= index THEN q[v - 1] ELSE q[v]]
IMTF(data) ==
  LET queue[k \in 1 .. Len(data) + 1] ==
        IF k = 1 THEN [v \in 0 .. 255 |-> v]
        ELSE ToFront(queue[k - 1], data[k - 1])
  IN [k \in DOMAIN data |-> queue[k][data[k]]]

Reach == Min({window, Len(output)})
Room == size - Len(output)

(* resize() keeps the bytes of the buffer; those beyond it may be any. *)
Resized ==
  {[k \in 1 .. Len(output) |-> IF k <= size THEN output[k] ELSE rest[k]] :
     rest \in [size + 1 .. Len(output) -> Byte]}

-----------------------------------------------------------------------------
(* Meta-blocks *)

(* uncompress() and ReadWBITS *)
Init == /\ phase = "head"
        /\ last = FALSE
        /\ window \in {2 ^ w - WindowGap : w \in WindowBits}
        /\ output = <<>>
        /\ size = 0
        /\ distance = <<4, 11, 15, 16>>
        /\ blen = [l |-> BlockCount, i |-> BlockCount, d |-> BlockCount]
        /\ format = <<0, 0>>
        /\ maps = 0 /\ map = <<>> /\ trees = 0 /\ rlemax = 0
        /\ left = 0 /\ clength = 0 /\ implicit = FALSE
        /\ used = <<>> /\ valid = TRUE

(* After a meta-block comes another unless it was the last. *)
Ended(islast) == phase' = IF islast THEN "done" ELSE "head"
Violate == phase' = "violation"

LastEmpty ==
  /\ phase = "head"
  /\ last' = TRUE
  /\ phase' = "done"
  /\ UNCHANGED <<window, output, size, distance, blen, format, context, command, used, valid>>

(* Metadata are skipped; the reserved bit must be zero. *)
Metadata ==
  /\ phase = "head"
  /\ \E islast \in BOOLEAN : last' = islast /\ (Violate \/ Ended(islast))
  /\ UNCHANGED <<window, output, size, distance, blen, format, context, command, used, valid>>

Begin ==
  /\ phase = "head"
  /\ \E islast, uncompressed \in BOOLEAN, MLEN \in 1 .. Min({MaxBlock, MaxOutput - size}) :
       /\ uncompressed => ~islast
       /\ last' = islast
       /\ size' = size + MLEN
       /\ output' \in Resized
       /\ \/ uncompressed /\ phase' = "raw" /\ left' = MLEN
          \/ uncompressed /\ Violate /\ UNCHANGED left
          \/ ~uncompressed /\ phase' = "types" /\ UNCHANGED left
  /\ UNCHANGED <<window, distance, blen, format, context, clength, implicit, used, valid>>

(* One byte of the copy of an uncompressed block, and its end.  After a copy that *)
(* passed the buffer, so does this one.                                           *)
Raw ==
  /\ phase = "raw"
  /\ IF left = 0 THEN Ended(last) /\ UNCHANGED <<output, left>>
     ELSE /\ \E byte \in Byte : output' = Append(output, byte)
          /\ left' = left - 1
          /\ UNCHANGED phase
  /\ UNCHANGED <<last, window, size, distance, blen, format, context, clength, implicit, used, valid>>

(* The head of a compressed block: more than one block type of a kind is not supported. *)
Types ==
  /\ phase = "types"
  /\ blen' = [l |-> BlockCount, i |-> BlockCount, d |-> BlockCount]
  /\ \/ Violate /\ UNCHANGED <<format, maps>>
     \/ /\ \E f \in Formats : format' = <<f[1], f[2] * 2 ^ f[1]>>
        /\ phase' = "trees" /\ maps' = 2
  /\ UNCHANGED <<last, window, output, size, distance, map, trees, rlemax, command, used, valid>>

-----------------------------------------------------------------------------
(* DecodeContextMap *)

Trees ==
  /\ phase = "trees"
  /\ \E n \in 1 .. MaxTrees :
       /\ trees' = n
       /\ IF n >= 2 THEN /\ \E r \in 0 .. MaxRun : rlemax' = r
                         /\ map' = <<>>
                         /\ phase' = "map"
          ELSE /\ map' = [k \in 1 .. Contexts |-> 0]
               /\ phase' = "mapped"
               /\ UNCHANGED rlemax
  /\ UNCHANGED <<last, window, output, size, distance, blen, format, maps, command, used, valid>>

MapValue(code) == (code - rlemax) % 256

MapCode ==
  /\ phase = "map" /\ Len(map) < Contexts
  /\ \E code \in SymbolsRead(rlemax + trees) :
       /\ valid' = (valid /\ code < rlemax + trees)
       /\ IF code > rlemax
          THEN map' = Append(map, MapValue(code)) /\ UNCHANGED phase
          ELSE \E rep \in 2 ^ code .. 2 ^ (code + 1) - 1 :
                 IF Len(map) + rep > Contexts
                 THEN Violate /\ UNCHANGED map
                 ELSE map' = map \o [k \in 1 .. rep |-> 0] /\ UNCHANGED phase
  /\ UNCHANGED <<last, window, output, size, distance, blen, format, maps, trees, rlemax,
                 command, used>>

MapRead ==
  /\ phase = "map" /\ Len(map) >= Contexts
  /\ map' = map \/ map' = IMTF(map)
  /\ phase' = "mapped"
  /\ UNCHANGED <<last, window, output, size, distance, blen, format, maps, trees, rlemax,
                 command, used, valid>>

(* The next map; after the second, the prefix codes are read. *)
Mapped ==
  /\ phase = "mapped"
  /\ maps' = maps - 1
  /\ map' = <<>> /\ trees' = 0 /\ rlemax' = 0
  /\ phase' = IF maps = 1 THEN "command" ELSE "trees"
  /\ UNCHANGED <<last, window, output, size, distance, blen, format, command, used, valid>>

-----------------------------------------------------------------------------
(* The loop of DecodeCompressedMetaBlock *)

Take(c) == left' = c.insert /\ clength' = c.copy /\ implicit' = c.implicit

Command ==
  /\ phase = "command" /\ Room > 0
  /\ IF blen.i = 0
     THEN Violate /\ UNCHANGED <<blen, command, valid>>
     ELSE /\ blen' = [blen EXCEPT !.i = @ - 1]
          /\ \/ \E c \in Commands : Take(c) /\ UNCHANGED valid
             \/ \E c \in StrayCommands : Take(c) /\ valid' = FALSE
          /\ phase' = "insert"
  /\ UNCHANGED <<last, window, output, size, distance, format, context, used>>

(* A literal goes through string::operator[], which throws beyond the buffer. *)
Insert ==
  /\ phase = "insert" /\ left > 0
  /\ IF blen.l = 0 \/ Room <= 0
     THEN Violate /\ UNCHANGED <<output, blen, left>>
     ELSE /\ blen' = [blen EXCEPT !.l = @ - 1]
          /\ \E byte \in Byte : output' = Append(output, byte)
          /\ left' = left - 1
          /\ UNCHANGED phase
  /\ UNCHANGED <<last, window, size, distance, format, context, clength, implicit, used, valid>>

Inserted ==
  /\ phase = "insert" /\ left = 0
  /\ IF Room > 0 THEN phase' = "copy" /\ UNCHANGED <<clength, implicit>>
     ELSE phase' = "command" /\ clength' = 0 /\ implicit' = FALSE
  /\ UNCHANGED <<last, window, output, size, distance, blen, format, context, left, used, valid>>

(* The distances that may be read, as code and distance; a symbol beyond the    *)
(* alphabet is taken for a code of 16 or more, and its distance may be any.      *)
Implicit == {<<0, distance[1]>>}
Explicit == {<<dcode, Short(dcode)>> : dcode \in 0 .. 15}
              \cup {<<x[1], DistanceOf(format[1], format[2], x[1], x[2])>> :
                      x \in Reaching(format[1], format[2], MaxDistance)}
DistanceSymbols == 16 + format[2] + 48 * 2 ^ format[1]
Stray == {<<dcode, d>> : dcode \in SymbolsRead(DistanceSymbols) \ (0 .. DistanceSymbols - 1),
                         d \in 0 .. MaxDistance}
OutOfRange(dcode, d) == ~implicit /\ dcode < 16 /\ (d <= 0 \/ d > FarDistance)

(* A distance of 0 copies what lies in the buffer onto itself. *)
CopyFrom(dcode, d) ==
  /\ d <= Reach
  /\ distance' = IF dcode = 0 THEN distance ELSE Updated(d)
  /\ IF d = 0 THEN \E rest \in [1 .. clength -> Byte] : output' = output \o rest
     ELSE output' = Copied(d, clength)
  /\ phase' = "command"

FromDictionary(d) ==
  LET id == WordID(d, Reach)
  IN /\ d > Reach
     /\ UNCHANGED distance
     /\ IF Exists(id, clength)
        THEN output' = output \o Appended(id, clength) /\ phase' = "command"
        ELSE Violate /\ UNCHANGED output

(* CIDD is too large for a copy length below 2: BadDistance. *)
Copy ==
  /\ phase = "copy"
  /\ \/ implicit /\ UNCHANGED blen
     \/ ~implicit /\ blen.d > 0 /\ clength >= 2 /\ blen' = [blen EXCEPT !.d = @ - 1]
  /\ \E x \in IF implicit THEN Implicit ELSE Explicit \cup Stray :
       /\ ~OutOfRange(x[1], x[2])
       /\ CopyFrom(x[1], x[2]) \/ FromDictionary(x[2])
       /\ used' = IF x[1] = 0 \/ x[2] \notin 1 .. Reach THEN used ELSE Append(used, x[2])
       /\ valid' = (valid /\ x \notin Stray /\ Len(output') <= size)
  /\ clength' = 0 /\ implicit' = FALSE
  /\ UNCHANGED <<last, window, size, format, context, left>>

(* No block count left, a copy without a context, or a short code that leaves the *)
(* range of distances.                                                            *)
BadDistance ==
  /\ phase = "copy" /\ ~implicit
  /\ \/ blen.d = 0 \/ clength < 2
     \/ \E dcode \in 0 .. 15 : OutOfRange(dcode, Short(dcode))
  /\ Violate
  /\ UNCHANGED <<last, window, output, size, distance, blen, format, context, command, used, valid>>

EndBlock ==
  /\ phase = "command" /\ Room <= 0
  /\ Ended(last)
  /\ format' = <<0, 0>>
  /\ UNCHANGED <<last, window, output, size, distance, blen, context, command, used, valid>>

(* The stream ends before it should (NibbleReader throws), or a prefix code is     *)
(* refused.                                                                        *)
StreamEnds ==
  /\ phase \notin {"done", "violation"}
  /\ Violate
  /\ UNCHANGED <<last, window, output, size, distance, blen, format, context, command, used, valid>>

Next == \/ LastEmpty \/ Metadata \/ Begin \/ Raw \/ Types \/ Trees \/ MapCode \/ MapRead \/ Mapped
        \/ Command \/ Insert \/ Inserted \/ Copy \/ BadDistance \/ EndBlock \/ StreamEnds

Spec == Init /\ [][Next]_vars
-----------------------------------------------------------------------------
(* Properties *)

Phases == {"head", "raw", "types", "trees", "map", "mapped", "command", "insert", "copy",
           "violation", "done"}

(* The types of the decoder's variables. *)
TypeOK == /\ phase \in Phases
          /\ last \in BOOLEAN /\ valid \in BOOLEAN
          /\ size \in Nat /\ left \in Nat /\ clength \in Nat
          /\ blen \in [l : 0 .. BlockCount, i : 0 .. BlockCount, d : 0 .. BlockCount]

(* What the decoder's comparisons of lengths come to.  A meta-block is left only  *)
(* when its announced length is reached, and nothing passes that length unless a  *)
(* copy or a word did (lines 675, 727): then the stream is one to be rejected and *)
(* what lies beyond is lost.  The block count of literals, 1 << 24 (line 530), is *)
(* not spent before the buffer is full, however commands, copies and words share  *)
(* it among them and whatever an earlier meta-block has overrun.                  *)
Counted == /\ valid => Room >= 0
           /\ phase \in {"head", "done"} => Room <= 0
           /\ phase = "raw" => left >= Room /\ (valid => left = Room)
           /\ phase \in {"insert", "copy"} => Room >= 0
           /\ phase = "types" => Room <= MaxBlock
           /\ phase \in {"trees", "map", "mapped", "command", "insert", "copy"} => blen.l >= Room

(* The inductive invariant, for all of the above. *)
BlockInv == TypeOK /\ Counted

(* RFC 7932 section 4: the short codes refer to "the last four distances", to    *)
(* which neither a distance read with code 0 nor a reference to the dictionary   *)
(* is added.  The decoder's four cells (lines 116-126) agree with the distances  *)
(* read so far over any number of commands and meta-blocks, valid or not.        *)
RingIsHistory ==
  LET past == <<16, 15, 11, 4>> \o used
  IN distance = [k \in 1 .. 4 |-> past[Len(past) + 1 - k]]

(* Whatever the runs of zeros and the inverse move-to-front make of it, a context *)
(* map is filled exactly and, as long as the symbols read are of their alphabet,   *)
(* names trees that exist: DecodeCompressedMetaBlock indexes TREESL and TREESD     *)
(* with it unchecked.                                                              *)
MapInRange ==
  phase = "mapped" => /\ Len(map) = Contexts
                      /\ valid => \A k \in DOMAIN map : map[k] \in 0 .. trees - 1

(* What was read of the stream is what RFC 7932 has it mean, as far as it allows   *)
(* the stream: the lengths, the last distances and the context maps.              *)
StreamInv == BlockInv /\ RingIsHistory /\ MapInRange

DictionaryWords ==
  UNION {{Appended(id, n) : id \in 0 .. Len(transformation) * NWORDS(n) - 1} : n \in Lengths}

Stream == INSTANCE SlidingWindow WITH Windows <- {2 ^ w - WindowGap : w \in WindowBits},
                                      Words <- DictionaryWords,
                                      written <- output

(* The decoder does what a valid stream says: a byte, a copy of the bytes written *)
(* before it, from no farther than the window and also where it overlaps what it  *)
(* writes (line 727, a plain memcpy), or a word of the dictionary.                *)
RefinesWindow == Stream!Spec
=============================================================================
