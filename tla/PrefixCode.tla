------------------------------ MODULE PrefixCode ------------------------------
(***************************************************************************)
(* How the Brotli decoder reads one prefix code: DecodeHuffman and         *)
(* CreateHuffman of Compression/src/Brotli.cpp.  Every bit string may      *)
(* arrive: a read is a choice.  A code is a function from the paths of the *)
(* tree (sequences of bits) to the symbols at its leaves.                  *)
(*                                                                         *)
(* A simple code lists its symbols.  A complex code is a sequence of code  *)
(* lengths, itself prefix-coded: first the lengths of the kinds of tokens  *)
(* (SymbolLength), then the tokens (Literal, Repeat), in which Copy16      *)
(* repeats the last length that is not zero and Zero17 repeats zero.       *)
(***************************************************************************)
EXTENDS Naturals, Sequences, FiniteSets, FiniteSetsExt, Functions

CONSTANTS AlphabetSize,  \* symbols of the code, at least 1
          MaxBits,       \* longest code: 15 in the code
          FirstLength,   \* what Copy16 repeats at first: 8 in the code
          DwordRange,    \* 2^32, the range of `space`
          MaxLiterals,   \* bound: tokens of one code that are not repeats
          ComplexSymbol  \* the order of the token kinds: COMPLEX_SYMBOL

ASSUME PrefixAssumption == /\ AlphabetSize \in Nat \ {0}
                           /\ MaxBits \in 1 .. 15
                           /\ FirstLength \in 1 .. MaxBits
                           /\ DwordRange \in Nat /\ DwordRange > 32768
                           /\ DwordRange > AlphabetSize * 2 ^ MaxBits
                           /\ MaxLiterals \in Nat
                           /\ ComplexSymbol \in Seq(0 .. MaxBits \cup {16, 17})
                           /\ IsInjective(ComplexSymbol)

Copy16 == 16
Zero17 == 17
NoRun == [kind |-> 0, extras |-> <<>>, first |-> 0]
Symbols == 0 .. AlphabetSize - 1

(* What a simple code can name: numbers of as many bits as the last symbol has. *)
SimpleSymbols == 0 .. Min({2 ^ b : b \in {c \in 0 .. AlphabetSize : 2 ^ c >= AlphabetSize}}) - 1
Kinds == Range(ComplexSymbol)

VARIABLES stage,        \* where the reader is
          index,        \* i: of the kind, then of the symbol, to read next
          symbolLength, \* lengths of the codes of the token kinds
          usable,       \* the token kinds `codes` can return
          codeLength,   \* lengths of the codes of the symbols
          space,        \* what is left of the code space, a 32-bit number
          repeat,       \* length of the run being repeated, 0 outside one
          prevclen,     \* the last length that was not zero
          prevrepl,     \* the length the last repeat token repeated
          tree,         \* the code that was read
          literals,     \* tokens read that are not repeats (for the bound)
          run           \* the run of equal repeat tokens just read, and where it began (history)

pcVars == <<stage, index, symbolLength, usable, codeLength, space, repeat, prevclen,
            prevrepl, tree, literals, run>>

-----------------------------------------------------------------------------
(* Operators *)

(* space -= amount *)
Less(amount) == (space + DwordRange - (amount % DwordRange)) % DwordRange

Bits(code, length) == [k \in 1 .. length |-> (code \div 2 ^ (length - k)) % 2]

(* What a length takes from the space. *)
Share(clen) == IF clen = 0 THEN 0 ELSE 2 ^ (MaxBits - clen)

(* prevclen after a literal length *)
Last(clen) == IF clen = 0 THEN prevclen ELSE clen

(* The run that a repeat token of this length extends: none if another came before. *)
Carried_FromOther(repclen) == repeat
Carried(repclen) == IF prevrepl = repclen THEN repeat ELSE 0

Grown(before, clen, extra) == extra + (IF before = 0 THEN 0 ELSE (before - 2) * 2 ^ (clen - 14))

(* A tree that is one leaf: its symbol is read without reading a bit. *)
Single(s) == [p \in {<<>>} |-> s]

(* A path is assigned to the last symbol inserted there. *)
PathsTo(path) == [p \in Range(path) |-> Max({s \in DOMAIN path : path[s] = p})]

(* Where the codes of each length begin: the count of shorter ones, doubled. *)
Offsets_ShiftFirst(count) ==
  LET offset[l \in 0 .. 15] == IF l = 0 THEN 0 ELSE (offset[l - 1] * 2 + count[l - 1]) % 65536
  IN offset

Offsets(count) ==
  LET offset[l \in 0 .. 15] == IF l = 0 THEN 0 ELSE ((offset[l - 1] + count[l - 1]) * 2) % 65536
  IN offset

CreateHuffman(clens) ==
  LET used == {s \in DOMAIN clens : clens[s] # 0}
      count == [l \in 0 .. 15 |-> Cardinality({s \in used : clens[s] = l})]
      offset == Offsets(count)
      Rank(s) == Cardinality({r \in used : r < s /\ clens[r] = clens[s]})
  IN IF used = {} THEN Single(0)
     ELSE IF Cardinality(used) = 1 THEN Single(CHOOSE s \in used : TRUE)
     ELSE PathsTo([s \in used |-> Bits(offset[clens[s]] + Rank(s), clens[s])])

SimpleLengths(n, treeSelect) ==
  CASE n = 1 -> <<0>>
    [] n = 2 -> <<1, 1>>
    [] n = 3 -> <<1, 2, 2>>
    [] n = 4 -> IF treeSelect = 1 THEN <<1, 2, 3, 3>> ELSE <<2, 2, 2, 2>>

(* Leaves are made from left to right, in the order the symbols were read. *)
SimpleTree(buff, treeSelect) ==
  LET n == Len(buff)
      leaf == CreateHuffman(SimpleLengths(n, treeSelect))
  IN IF n = 1 THEN Single(buff[1]) ELSE [p \in DOMAIN leaf |-> buff[leaf[p]]]

-----------------------------------------------------------------------------
PcInit == /\ stage = "head"
          /\ index = 0
          /\ symbolLength = [k \in Kinds |-> 0]
          /\ usable = {}
          /\ codeLength = [s \in Symbols |-> 0]
          /\ space = 0
          /\ repeat = 0
          /\ prevclen = FirstLength
          /\ prevrepl = 0
          /\ tree = <<>>
          /\ literals = 0
          /\ run = NoRun

Simple ==
  /\ stage = "head"
  /\ \E n \in 1 .. 4, treeSelect \in {0, 1} :
       \E buff \in [1 .. n -> SimpleSymbols] :
         /\ treeSelect = 1 => n = 4
         /\ tree' = SimpleTree(buff, treeSelect)
  /\ stage' = "simple"
  /\ UNCHANGED <<index, symbolLength, usable, codeLength, space, repeat, prevclen, prevrepl, literals, run>>

Complex ==
  /\ stage = "head"
  /\ \E skip \in {0, 2, 3} : index' = skip
  /\ space' = 32
  /\ stage' = "kinds"
  /\ UNCHANGED <<symbolLength, usable, codeLength, repeat, prevclen, prevrepl, tree, literals, run>>

SymbolLength ==
  /\ stage = "kinds"
  /\ index < Len(ComplexSymbol) /\ space # 0
  /\ \E symlen \in 0 .. 5 :
       /\ symbolLength' = [symbolLength EXCEPT ![ComplexSymbol[index + 1]] = symlen]
       /\ space' = IF symlen = 0 THEN space ELSE Less(32 \div 2 ^ symlen)
  /\ index' = index + 1
  /\ UNCHANGED <<stage, usable, codeLength, repeat, prevclen, prevrepl, tree, literals, run>>

(* The check, and the code made of the lengths; its space starts full. *)
KindsRead ==
  LET nsym == Cardinality({k \in Kinds : symbolLength[k] # 0})
  IN /\ stage = "kinds"
     /\ index >= Len(ComplexSymbol) \/ space = 0
     /\ IF space # 0 /\ nsym # 1
        THEN /\ stage' = "violation"
             /\ UNCHANGED <<usable, space, index>>
        ELSE /\ usable' = Range(CreateHuffman(symbolLength))
             /\ space' = 2 ^ MaxBits
             /\ index' = 0
             /\ stage' = "tokens"
     /\ symbolLength' = [k \in Kinds |-> 0]
     /\ UNCHANGED <<codeLength, repeat, prevclen, prevrepl, tree, literals, run>>

More == stage = "tokens" /\ index < AlphabetSize /\ space # 0

Literal ==
  /\ More /\ literals < MaxLiterals
  /\ literals' = literals + 1
  /\ \E clen \in usable \ {Copy16, Zero17} :
       /\ codeLength' = [codeLength EXCEPT ![index] = clen]
       /\ space' = Less(Share(clen))
       /\ prevclen' = Last(clen)
  /\ index' = index + 1
  /\ repeat' = 0
  /\ run' = NoRun
  /\ UNCHANGED <<stage, symbolLength, usable, prevrepl, tree>>

(* fill(codeLength + i, repclen, delta) *)
Filled(repclen, delta) ==
  [s \in Symbols |-> IF s \in index .. index + delta - 1 THEN repclen ELSE codeLength[s]]

Repeat ==
  /\ More
  /\ \E clen \in usable \cap {Copy16, Zero17} :
       \E extra \in 3 .. (IF clen = Copy16 THEN 6 ELSE 10) :
         LET repclen == IF clen = Copy16 THEN prevclen ELSE 0
             after == Grown(Carried(repclen), clen, extra)
             delta == after - Carried(repclen)
         IN /\ repeat' = after
            /\ prevrepl' = repclen
            /\ IF index + delta > AlphabetSize
               THEN /\ stage' = "violation"
                    /\ UNCHANGED <<codeLength, space, index, run>>
               ELSE /\ codeLength' = Filled(repclen, delta)
                    /\ space' = Less(delta * Share(repclen))
                    /\ index' = index + delta
                    /\ run' = IF clen = run.kind THEN [run EXCEPT !.extras = Append(@, extra)]
                              ELSE [kind |-> clen, extras |-> <<extra>>, first |-> index]
                    /\ UNCHANGED stage
  /\ UNCHANGED <<symbolLength, usable, prevclen, tree, literals>>

Built ==
  /\ stage = "tokens"
  /\ index >= AlphabetSize \/ space = 0
  /\ tree' = CreateHuffman(codeLength)
  /\ stage' = "complex"
  /\ UNCHANGED <<index, symbolLength, usable, codeLength, space, repeat, prevclen, prevrepl, literals, run>>

PcNext == Simple \/ Complex \/ SymbolLength \/ KindsRead \/ Literal \/ Repeat \/ Built

PcSpec == PcInit /\ [][PcNext]_pcVars
-----------------------------------------------------------------------------
(* Properties *)

(* The sum of the first n terms of a function on numbers. *)
Total(f, n) == LET sum[k \in 0 .. n] == IF k = 0 THEN 0 ELSE sum[k - 1] + f[k] IN sum[n]
Used == {s \in Symbols : codeLength[s] # 0}

(* The types of the reader's variables. *)
PcTypeOK == /\ stage \in {"head", "kinds", "tokens", "simple", "complex", "violation"}
            /\ index \in Nat
            /\ symbolLength \in [Kinds -> 0 .. 5]
            /\ usable \subseteq Kinds
            /\ codeLength \in [Symbols -> 0 .. MaxBits]
            /\ space \in 0 .. DwordRange - 1
            /\ repeat \in Nat
            /\ prevclen \in 1 .. MaxBits
            /\ prevrepl \in 0 .. MaxBits

(* The space that reading has left, kept by subtraction over single lengths and *)
(* over the growth of repeated runs (lines 449-482), is what the lengths        *)
(* assigned so far leave of a complete code.                                    *)
Taken(clens) ==
  [k \in 1 .. AlphabetSize |-> IF clens[k - 1] = 0 THEN 0 ELSE 2 ^ (MaxBits - clens[k - 1])]
SpaceIsLeft ==
  stage \in {"tokens", "complex"} =>
    (space + Total(Taken(codeLength), AlphabetSize)) % DwordRange = 2 ^ MaxBits

(* A run of equal repeat tokens covers as many symbols as RFC 7932 section 3.5  *)
(* says: the digits of the extra bits in base 4 or 8, each but the last reduced *)
(* by two.  The symbols have the last length before the run that is not zero,   *)
(* or zero, although the decoder extends the run token by token.                *)
LastLength(clens, end) ==
  LET set == {s \in Symbols : s < end /\ clens[s] # 0}
  IN IF set = {} THEN FirstLength ELSE clens[Max(set)]
Weights(extras, base) ==
  LET n == Len(extras)
      place[k \in 0 .. n] == IF k = 0 THEN 1 ELSE place[k - 1] * base
  IN [j \in 1 .. n |-> (extras[j] - (IF j < n THEN 2 ELSE 0)) * place[n - j]]
RunLength ==
  run # NoRun =>
    LET weights == Weights(run.extras, IF run.kind = Copy16 THEN 4 ELSE 8)
    IN /\ index = run.first + Total(weights, Len(run.extras))
       /\ \A s \in run.first .. index - 1 :
            codeLength[s] = (IF run.kind = Copy16 THEN LastLength(codeLength, run.first) ELSE 0)

(* The path as a number of MaxBits bits. *)
Value(path) == Total([k \in 1 .. Len(path) |-> path[k] * 2 ^ (MaxBits - k)], Len(path))

(* Every sequence of bits leads from the root to exactly one leaf. *)
Complete(code) ==
  \A bits \in [1 .. MaxBits -> {0, 1}] :
    Cardinality({p \in DOMAIN code : p = SubSeq(bits, 1, Len(p))}) = 1

(* Section 3.2: shorter codes precede longer ones, and codes of one length come *)
(* in the order of their symbols.                                               *)
Canonical(code) ==
  \A p, q \in DOMAIN code :
    Len(p) < Len(q) \/ (Len(p) = Len(q) /\ code[p] < code[q]) => Value(p) < Value(q)

(* Lengths that fill the space make the canonical code of RFC 7932 section 3.2: *)
(* one path of the announced length for each symbol, in the right order, and no *)
(* bits the decoder could walk off the tree with.  The running offsets of       *)
(* CreateHuffman (lines 214-241) never mention this.                            *)
CanonicalCode ==
  stage = "complex" /\ space = 0 =>
    /\ Complete(tree) /\ Canonical(tree)
    /\ Range(tree) = Used
    /\ \A p \in DOMAIN tree : Len(p) = codeLength[tree[p]]

(* What reading keeps step by step, and the code it ends with. *)
CodeInv == PcTypeOK /\ SpaceIsLeft /\ CanonicalCode

(* RFC 7932 section 3.4 of a simple code: "the NSYM symbols may not be presented *)
(* in sorted order.  Prefix codes of the same bit length must be assigned to the *)
(* symbols in sorted order."  DecodeHuffman assigns them as they come.           *)
SimpleCodeSorted ==
  stage = "simple" /\ IsInjective(tree) => Complete(tree) /\ Canonical(tree)
=============================================================================
