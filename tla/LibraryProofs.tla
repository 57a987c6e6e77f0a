---------------------------- MODULE LibraryProofs ----------------------------
(* Proofs about the libraries that own something, each for any values of its   *)
(* constants: sockets (a system socket has one object, whatever fails and is   *)
(* moved, and what an object says of its peer is so), strings and the heap,    *)
(* handles, files under several actors, and the objects of JSON.               *)
EXTENDS Sockets, HeapString, Handles, Files, JsonTree, DataLemmas, FiniteSetTheorems, TLAPS

-----------------------------------------------------------------------------
(* Sockets.                                                                    *)

Addresses == Peers \cup {Unspecified}
States == {"open", "bound", "listening", "connected", "shut", "closed"}
Object == [handle : Nat, family : Families, ip : Addresses, rp : Addresses, lp : BOOLEAN]
Kernel == [state : States, family : Families, peer : Addresses]

SkType == /\ skObject \in [Sockets -> Object]
          /\ skKernel \in Seq(Kernel)
          /\ skMixed \subseteq Sockets
          /\ skDropped \subseteq 1 .. Len(skKernel)
          /\ skStopped \in BOOLEAN

\* What an object holds is open and was not dropped; no two hold the same; and an
\* open socket that was not dropped is held.
SkHolds == \A s \in Sockets : skObject[s].handle # INVALID_SOCKET =>
            /\ skObject[s].handle \in 1 .. Len(skKernel)
            /\ skKernel[skObject[s].handle].state # "closed"
            /\ skObject[s].handle \notin skDropped
SkApart == \A s, t \in Sockets :
            s # t /\ skObject[s].handle # INVALID_SOCKET => skObject[s].handle # skObject[t].handle
SkHeld == \A h \in 1 .. Len(skKernel) :
            skKernel[h].state # "closed" /\ h \notin skDropped => \E s \in Sockets : skObject[s].handle = h

SkInv == SkType /\ SkHolds /\ SkApart /\ SkHeld /\ PeerRecorded

-----------------------------------------------------------------------------
LEMMA SocketInitially == SkInit => SkInv
<1> SUFFICES ASSUME SkInit PROVE SkInv
  OBVIOUS
<1> USE DEF SkInit, Blank, INVALID_SOCKET
<1>1. SkType
  <2>1. skObject \in [Sockets -> Object]
    BY DEF Object, Families, Addresses
  <2>2. skKernel \in Seq(Kernel)
    OBVIOUS
  <2> QED
    BY <2>1, <2>2 DEF SkType
<1>2. SkHolds /\ SkApart /\ SkHeld
  BY DEF SkHolds, SkApart, SkHeld
<1>3. PeerRecorded
  BY DEF PeerRecorded
<1> QED
  BY <1>1, <1>2, <1>3 DEF SkInv

-----------------------------------------------------------------------------
(* How handles and sockets change hands.                                       *)

SkOwned == SkHolds /\ SkApart /\ SkHeld

\* The handles stay where they are.
LEMMA SocketKept ==
  ASSUME SkInv, SkType', UNCHANGED skDropped, Len(skKernel') = Len(skKernel),
         \A s \in Sockets : skObject'[s].handle = skObject[s].handle,
         \A h \in 1 .. Len(skKernel) : (skKernel'[h].state = "closed") <=> (skKernel[h].state = "closed")
  PROVE  SkOwned'
  BY DEF SkInv, SkOwned, SkHolds, SkApart, SkHeld, INVALID_SOCKET

\* A new one is given to s, whose old one, if any, is closed.
LEMMA SocketGiven ==
  ASSUME SkInv, SkType', UNCHANGED skDropped, NEW s \in Sockets,
         Len(skKernel') = Len(skKernel) + 1,
         skObject'[s].handle = Len(skKernel) + 1,
         \A u \in Sockets \ {s} : skObject'[u].handle = skObject[u].handle,
         skKernel'[Len(skKernel) + 1].state # "closed",
         \A h \in 1 .. Len(skKernel) :
            (skKernel'[h].state = "closed") <=> (skKernel[h].state = "closed" \/ h = skObject[s].handle)
  PROVE  SkOwned'
<1> USE DEF INVALID_SOCKET
<1>1. /\ Len(skKernel) \in Nat /\ skDropped \subseteq 1 .. Len(skKernel)
      /\ SkHolds /\ SkApart /\ SkHeld
  BY DEF SkInv, SkType
<1>2. ASSUME NEW u \in Sockets, skObject'[u].handle # 0
      PROVE  /\ skObject'[u].handle \in 1 .. Len(skKernel')
             /\ skKernel'[skObject'[u].handle].state # "closed"
             /\ skObject'[u].handle \notin skDropped
  <2>1. CASE u = s
    BY <1>1, <2>1
  <2>2. CASE u # s
    BY <1>1, <1>2, <2>2 DEF SkHolds, SkApart
  <2> QED
    BY <2>1, <2>2
<1>3. ASSUME NEW u \in Sockets, NEW v \in Sockets, u # v, skObject'[u].handle # 0
      PROVE  skObject'[u].handle # skObject'[v].handle
  <2>1. \A w \in Sockets \ {s} : skObject[w].handle # Len(skKernel) + 1
    BY <1>1 DEF SkHolds
  <2> QED
    BY <1>1, <1>3, <2>1 DEF SkApart
<1>4. ASSUME NEW h \in 1 .. Len(skKernel'), skKernel'[h].state # "closed", h \notin skDropped
      PROVE  \E u \in Sockets : skObject'[u].handle = h
  <2>1. CASE h = Len(skKernel) + 1
    BY <2>1
  <2>2. CASE h # Len(skKernel) + 1
    <3>1. h \in 1 .. Len(skKernel) /\ skKernel[h].state # "closed" /\ h # skObject[s].handle
      BY <1>1, <1>4, <2>2
    <3>2. PICK u \in Sockets : skObject[u].handle = h
      BY <1>1, <1>4, <3>1 DEF SkHeld
    <3> QED
      BY <3>1, <3>2
  <2> QED
    BY <2>1, <2>2
<1> QED
  BY <1>2, <1>3, <1>4 DEF SkOwned, SkHolds, SkApart, SkHeld

\* The one that s has is closed, and s has what t had.
LEMMA SocketPassed ==
  ASSUME SkInv, SkType', UNCHANGED skDropped, NEW s \in Sockets, NEW t \in Sockets, s # t,
         Len(skKernel') = Len(skKernel),
         skObject'[s].handle = skObject[t].handle, skObject'[t].handle = INVALID_SOCKET,
         \A u \in Sockets \ {s, t} : skObject'[u].handle = skObject[u].handle,
         \A h \in 1 .. Len(skKernel) :
            (skKernel'[h].state = "closed") <=> (skKernel[h].state = "closed" \/ h = skObject[s].handle)
  PROVE  SkOwned'
<1> USE DEF INVALID_SOCKET
<1>1. SkHolds /\ SkApart /\ SkHeld
  BY DEF SkInv
<1>2. ASSUME NEW u \in Sockets, skObject'[u].handle # 0
      PROVE  /\ skObject'[u].handle \in 1 .. Len(skKernel')
             /\ skKernel'[skObject'[u].handle].state # "closed"
             /\ skObject'[u].handle \notin skDropped
  <2>1. PICK v \in Sockets \ {s} : skObject'[u].handle = skObject[v].handle
    BY <1>2
  <2> QED
    BY <1>1, <1>2, <2>1 DEF SkHolds, SkApart
<1>3. ASSUME NEW u \in Sockets, NEW v \in Sockets, u # v, skObject'[u].handle # 0
      PROVE  skObject'[u].handle # skObject'[v].handle
  BY <1>1, <1>3 DEF SkApart
<1>4. ASSUME NEW h \in 1 .. Len(skKernel'), skKernel'[h].state # "closed", h \notin skDropped
      PROVE  \E u \in Sockets : skObject'[u].handle = h
  <2>1. h \in 1 .. Len(skKernel) /\ skKernel[h].state # "closed" /\ h # skObject[s].handle
    BY <1>4
  <2>2. PICK u \in Sockets : skObject[u].handle = h
    BY <1>1, <1>4, <2>1 DEF SkHeld
  <2>3. skObject'[IF u = t THEN s ELSE u].handle = h
    BY <2>1, <2>2
  <2> QED
    BY <2>3
<1> QED
  BY <1>2, <1>3, <1>4 DEF SkOwned, SkHolds, SkApart, SkHeld

\* The one that s has is closed, or it is left open and nobody has it.
LEMMA SocketFreed ==
  ASSUME SkInv, SkType', NEW s \in Sockets,
         Len(skKernel') = Len(skKernel),
         skObject'[s].handle = INVALID_SOCKET,
         \A u \in Sockets \ {s} : skObject'[u].handle = skObject[u].handle,
         \/ /\ UNCHANGED skDropped
            /\ \A h \in 1 .. Len(skKernel) :
                 (skKernel'[h].state = "closed") <=> (skKernel[h].state = "closed" \/ h = skObject[s].handle)
         \/ /\ skDropped' = skDropped \cup ({skObject[s].handle} \ {INVALID_SOCKET})
            /\ UNCHANGED skKernel
  PROVE  SkOwned'
<1> USE DEF INVALID_SOCKET
<1>1. SkHolds /\ SkApart /\ SkHeld
  BY DEF SkInv
<1>2. ASSUME NEW u \in Sockets, skObject'[u].handle # 0
      PROVE  /\ skObject'[u].handle \in 1 .. Len(skKernel')
             /\ skKernel'[skObject'[u].handle].state # "closed"
             /\ skObject'[u].handle \notin skDropped'
  <2>1. u # s /\ skObject'[u].handle = skObject[u].handle
    BY <1>2
  <2>2. /\ skObject[u].handle \in 1 .. Len(skKernel) /\ skKernel[skObject[u].handle].state # "closed"
        /\ skObject[u].handle \notin skDropped /\ skObject[u].handle # skObject[s].handle
    BY <1>1, <1>2, <2>1 DEF SkHolds, SkApart
  <2> QED
    BY <2>1, <2>2
<1>3. ASSUME NEW u \in Sockets, NEW v \in Sockets, u # v, skObject'[u].handle # 0
      PROVE  skObject'[u].handle # skObject'[v].handle
  BY <1>1, <1>3 DEF SkApart
<1>4. ASSUME NEW h \in 1 .. Len(skKernel'), skKernel'[h].state # "closed", h \notin skDropped'
      PROVE  \E u \in Sockets : skObject'[u].handle = h
  <2>1. h \in 1 .. Len(skKernel) /\ skKernel[h].state # "closed" /\ h \notin skDropped /\ h # skObject[s].handle
    BY <1>4
  <2>2. PICK u \in Sockets : skObject[u].handle = h
    BY <1>1, <2>1 DEF SkHeld
  <2> QED
    BY <2>1, <2>2
<1> QED
  BY <1>2, <1>3, <1>4 DEF SkOwned, SkHolds, SkApart, SkHeld

-----------------------------------------------------------------------------
(* What one object says of its peer, and when it goes on being so.             *)

Recorded(o, entry, mixed) ==
  IF o.handle = INVALID_SOCKET THEN o.rp = Unspecified /\ o.ip = Unspecified /\ ~o.lp
  ELSE entry.state \in {"connected", "shut"} /\ ~mixed => o.rp = entry.peer /\ o.ip = o.rp /\ o.lp

LEMMA EachRecorded ==
  PeerRecorded <=> \A s \in Sockets : Recorded(skObject[s], skKernel[skObject[s].handle], s \in skMixed)
  BY DEF PeerRecorded, Recorded

\* An object that a step leaves alone, with its socket.
LEMMA StillRecorded ==
  ASSUME SkInv, NEW u \in Sockets, skObject'[u] = skObject[u], u \in skMixed => u \in skMixed',
         skObject[u].handle # INVALID_SOCKET =>
            \/ skKernel'[skObject[u].handle] = skKernel[skObject[u].handle]
            \/ skKernel'[skObject[u].handle].state \notin {"connected", "shut"}
  PROVE  Recorded(skObject'[u], skKernel'[skObject'[u].handle], u \in skMixed')
<1>1. Recorded(skObject[u], skKernel[skObject[u].handle], u \in skMixed)
  BY EachRecorded DEF SkInv
<1> QED
  BY <1>1 DEF Recorded

\* What a step that writes one object and the system's sockets makes of the types.
LEMMA Typed ==
  ASSUME SkInv, NEW s \in Sockets, NEW o \in Object, NEW k \in Seq(Kernel), Become(s, o, k),
         Len(k) \in {Len(skKernel), Len(skKernel) + 1}, skMixed' \subseteq Sockets,
         UNCHANGED skDropped, skStopped' \in BOOLEAN
  PROVE  SkType'
<1>1. skObject' \in [Sockets -> Object]
  BY DEF SkInv, SkType, Become
<1>2. skDropped' \subseteq 1 .. Len(skKernel')
  BY DEF SkInv, SkType, Become
<1> QED
  BY <1>1, <1>2 DEF SkType, Become

\* socket() leaves everything as it is, or gives the object a socket of its own.
LEMMA Opens ==
  ASSUME SkInv, NEW s \in Sockets, NEW open \in Opened(s)
  PROVE  /\ open.object \in Object /\ open.kernel \in Seq(Kernel) /\ open.threw \in BOOLEAN
         /\ \/ /\ open.object = skObject[s] /\ open.kernel = skKernel
               /\ open.threw \/ skObject[s].handle # INVALID_SOCKET
            \/ /\ skObject[s].handle = INVALID_SOCKET
               /\ open.object.handle = Len(skKernel) + 1
               /\ Len(open.kernel) = Len(skKernel) + 1
               /\ open.kernel[Len(skKernel) + 1].state = "open"
               /\ \A h \in 1 .. Len(skKernel) : open.kernel[h] = skKernel[h]
<1>1. skObject[s] \in Object /\ skKernel \in Seq(Kernel) /\ Len(skKernel) \in Nat
  BY DEF SkInv, SkType
<1>2. CASE open.object = skObject[s] /\ open.kernel = skKernel /\ open.threw \in BOOLEAN
           /\ (open.threw \/ skObject[s].handle # INVALID_SOCKET)
  BY <1>1, <1>2
<1>3. CASE /\ skObject[s].handle = INVALID_SOCKET
           /\ open.object = [skObject[s] EXCEPT !.handle = Len(skKernel) + 1]
           /\ open.kernel = Append(skKernel, Fresh(skObject[s].family))
           /\ open.threw \in BOOLEAN
  <2>1. open.object \in Object /\ open.object.handle = Len(skKernel) + 1
    BY <1>1, <1>3 DEF Object
  <2>2. Fresh(skObject[s].family) \in Kernel /\ Fresh(skObject[s].family).state = "open"
    BY <1>1 DEF Fresh, Kernel, Object, States, Addresses
  <2>3. open.kernel \in Seq(Kernel)
    BY <1>1, <1>3, <2>2
  <2> QED
    BY <1>1, <1>3, <2>1, <2>2, <2>3
<1>4. CASE open = [object |-> skObject[s], kernel |-> skKernel, threw |-> skObject[s].handle = INVALID_SOCKET]
  <2>1. open.object = skObject[s] /\ open.kernel = skKernel
    BY <1>4
  <2>2. open.threw = (skObject[s].handle = INVALID_SOCKET)
    BY <1>4
  <2> QED
    BY <1>2, <2>1, <2>2
<1>5. ASSUME skObject[s].handle = INVALID_SOCKET, NEW threw \in BOOLEAN,
             open = [object |-> [skObject[s] EXCEPT !.handle = Len(skKernel) + 1],
                     kernel |-> Append(skKernel, Fresh(skObject[s].family)), threw |-> threw]
      PROVE  /\ open.object = [skObject[s] EXCEPT !.handle = Len(skKernel) + 1]
             /\ open.kernel = Append(skKernel, Fresh(skObject[s].family))
             /\ open.threw \in BOOLEAN
  <2>1. open.object = [skObject[s] EXCEPT !.handle = Len(skKernel) + 1]
    BY <1>5
  <2>2. open.kernel = Append(skKernel, Fresh(skObject[s].family))
    BY <1>5
  <2>3. open.threw \in BOOLEAN
    BY <1>5
  <2> QED
    BY <2>1, <2>2, <2>3
<1>6. \/ open = [object |-> skObject[s], kernel |-> skKernel, threw |-> skObject[s].handle = INVALID_SOCKET]
      \/ /\ skObject[s].handle = INVALID_SOCKET
         /\ \E threw \in BOOLEAN :
              open = [object |-> [skObject[s] EXCEPT !.handle = Len(skKernel) + 1],
                      kernel |-> Append(skKernel, Fresh(skObject[s].family)), threw |-> threw]
  <2>1. CASE skObject[s].handle # INVALID_SOCKET
    <3>1. open = [object |-> skObject[s], kernel |-> skKernel, threw |-> FALSE]
      BY <2>1, Zenon DEF Opened
    <3>2. (skObject[s].handle = INVALID_SOCKET) = FALSE
      BY <2>1
    <3> QED
      BY <3>1, <3>2, Zenon
  <2>2. CASE skObject[s].handle = INVALID_SOCKET
    <3>1. (skObject[s].handle = INVALID_SOCKET) = TRUE
      BY <2>2
    <3>2. open = [object |-> skObject[s], kernel |-> skKernel, threw |-> TRUE]
          \/ \E threw \in {FALSE} \cup {skObject[s].family = "AF_INET6"} :
              open = [object |-> [skObject[s] EXCEPT !.handle = Len(skKernel) + 1],
                      kernel |-> Append(skKernel, Fresh(skObject[s].family)), threw |-> threw]
      BY <2>2, Zenon DEF Opened
    <3>3. {FALSE} \cup {skObject[s].family = "AF_INET6"} \subseteq BOOLEAN
      BY Zenon
    <3> QED
      BY <2>2, <3>1, <3>2, <3>3, Zenon
  <2> QED
    BY <2>1, <2>2, Zenon
<1> QED
  BY <1>2, <1>3, <1>4, <1>5, <1>6, Zenon

\* A step that opens s, if need be, and closes nothing.
LEMMA OpenOwned ==
  ASSUME SkInv, SkType', UNCHANGED skDropped, NEW s \in Sockets, NEW open \in Opened(s), NEW o, NEW k,
         Become(s, o, k), o.handle = open.object.handle, Len(k) = Len(open.kernel),
         \A h \in 1 .. Len(k) : (k[h].state = "closed") <=> (open.kernel[h].state = "closed")
  PROVE  SkOwned'
<1> USE DEF INVALID_SOCKET
<1>1. /\ skObject'[s] = o /\ skKernel' = k /\ Len(skKernel) \in Nat
      /\ \A u \in Sockets \ {s} : skObject'[u] = skObject[u]
  BY DEF Become, SkInv, SkType
<1>2. CASE open.object = skObject[s] /\ open.kernel = skKernel
  <2>1. \A u \in Sockets : skObject'[u].handle = skObject[u].handle
    BY <1>1, <1>2
  <2> QED
    BY <1>1, <1>2, <2>1, SocketKept
<1>3. CASE /\ skObject[s].handle = INVALID_SOCKET
           /\ open.object.handle = Len(skKernel) + 1
           /\ Len(open.kernel) = Len(skKernel) + 1
           /\ open.kernel[Len(skKernel) + 1].state = "open"
           /\ \A h \in 1 .. Len(skKernel) : open.kernel[h] = skKernel[h]
  <2>1. skKernel'[Len(skKernel) + 1].state # "closed"
    BY <1>1, <1>3
  <2>2. \A h \in 1 .. Len(skKernel) :
          (skKernel'[h].state = "closed") <=> (skKernel[h].state = "closed" \/ h = skObject[s].handle)
    BY <1>1, <1>3
  <2> QED
    BY <1>1, <1>3, <2>1, <2>2, SocketGiven
<1> QED
  BY <1>2, <1>3, Opens

-----------------------------------------------------------------------------
(* One lemma for each operation.                                               *)

Steady == SkType' /\ SkOwned' /\ PeerRecorded'

\* What only concerns s: the other objects stay, and so do their sockets.
LEMMA OthersRecorded ==
  ASSUME SkInv, NEW s \in Sockets, skMixed \ {s} \subseteq skMixed',
         \A u \in Sockets \ {s} : skObject'[u] = skObject[u],
         \A h \in 1 .. Len(skKernel) : h # skObject[s].handle => skKernel'[h] = skKernel[h],
         Recorded(skObject'[s], skKernel'[skObject'[s].handle], s \in skMixed')
  PROVE  PeerRecorded'
<1>1. ASSUME NEW u \in Sockets \ {s}
      PROVE  Recorded(skObject'[u], skKernel'[skObject'[u].handle], u \in skMixed')
  <2>1. skObject[u].handle # INVALID_SOCKET =>
          skObject[u].handle \in 1 .. Len(skKernel) /\ skObject[u].handle # skObject[s].handle
    BY DEF SkInv, SkHolds, SkApart
  <2>2. skObject'[u] = skObject[u] /\ (u \in skMixed => u \in skMixed')
    OBVIOUS
  <2>3. skObject[u].handle # INVALID_SOCKET => skKernel'[skObject[u].handle] = skKernel[skObject[u].handle]
    BY <2>1
  <2> QED
    BY <2>2, <2>3, StillRecorded
<1>2. \A u \in Sockets : Recorded(skObject'[u], skKernel'[skObject'[u].handle], u \in skMixed')
  BY <1>1
<1> QED
  BY <1>2 DEF PeerRecorded, Recorded

\* socket(), bind() and connect(): what they leave of s and of the sockets.
LEMMA OpenSteady ==
  ASSUME SkInv, NEW s \in Sockets, NEW open \in Opened(s), NEW o \in Object, NEW k \in Seq(Kernel),
         Become(s, o, k), o.handle = open.object.handle, Len(k) = Len(open.kernel),
         \A h \in 1 .. Len(k) :
            /\ (k[h].state = "closed") <=> (open.kernel[h].state = "closed")
            /\ h # o.handle => k[h] = open.kernel[h],
         skMixed' \subseteq Sockets, skMixed \ {s} \subseteq skMixed',
         UNCHANGED <<skDropped, skStopped>>,
         Recorded(o, k[o.handle], s \in skMixed')
  PROVE  Steady
<1> USE DEF INVALID_SOCKET
<1>1. /\ skObject'[s] = o /\ skKernel' = k /\ Len(skKernel) \in Nat /\ skStopped' \in BOOLEAN
      /\ \A u \in Sockets \ {s} : skObject'[u] = skObject[u]
  BY DEF Become, SkInv, SkType
<1>2. Len(k) \in {Len(skKernel), Len(skKernel) + 1}
  BY Opens, <1>1
<1>3. SkType'
  BY <1>1, <1>2, Typed
<1>4. SkOwned'
  BY <1>3, OpenOwned
<1>5. \A h \in 1 .. Len(skKernel) : h # skObject[s].handle => skKernel'[h] = skKernel[h]
  <2>1. CASE open.object = skObject[s] /\ open.kernel = skKernel
    BY <1>1, <2>1
  <2>2. CASE /\ open.object.handle = Len(skKernel) + 1
             /\ Len(open.kernel) = Len(skKernel) + 1
             /\ \A h \in 1 .. Len(skKernel) : open.kernel[h] = skKernel[h]
    BY <1>1, <2>2
  <2> QED
    BY <2>1, <2>2, Opens
<1>6. PeerRecorded'
  BY <1>1, <1>5, OthersRecorded
<1> QED
  BY <1>3, <1>4, <1>6 DEF Steady

\* What opening alone leaves of s is so.
LEMMA OpenedRecorded ==
  ASSUME SkInv, NEW s \in Sockets, NEW open \in Opened(s)
  PROVE  Recorded(open.object, open.kernel[open.object.handle], s \in skMixed)
<1>1. CASE open.object = skObject[s] /\ open.kernel = skKernel
  BY <1>1, EachRecorded DEF SkInv
<1>2. CASE /\ open.object.handle = Len(skKernel) + 1
           /\ open.kernel[Len(skKernel) + 1].state = "open"
  <2>1. open.object.handle # INVALID_SOCKET
    BY <1>2 DEF SkInv, SkType, INVALID_SOCKET
  <2> QED
    BY <1>2, <2>1 DEF Recorded
<1> QED
  BY <1>1, <1>2, Opens

LEMMA OpenAlone ==
  ASSUME SkInv, NEW s \in Sockets, NEW open \in Opened(s), Become(s, open.object, open.kernel),
         UNCHANGED <<skMixed, skDropped, skStopped>>
  PROVE  Steady
<1>1. open.object \in Object /\ open.kernel \in Seq(Kernel)
  BY Opens
<1>2. skMixed' \subseteq Sockets /\ skMixed' = skMixed
  BY DEF SkInv, SkType
<1>3. Recorded(open.object, open.kernel[open.object.handle], s \in skMixed')
  BY <1>2, OpenedRecorded
<1> QED
  BY <1>1, <1>2, <1>3, OpenSteady

LEMMA SocketSteady == ASSUME SkInv, NEW s \in Sockets, Socket(s) PROVE Steady
<1>1. PICK open \in Opened(s) : Become(s, open.object, open.kernel)
  BY DEF Socket
<1>2. UNCHANGED <<skMixed, skDropped, skStopped>>
  BY DEF Socket
<1> QED
  BY <1>1, <1>2, OpenAlone

LEMMA BindSteady == ASSUME SkInv, NEW s \in Sockets, NEW addr \in Peers, Bind(s, addr) PROVE Steady
<1> USE DEF INVALID_SOCKET
<1>1. PICK open \in Opened(s), ok \in BOOLEAN :
        LET h == open.object.handle
            bound == ~open.threw /\ ok /\ open.kernel[h].state = "open"
        IN /\ IF open.threw THEN Become(s, open.object, open.kernel)
              ELSE Become(s, [open.object EXCEPT !.ip = addr, !.lp = TRUE],
                          IF bound THEN [open.kernel EXCEPT ![h].state = "bound"] ELSE open.kernel)
           /\ skMixed' = IF bound \/ open.threw THEN skMixed ELSE skMixed \cup {s}
  BY Zenon DEF Bind
<1>2. UNCHANGED <<skDropped, skStopped>>
  BY DEF Bind
<1> DEFINE h == open.object.handle
           bound == ~open.threw /\ ok /\ open.kernel[h].state = "open"
           o == [open.object EXCEPT !.ip = addr, !.lp = TRUE]
           k == IF bound THEN [open.kernel EXCEPT ![h].state = "bound"] ELSE open.kernel
<1>3. /\ open.object \in Object /\ open.kernel \in Seq(Kernel) /\ open.threw \in BOOLEAN
      /\ ~open.threw => h \in 1 .. Len(open.kernel)
  BY Opens DEF SkInv, SkType, SkHolds
<1>4. CASE open.threw
  <2>1. Become(s, open.object, open.kernel) /\ skMixed' = skMixed
    BY <1>1, <1>4
  <2> QED
    BY <1>2, <2>1, OpenAlone
<1>5. CASE ~open.threw
  <2>1. Become(s, o, k) /\ skMixed' = IF bound THEN skMixed ELSE skMixed \cup {s}
    BY <1>1, <1>5, Zenon
  <2>2. o \in Object /\ o.handle = h /\ h # 0
    <3>1. addr \in Addresses
      BY DEF Addresses
    <3>2. o \in Object
      BY <1>3, <3>1 DEF Object
    <3>3. o.handle = h
      BY <1>3 DEF Object
    <3> QED
      BY <1>3, <1>5, <3>2, <3>3
  <2>3. /\ k \in Seq(Kernel) /\ Len(k) = Len(open.kernel)
        /\ \A i \in 1 .. Len(k) : (k[i].state = "closed") <=> (open.kernel[i].state = "closed")
        /\ \A i \in 1 .. Len(k) : i # h => k[i] = open.kernel[i]
        /\ bound => k[h].state = "bound"
    <3>1. CASE ~bound
      BY <1>3, <3>1
    <3>2. CASE bound
      <4>1. [open.kernel[h] EXCEPT !.state = "bound"] \in Kernel
        <5>1. open.kernel[h] \in Kernel
          BY <1>3, <1>5
        <5> QED
          BY <5>1 DEF Kernel, States
      <4>2. k = [open.kernel EXCEPT ![h] = [open.kernel[h] EXCEPT !.state = "bound"]]
        BY <3>2
      <4>3. [open.kernel[h] EXCEPT !.state = "bound"].state = "bound"
        BY <1>3, <1>5 DEF Kernel
      <4> HIDE DEF k
      <4>4. k \in Seq(Kernel) /\ Len(k) = Len(open.kernel)
        BY <1>3, <1>5, <4>1, <4>2
      <4> QED
        BY <1>3, <1>5, <3>2, <4>2, <4>3, <4>4
    <3> QED
      BY <3>1, <3>2
  <2>4. skMixed' \subseteq Sockets /\ skMixed \ {s} \subseteq skMixed' /\ (~bound => s \in skMixed')
    BY <2>1 DEF SkInv, SkType
  <2>5. Recorded(o, k[o.handle], s \in skMixed')
    <3> HIDE DEF o, k, bound
    <3> QED
      BY <2>2, <2>3, <2>4 DEF Recorded
  <2> HIDE DEF o, k, bound
  <2> QED
    BY <1>2, <2>1, <2>2, <2>3, <2>4, <2>5, OpenSteady
<1> QED
  BY <1>3, <1>4, <1>5

LEMMA ConnectSteady == ASSUME SkInv, NEW s \in Sockets, NEW addr \in Peers, Connect(s, addr) PROVE Steady
<1> USE DEF INVALID_SOCKET
<1>1. PICK open \in Opened(s), ok \in BOOLEAN :
        LET h == open.object.handle
            connected == ~open.threw /\ ok /\ open.kernel[h].state \in {"open", "bound"}
        IN /\ IF open.threw THEN Become(s, open.object, open.kernel)
              ELSE Become(s, [open.object EXCEPT !.ip = addr, !.rp = addr, !.lp = connected \/ @],
                          IF connected
                          THEN [open.kernel EXCEPT ![h].state = "connected", ![h].peer = addr]
                          ELSE open.kernel)
           /\ skMixed' = IF connected THEN skMixed \ {s}
                         ELSE IF open.threw THEN skMixed ELSE skMixed \cup {s}
  BY Zenon DEF Connect
<1>2. UNCHANGED <<skDropped, skStopped>>
  BY DEF Connect
<1> DEFINE h == open.object.handle
           connected == ~open.threw /\ ok /\ open.kernel[h].state \in {"open", "bound"}
           o == [open.object EXCEPT !.ip = addr, !.rp = addr, !.lp = connected \/ @]
           k == IF connected THEN [open.kernel EXCEPT ![h].state = "connected", ![h].peer = addr]
                ELSE open.kernel
<1>3. /\ open.object \in Object /\ open.kernel \in Seq(Kernel) /\ open.threw \in BOOLEAN
      /\ ~open.threw => h \in 1 .. Len(open.kernel)
  BY Opens DEF SkInv, SkType, SkHolds
<1>4. CASE open.threw
  <2>1. Become(s, open.object, open.kernel) /\ skMixed' = skMixed
    BY <1>1, <1>4
  <2> QED
    BY <1>2, <2>1, OpenAlone
<1>5. CASE ~open.threw
  <2>1. Become(s, o, k) /\ skMixed' = IF connected THEN skMixed \ {s} ELSE skMixed \cup {s}
    BY <1>1, <1>5, Zenon
  <2>2. addr \in Addresses
    BY DEF Addresses
  <2>3. o \in Object /\ o.handle = h /\ h # 0 /\ o.ip = addr /\ o.rp = addr /\ (connected => o.lp)
    <3>1. connected \in BOOLEAN
      BY DEF connected
    <3> HIDE DEF connected
    <3>2. o \in Object
      BY <1>3, <2>2, <3>1 DEF Object
    <3>3. o.handle = h /\ o.ip = addr /\ o.rp = addr
      BY <1>3 DEF Object
    <3>4. connected => o.lp
      BY <1>3, <3>1 DEF Object
    <3> QED
      BY <1>3, <1>5, <3>2, <3>3, <3>4
  <2>4. /\ k \in Seq(Kernel) /\ Len(k) = Len(open.kernel)
        /\ \A i \in 1 .. Len(k) : (k[i].state = "closed") <=> (open.kernel[i].state = "closed")
        /\ \A i \in 1 .. Len(k) : i # h => k[i] = open.kernel[i]
        /\ connected => k[h].peer = addr
    <3>1. CASE ~connected
      BY <1>3, <3>1
    <3>2. CASE connected
      <4> DEFINE entry == [open.kernel[h] EXCEPT !.state = "connected", !.peer = addr]
      <4>1. open.kernel[h] \in Kernel /\ open.kernel[h].state # "closed"
        BY <1>3, <1>5, <3>2
      <4>2. entry \in Kernel /\ entry.state = "connected" /\ entry.peer = addr
        BY <2>2, <4>1 DEF Kernel, States
      <4>3. k = [open.kernel EXCEPT ![h] = entry]
        BY <1>3, <1>5, <3>2, <4>1 DEF Kernel
      <4> HIDE DEF k, entry
      <4>4. k \in Seq(Kernel) /\ Len(k) = Len(open.kernel)
        BY <1>3, <1>5, <4>2, <4>3
      <4> QED
        BY <1>3, <1>5, <4>1, <4>2, <4>3, <4>4
    <3> QED
      BY <3>1, <3>2
  <2>5. skMixed' \subseteq Sockets /\ skMixed \ {s} \subseteq skMixed' /\ (~connected => s \in skMixed')
    BY <2>1 DEF SkInv, SkType
  <2> HIDE DEF o, k, connected
  <2>6. Recorded(o, k[o.handle], s \in skMixed')
    BY <2>3, <2>4, <2>5 DEF Recorded
  <2> QED
    BY <1>2, <2>1, <2>3, <2>4, <2>5, <2>6, OpenSteady
<1> QED
  BY <1>3, <1>4, <1>5

-----------------------------------------------------------------------------
\* closesocket(): one socket is closed, if there is one.
LEMMA ShutKernel ==
  ASSUME NEW k \in Seq(Kernel), NEW h \in 0 .. Len(k)
  PROVE  /\ Shut(k, h) \in Seq(Kernel) /\ Len(Shut(k, h)) = Len(k)
         /\ \A i \in 1 .. Len(k) : (Shut(k, h)[i].state = "closed") <=> (k[i].state = "closed" \/ i = h)
         /\ \A i \in 1 .. Len(k) : i # h => Shut(k, h)[i] = k[i]
<1> USE DEF INVALID_SOCKET
<1>1. CASE h = 0
  BY <1>1 DEF Shut
<1>2. CASE h # 0
  <2> DEFINE entry == [k[h] EXCEPT !.state = "closed"]
  <2>1. k[h] \in Kernel
    BY <1>2
  <2>2. entry \in Kernel /\ entry.state = "closed"
    BY <2>1 DEF Kernel, States
  <2>3. Shut(k, h) = [k EXCEPT ![h] = entry]
    BY <1>2 DEF Shut
  <2> HIDE DEF entry
  <2> QED
    BY <1>2, <2>2, <2>3
<1> QED
  BY <1>1, <1>2

LEMMA ClosedFields ==
  ASSUME NEW o \in Object
  PROVE  /\ Closed(o) \in Object /\ Closed(o).handle = INVALID_SOCKET
         /\ Closed(o).rp = Unspecified /\ Closed(o).ip = Unspecified /\ Closed(o).lp = FALSE
  BY DEF Closed, Blank, Object, Addresses, INVALID_SOCKET

\* close(), and read() and write() when the system refuses them.
LEMMA CloseLike ==
  ASSUME SkInv, NEW s \in Sockets, skObject[s].handle # INVALID_SOCKET,
         Become(s, Closed(skObject[s]), Shut(skKernel, skObject[s].handle)),
         skMixed' = skMixed \ {s}, UNCHANGED <<skDropped, skStopped>>
  PROVE  Steady
<1> USE DEF INVALID_SOCKET
<1>1. skObject[s] \in Object /\ skKernel \in Seq(Kernel) /\ skObject[s].handle \in 0 .. Len(skKernel)
      /\ skStopped' \in BOOLEAN /\ skMixed' \subseteq Sockets /\ Len(skKernel) \in Nat
  BY DEF SkInv, SkType, SkHolds
<1>2. /\ skObject'[s] = Closed(skObject[s]) /\ skKernel' = Shut(skKernel, skObject[s].handle)
      /\ \A u \in Sockets \ {s} : skObject'[u] = skObject[u]
  BY DEF Become, SkInv, SkType
<1>3. SkType'
  BY <1>1, ShutKernel, ClosedFields, Typed
<1>4. SkOwned'
  BY <1>1, <1>2, <1>3, ShutKernel, ClosedFields, SocketFreed
<1>5. Recorded(skObject'[s], skKernel'[skObject'[s].handle], s \in skMixed')
  BY <1>1, <1>2, ClosedFields DEF Recorded
<1>6. PeerRecorded'
  BY <1>1, <1>2, <1>5, ShutKernel, OthersRecorded
<1> QED
  BY <1>3, <1>4, <1>6 DEF Steady

LEMMA CloseSteady == ASSUME SkInv, NEW s \in Sockets, Close(s) \/ read(s) \/ write(s) PROVE Steady
<1>1. \A result : Use(s, result) => Steady
  BY CloseLike DEF Use
<1>2. Close(s) => Steady
  BY CloseLike DEF Close
<1> QED
  BY <1>1, <1>2 DEF read, write

\* The family, listening and shutting down: one record, neither handle nor closing.
LEMMA SetFamilySteady ==
  ASSUME SkInv, NEW s \in Sockets, NEW family \in Families, SetFamily(s, family) PROVE Steady
<1> USE DEF INVALID_SOCKET
<1> DEFINE o == [skObject[s] EXCEPT !.family = family]
<1>1. skObject[s] \in Object /\ skKernel \in Seq(Kernel) /\ Len(skKernel) \in Nat
      /\ skMixed \subseteq Sockets /\ skStopped \in BOOLEAN
  BY DEF SkInv, SkType
<1>2. o \in Object /\ o.handle = 0 /\ o.ip = skObject[s].ip /\ o.rp = skObject[s].rp /\ o.lp = skObject[s].lp
  BY <1>1 DEF Object, SetFamily
<1>3. Become(s, o, skKernel)
  BY DEF SetFamily, Become
<1>4. /\ UNCHANGED <<skKernel, skMixed, skDropped, skStopped>> /\ skObject[s].handle = 0
      /\ skObject'[s] = o /\ \A u \in Sockets \ {s} : skObject'[u] = skObject[u]
  BY DEF SetFamily, SkInv, SkType
<1> HIDE DEF o
<1>5. SkType'
  BY <1>1, <1>2, <1>3, <1>4, Typed
<1>6. SkOwned'
  <2>1. \A u \in Sockets : skObject'[u].handle = skObject[u].handle
    BY <1>2, <1>4
  <2> QED
    BY <1>4, <1>5, <2>1, SocketKept
<1>7. Recorded(skObject[s], skKernel[skObject[s].handle], s \in skMixed)
  BY EachRecorded DEF SkInv
<1>8. Recorded(o, skKernel'[o.handle], s \in skMixed')
  BY <1>2, <1>4, <1>7 DEF Recorded
<1>9. PeerRecorded'
  BY <1>4, <1>8, OthersRecorded
<1> QED
  BY <1>5, <1>6, <1>9 DEF Steady

LEMMA StateLike ==
  ASSUME SkInv, NEW s \in Sockets, NEW state, skObject[s].handle # INVALID_SOCKET,
         state = "listening" \/ (state = "shut" /\ skKernel[skObject[s].handle].state = "connected"),
         skKernel' = [skKernel EXCEPT ![skObject[s].handle].state = state],
         UNCHANGED <<skObject, skMixed, skDropped, skStopped>>
  PROVE  Steady
<1> USE DEF INVALID_SOCKET
<1> DEFINE h == skObject[s].handle
           entry == [skKernel[h] EXCEPT !.state = state]
<1>1. /\ skObject[s] \in Object /\ skKernel \in Seq(Kernel) /\ Len(skKernel) \in Nat
      /\ h \in 1 .. Len(skKernel) /\ skKernel[h].state # "closed"
      /\ skMixed' \subseteq Sockets /\ skStopped' \in BOOLEAN
      /\ skObject \in [Sockets -> Object]
  BY DEF SkInv, SkType, SkHolds
<1>2. skKernel[h] \in Kernel
  BY <1>1
<1>3. entry \in Kernel /\ entry.state = state /\ entry.peer = skKernel[h].peer
  BY <1>2 DEF Kernel, States
<1>4. skKernel' = [skKernel EXCEPT ![h] = entry]
  BY <1>1
<1> HIDE DEF entry
<1>5. /\ skKernel' \in Seq(Kernel) /\ Len(skKernel') = Len(skKernel)
      /\ skKernel'[h] = entry
      /\ \A i \in 1 .. Len(skKernel) : i # h => skKernel'[i] = skKernel[i]
  BY <1>1, <1>3, <1>4
<1>6. Become(s, skObject[s], skKernel')
  BY <1>1 DEF Become
<1>7. SkType'
  BY <1>1, <1>5, <1>6, Typed
<1>8. SkOwned'
  <2>1. \A i \in 1 .. Len(skKernel) : (skKernel'[i].state = "closed") <=> (skKernel[i].state = "closed")
    BY <1>1, <1>3, <1>5
  <2> QED
    BY <1>5, <1>7, <2>1, SocketKept
<1>9. Recorded(skObject[s], skKernel[h], s \in skMixed)
  BY EachRecorded DEF SkInv
<1>10. Recorded(skObject'[s], skKernel'[skObject'[s].handle], s \in skMixed')
  BY <1>1, <1>3, <1>5, <1>9 DEF Recorded
<1>11. PeerRecorded'
  BY <1>1, <1>5, <1>10, OthersRecorded
<1> QED
  BY <1>7, <1>8, <1>11 DEF Steady

LEMMA ListenSteady == ASSUME SkInv, NEW s \in Sockets, Listen(s) \/ Shutdown(s) PROVE Steady
<1>1. Listen(s) => Steady
  BY StateLike DEF Listen
<1>2. Shutdown(s) => Steady
  BY StateLike DEF Shutdown
<1> QED
  BY <1>1, <1>2

LEMMA DropSteady == ASSUME SkInv, NEW s \in Sockets, Drop(s) PROVE Steady
<1> USE DEF INVALID_SOCKET
<1>1. /\ skObject[s] \in Object /\ skKernel \in Seq(Kernel) /\ Len(skKernel) \in Nat
      /\ skObject[s].handle \in 0 .. Len(skKernel) /\ skObject \in [Sockets -> Object]
      /\ skDropped \subseteq 1 .. Len(skKernel) /\ skMixed \subseteq Sockets /\ skStopped \in BOOLEAN
  BY DEF SkInv, SkType, SkHolds
<1> DEFINE o == Blank("AF_INET6")
<1>2. /\ o \in Object /\ o.handle = 0 /\ o.rp = Unspecified /\ o.ip = Unspecified /\ o.lp = FALSE
  BY DEF Blank, Object, Addresses, Families
<1> HIDE DEF o
<1>3. /\ skObject' = [skObject EXCEPT ![s] = o] /\ UNCHANGED <<skKernel, skStopped>>
      /\ skDropped' = skDropped \cup ({skObject[s].handle} \ {0}) /\ skMixed' = skMixed \ {s}
  BY DEF Drop, o
<1>4. /\ skObject' \in [Sockets -> Object] /\ skObject'[s] = o
      /\ \A u \in Sockets \ {s} : skObject'[u] = skObject[u]
  BY <1>1, <1>2, <1>3
<1>5. SkType'
  <2>1. ASSUME NEW h \in skDropped' PROVE h \in 1 .. Len(skKernel)
    BY <1>1, <1>3
  <2>2. skDropped' \subseteq 1 .. Len(skKernel') /\ skKernel' = skKernel
    BY <1>3, <2>1, Zenon
  <2> QED
    BY <1>1, <1>3, <1>4, <2>2 DEF SkType
<1>6. SkOwned'
  BY <1>2, <1>3, <1>4, <1>5, SocketFreed
<1>7. Recorded(skObject'[s], skKernel'[skObject'[s].handle], s \in skMixed')
  BY <1>2, <1>4 DEF Recorded
<1>8. PeerRecorded'
  BY <1>3, <1>4, <1>7, OthersRecorded
<1> QED
  BY <1>5, <1>6, <1>8 DEF Steady

LEMMA TakenFields ==
  ASSUME NEW t \in Sockets, skObject \in [Sockets -> Object], NEW from \in Object
  PROVE  /\ Taken(t, from) \in Object /\ Taken(t, from).handle = from.handle
         /\ Taken(t, from).ip = from.ip /\ Taken(t, from).rp = from.rp /\ Taken(t, from).lp = from.lp
  BY DEF Taken, Object

LEMMA MoveSteady == ASSUME SkInv, NEW s \in Sockets, NEW t \in Sockets, Move(s, t) PROVE Steady
<1> USE DEF INVALID_SOCKET
<1>1. /\ skObject \in [Sockets -> Object] /\ skObject[s] \in Object /\ skObject[t] \in Object
      /\ skKernel \in Seq(Kernel) /\ Len(skKernel) \in Nat
      /\ skObject[t].handle \in 0 .. Len(skKernel)
      /\ skMixed \subseteq Sockets /\ skDropped \subseteq 1 .. Len(skKernel)
  BY DEF SkInv, SkType, SkHolds
<1> DEFINE o == Taken(t, skObject[s])
           c == Closed(skObject[s])
<1>2. /\ o \in Object /\ o.handle = skObject[s].handle
      /\ o.ip = skObject[s].ip /\ o.rp = skObject[s].rp /\ o.lp = skObject[s].lp
  BY <1>1, TakenFields
<1>3. c \in Object /\ c.handle = 0 /\ c.rp = Unspecified /\ c.ip = Unspecified /\ c.lp = FALSE
  BY <1>1, ClosedFields
<1>4. /\ s # t /\ skObject' = [skObject EXCEPT ![t] = o, ![s] = c]
      /\ skKernel' = Shut(skKernel, skObject[t].handle)
      /\ skStopped' \in BOOLEAN /\ UNCHANGED skDropped
      /\ skMixed' = (skMixed \ {s, t}) \cup (IF s \in skMixed THEN {t} ELSE {})
  <2>1. s # t
    BY DEF Move
  <2>2. skObject' = [skObject EXCEPT ![t] = o, ![s] = c]
    BY <1>1, <2>1 DEF Move
  <2>3. skStopped' \in BOOLEAN
    BY Zenon DEF Move
  <2> QED
    BY <2>1, <2>2, <2>3 DEF Move
<1> HIDE DEF o, c
<1>5. /\ skObject' \in [Sockets -> Object] /\ skObject'[t] = o /\ skObject'[s] = c
      /\ \A u \in Sockets \ {s, t} : skObject'[u] = skObject[u]
  BY <1>1, <1>2, <1>3, <1>4
<1>6. /\ skKernel' \in Seq(Kernel) /\ Len(skKernel') = Len(skKernel)
      /\ \A i \in 1 .. Len(skKernel) :
           (skKernel'[i].state = "closed") <=> (skKernel[i].state = "closed" \/ i = skObject[t].handle)
      /\ \A i \in 1 .. Len(skKernel) : i # skObject[t].handle => skKernel'[i] = skKernel[i]
  BY <1>1, <1>4, ShutKernel
<1>7. SkType'
  <2>1. skMixed' \subseteq Sockets
    BY <1>1, <1>4
  <2> QED
    BY <1>1, <1>4, <1>5, <1>6, <2>1 DEF SkType
<1>8. SkOwned'
  BY <1>2, <1>3, <1>4, <1>5, <1>6, <1>7, SocketPassed
<1>9. \A u \in Sockets : skObject[u].handle # 0 =>
        skObject[u].handle \in 1 .. Len(skKernel) /\ (u # t => skObject[u].handle # skObject[t].handle)
  BY DEF SkInv, SkHolds, SkApart
<1>10. ASSUME NEW u \in Sockets
       PROVE  Recorded(skObject'[u], skKernel'[skObject'[u].handle], u \in skMixed')
  <2>1. CASE u = s
    BY <1>3, <1>5, <2>1 DEF Recorded
  <2>2. CASE u = t
    <3>1. Recorded(skObject[s], skKernel[skObject[s].handle], s \in skMixed)
      BY EachRecorded DEF SkInv
    <3>2. skObject[s].handle # 0 => skKernel'[skObject[s].handle] = skKernel[skObject[s].handle]
      BY <1>4, <1>6, <1>9
    <3>3. s \in skMixed => t \in skMixed'
      BY <1>4
    <3> QED
      BY <1>2, <1>5, <2>2, <3>1, <3>2, <3>3 DEF Recorded
  <2>3. CASE u \notin {s, t}
    <3>1. skObject'[u] = skObject[u] /\ (u \in skMixed => u \in skMixed')
      BY <1>4, <1>5, <2>3
    <3>2. skObject[u].handle # 0 => skKernel'[skObject[u].handle] = skKernel[skObject[u].handle]
      BY <1>6, <1>9, <2>3
    <3> QED
      BY <3>1, <3>2, StillRecorded
  <2> QED
    BY <2>1, <2>2, <2>3
<1>11. PeerRecorded'
  BY <1>10 DEF PeerRecorded, Recorded
<1> QED
  BY <1>7, <1>8, <1>11 DEF Steady

LEMMA AcceptSteady ==
  ASSUME SkInv, NEW s \in Sockets, NEW t \in Sockets, NEW addr \in Peers, Accept(s, t, addr) PROVE Steady
<1> USE DEF INVALID_SOCKET
<1>1. /\ skObject \in [Sockets -> Object] /\ skObject[t] \in Object
      /\ skKernel \in Seq(Kernel) /\ Len(skKernel) \in Nat
      /\ skObject[t].handle \in 0 .. Len(skKernel) /\ skObject[s].handle \in 1 .. Len(skKernel)
      /\ skMixed \subseteq Sockets
  BY DEF SkInv, SkType, SkHolds, Accept
<1> DEFINE n == Len(skKernel) + 1
           family == skKernel[skObject[s].handle].family
           from == [handle |-> n, family |-> family, ip |-> addr, rp |-> addr, lp |-> TRUE]
           entry == [state |-> "connected", family |-> family, peer |-> addr]
           o == Taken(t, from)
           shut == Shut(skKernel, skObject[t].handle)
<1>2. from \in Object /\ entry \in Kernel
  <2>1. skKernel[skObject[s].handle] \in Kernel
    BY <1>1
  <2>2. family \in Families /\ addr \in Addresses
    BY <2>1 DEF Kernel, Addresses
  <2> QED
    BY <1>1, <2>2 DEF Object, Kernel, States
<1>3. o \in Object /\ o.handle = n /\ o.ip = addr /\ o.rp = addr /\ o.lp = TRUE
  BY <1>1, <1>2, TakenFields
<1>4. entry.state = "connected" /\ entry.peer = addr
  OBVIOUS
<1>5. /\ shut \in Seq(Kernel) /\ Len(shut) = Len(skKernel)
      /\ \A i \in 1 .. Len(skKernel) :
           (shut[i].state = "closed") <=> (skKernel[i].state = "closed" \/ i = skObject[t].handle)
      /\ \A i \in 1 .. Len(skKernel) : i # skObject[t].handle => shut[i] = skKernel[i]
  BY <1>1, ShutKernel
<1>6. Become(t, o, Append(shut, entry))
  BY DEF Accept, Become
<1>7. skMixed' = skMixed \ {t} /\ UNCHANGED skDropped /\ skStopped' \in BOOLEAN
  <2>1. skStopped' \in BOOLEAN
    BY Zenon DEF Accept
  <2> QED
    BY <2>1 DEF Accept
<1> HIDE DEF from, entry, o, shut
<1>8. /\ skObject'[t] = o /\ \A u \in Sockets \ {t} : skObject'[u] = skObject[u]
      /\ skKernel' = Append(shut, entry)
  BY <1>1, <1>6 DEF Become
<1>9. /\ skKernel' \in Seq(Kernel) /\ Len(skKernel') = n /\ skKernel'[n] = entry
      /\ \A i \in 1 .. Len(skKernel) : skKernel'[i] = shut[i]
  BY <1>1, <1>2, <1>5, <1>8
<1>10. SkType'
  <2>1. Append(shut, entry) \in Seq(Kernel) /\ Len(Append(shut, entry)) = Len(skKernel) + 1
    BY <1>8, <1>9
  <2>2. skMixed' \subseteq Sockets
    BY <1>1, <1>7
  <2> QED
    BY <1>3, <1>6, <1>7, <2>1, <2>2, Typed
<1>11. SkOwned'
  <2>1. skKernel'[Len(skKernel) + 1].state # "closed"
    BY <1>4, <1>9
  <2>2. \A h \in 1 .. Len(skKernel) :
          (skKernel'[h].state = "closed") <=> (skKernel[h].state = "closed" \/ h = skObject[t].handle)
    BY <1>5, <1>9
  <2>3. skObject'[t].handle = Len(skKernel) + 1 /\ Len(skKernel') = Len(skKernel) + 1
    BY <1>3, <1>8, <1>9
  <2> QED
    BY <1>7, <1>8, <1>10, <2>1, <2>2, <2>3, SocketGiven
<1>12. Recorded(skObject'[t], skKernel'[skObject'[t].handle], t \in skMixed')
  BY <1>1, <1>3, <1>4, <1>8, <1>9 DEF Recorded
<1>13. PeerRecorded'
  <2>1. \A h \in 1 .. Len(skKernel) : h # skObject[t].handle => skKernel'[h] = skKernel[h]
    BY <1>5, <1>9
  <2> QED
    BY <1>7, <1>8, <1>12, <2>1, OthersRecorded
<1> QED
  BY <1>10, <1>11, <1>13 DEF Steady

-----------------------------------------------------------------------------
LEMMA SocketInductive == SkInv /\ [SkNext]_skVars => SkInv'
<1> SUFFICES ASSUME SkInv, [SkNext]_skVars PROVE Steady
  BY DEF Steady, SkOwned, SkInv
<1>1. CASE SkNext
  BY <1>1, SocketSteady, ListenSteady, CloseSteady, DropSteady, SetFamilySteady, BindSteady, ConnectSteady,
     MoveSteady, AcceptSteady DEF SkNext
<1>2. CASE UNCHANGED skVars
  BY <1>2 DEF skVars, SkInv, SkType, SkHolds, SkApart, SkHeld, PeerRecorded, Steady, SkOwned, Handles
<1> QED
  BY <1>1, <1>2

(* The invariant holds after every operation of Socket.cpp, whichever of its   *)
(* calls to the system fail.                                                   *)
THEOREM SocketsInvariance == SkSpec => []SkInv
<1> QED
  BY SocketInitially, SocketInductive, PTL DEF SkSpec

(* A system socket that is open belongs to exactly one object, or its object   *)
(* went away without closing it; one that is closed belongs to none: whatever  *)
(* calls fail and objects are moved (socket(), accept(), operator=, close()).  *)
THEOREM HandlesCorrect == SkSpec => []HandlesOwned
<1>1. SkInv => HandlesOwned
  <2> SUFFICES ASSUME SkInv, NEW h \in Handles
               PROVE  LET owners == {s \in Sockets : skObject[s].handle = h} IN
                      IF skKernel[h].state = "closed" THEN owners = {}
                      ELSE Cardinality(owners) = IF h \in skDropped THEN 0 ELSE 1
    BY DEF HandlesOwned
  <2> DEFINE owners == {s \in Sockets : skObject[s].handle = h}
  <2>1. h \in 1 .. Len(skKernel) /\ h # INVALID_SOCKET
    BY DEF SkInv, SkType, Handles, INVALID_SOCKET
  <2>2. skKernel[h].state = "closed" \/ h \in skDropped => owners = {}
    BY <2>1 DEF SkInv, SkHolds
  <2>3. ASSUME skKernel[h].state # "closed", h \notin skDropped
        PROVE  Cardinality(owners) = 1
    <3>1. PICK s \in Sockets : skObject[s].handle = h
      BY <2>1, <2>3 DEF SkInv, SkHeld
    <3>2. owners = {s}
      BY <2>1, <3>1 DEF SkInv, SkApart
    <3> QED
      BY <3>2, FS_Singleton
  <2>4. Cardinality({}) = 0
    BY FS_EmptySet
  <2> HIDE DEF owners
  <2>5. IF skKernel[h].state = "closed" THEN owners = {}
        ELSE Cardinality(owners) = IF h \in skDropped THEN 0 ELSE 1
    BY <2>2, <2>3, <2>4
  <2> QED
    BY <2>5 DEF owners
<1> QED
  BY <1>1, SocketsInvariance, PTL

(* What an object says of its peer is so, unless a call failed on it since;    *)
(* without a socket it says nothing (connect(), accept(), close(), operator=). *)
THEOREM PeersCorrect == SkSpec => []PeerRecorded
<1>1. SkInv => PeerRecorded
  BY DEF SkInv
<1> QED
  BY <1>1, SocketsInvariance, PTL

-----------------------------------------------------------------------------
(* Memory::string, for any number of variables and blocks of any length.       *)

Cells == MsBytes \cup {Unwritten}
StringType == [alive : BOOLEAN, address : Nat, length : Nat]

MsType == /\ IsFiniteSet(DOMAIN msHeap) /\ DOMAIN msHeap \subseteq Nat \ {0}
          /\ \A b \in DOMAIN msHeap : msHeap[b] \in Seq(Cells)
          /\ msString \in [MsNames -> StringType]
          /\ msFault = FALSE

\* What a string holds is allocated and long enough; no two hold the same block;
\* and every block is held.
MsHolds == \A s \in MsNames :
  /\ msString[s].address # Null => msString[s].alive /\ msString[s].address \in DOMAIN msHeap
  /\ msString[s].length > 0 =>
       msString[s].address # Null /\ Len(msHeap[msString[s].address]) >= msString[s].length
MsApart == \A s, t \in MsNames :
  s # t /\ msString[s].address # Null => msString[s].address # msString[t].address
MsHeld == \A b \in DOMAIN msHeap : \E s \in MsNames : msString[s].address = b

MsInv == MsType /\ MsHolds /\ MsApart /\ MsHeld

\* The heap finds a block: among the first n + 1 one is not among n.
LEMMA FreshIs ==
  ASSUME NEW heap, IsFiniteSet(DOMAIN heap)
  PROVE  FreshBlock(heap) \in Nat \ {0} /\ FreshBlock(heap) \notin DOMAIN heap
<1> DEFINE n == Cardinality(DOMAIN heap)
           free0 == 1 .. n + 1 \ DOMAIN heap
<1>1. n \in Nat
  BY FS_CardinalityType
<1>2. free0 # {}
  <2> SUFFICES ASSUME 1 .. n + 1 \subseteq DOMAIN heap PROVE FALSE
    OBVIOUS
  <2>1. Cardinality(1 .. n + 1) <= n
    BY FS_Subset
  <2> HIDE DEF n
  <2>2. 1 \in Int /\ n + 1 \in Int /\ ~ (1 > n + 1) /\ n + 1 - 1 + 1 = n + 1
    BY <1>1
  <2>3. Cardinality(1 .. n + 1) = n + 1
    BY <2>2, FS_Interval
  <2> QED
    BY <1>1, <2>1, <2>3
<1>3. free0 \in SUBSET Nat
  BY <1>1
<1>4. PICK x \in free0 : \A y \in free0 : x <= y
  BY <1>2, <1>3, LeastNumber, Zenon
<1>5. FreshBlock(heap) = CHOOSE w \in free0 : \A y \in free0 : w <= y
  BY DEF FreshBlock, Min
<1> HIDE DEF free0
<1>6. FreshBlock(heap) \in free0
  BY <1>4, <1>5
<1> QED
  BY <1>1, <1>6 DEF free0

LEMMA MsInitially == MsInit => MsInv
<1> SUFFICES ASSUME MsInit PROVE MsInv
  OBVIOUS
<1>1. DOMAIN msHeap = {}
  BY DEF MsInit
<1>2. IsFiniteSet({})
  BY FS_EmptySet
<1> QED
  BY <1>1, <1>2 DEF MsInit, MsInv, MsType, MsHolds, MsApart, MsHeld, StringType, Dead, Null

\* What a string holds is there.
LEMMA MsFacts ==
  ASSUME MsInv, NEW s \in MsNames
  PROVE  /\ msString[s] \in StringType
         /\ ~ Wrong(msHeap, msString[s].address)
         /\ ~ msString[s].alive => msString[s].address = Null
         /\ msString[s].address \in Nat /\ msString[s].length \in Nat
         /\ Null \notin DOMAIN msHeap
  BY DEF MsInv, MsType, MsHolds, Wrong, StringType, Null

LEMMA FreeFacts ==
  ASSUME NEW heap, NEW address, Null \notin DOMAIN heap
  PROVE  /\ DOMAIN free(heap, address) = DOMAIN heap \ {address}
         /\ \A c \in DOMAIN heap \ {address} : free(heap, address)[c] = heap[c]
  BY DEF free, Without

LEMMA MallocFacts ==
  ASSUME NEW heap, NEW size \in Nat
  PROVE  LET b == FreshBlock(heap)
             more == malloc(heap, size)
         IN  /\ DOMAIN more = DOMAIN heap \cup {b}
             /\ \A c \in DOMAIN heap \ {b} : more[c] = heap[c]
             /\ more[b] \in Seq(Cells) /\ Len(more[b]) >= size
<1> DEFINE b == FreshBlock(heap)
           n == IF size = 0 THEN 1 ELSE size
           bytes == [i \in 1 .. n |-> Unwritten]
           more == malloc(heap, size)
<1>1. n \in Nat /\ n >= size
  OBVIOUS
<1> HIDE DEF n
<1>2. Unwritten \in Cells
  BY DEF Cells
<1>3. bytes \in Seq(Cells) /\ Len(bytes) = n
  BY <1>1, <1>2
<1> HIDE DEF bytes
<1>4. more = With(heap, b, bytes)
  BY DEF malloc, bytes, n
<1> HIDE DEF more, b
<1>5. DOMAIN more = DOMAIN heap \cup {b} /\ more[b] = bytes
      /\ \A c \in DOMAIN heap \ {b} : more[c] = heap[c]
  BY <1>4 DEF With
<1> QED
  BY <1>1, <1>3, <1>5 DEF more, b

\* The string s has the block b, new or its own, and nothing else.
LEMMA MsGiven ==
  ASSUME MsInv, NEW s \in MsNames, NEW b \in Nat \ {0}, NEW n \in Nat,
         b \notin DOMAIN msHeap \/ b = msString[s].address,
         DOMAIN msHeap' = (DOMAIN msHeap \ {msString[s].address}) \cup {b},
         \A c \in DOMAIN msHeap \ {msString[s].address, b} : msHeap'[c] = msHeap[c],
         msHeap'[b] \in Seq(Cells), Len(msHeap'[b]) >= n,
         msString' = [msString EXCEPT ![s] = Owner(b, n)], msFault' = FALSE
  PROVE  MsInv'
<1> DEFINE old == msString[s].address
<1>1. /\ msString \in [MsNames -> StringType] /\ DOMAIN msHeap \subseteq Nat \ {0}
      /\ IsFiniteSet(DOMAIN msHeap) /\ \A c \in DOMAIN msHeap : msHeap[c] \in Seq(Cells)
      /\ MsHolds /\ MsApart /\ MsHeld
  BY DEF MsInv, MsType
<1>2. /\ msString' \in [MsNames -> StringType]
      /\ msString'[s].address = b /\ msString'[s].length = n /\ msString'[s].alive
      /\ \A t \in MsNames \ {s} : msString'[t] = msString[t]
  BY <1>1 DEF Owner, StringType
<1>3. \A t \in MsNames \ {s} : msString[t].address # Null =>
        /\ msString[t].address \in DOMAIN msHeap
        /\ msString[t].address # old /\ msString[t].address # b
  BY <1>1 DEF MsHolds, MsApart
<1>4. IsFiniteSet(DOMAIN msHeap')
  <2>1. IsFiniteSet(DOMAIN msHeap \ {old})
    BY <1>1, FS_RemoveElement
  <2>2. IsFiniteSet((DOMAIN msHeap \ {old}) \cup {b})
    BY <2>1, FS_AddElement
  <2> QED
    BY <2>2
<1>5. MsType'
  <2>1. \A c \in DOMAIN msHeap' : msHeap'[c] \in Seq(Cells)
    BY <1>1
  <2>2. DOMAIN msHeap' \subseteq Nat \ {0}
    BY <1>1
  <2> QED
    BY <1>2, <1>4, <2>1, <2>2 DEF MsType
<1>6. MsHolds'
  <2> SUFFICES ASSUME NEW t \in MsNames
               PROVE  /\ msString'[t].address # Null =>
                           msString'[t].alive /\ msString'[t].address \in DOMAIN msHeap'
                      /\ msString'[t].length > 0 =>
                           /\ msString'[t].address # Null
                           /\ Len(msHeap'[msString'[t].address]) >= msString'[t].length
    BY DEF MsHolds
  <2>1. CASE t = s
    <3>1. msString'[t].address = b /\ msString'[t].length = n /\ msString'[t].alive
      BY <1>2, <2>1
    <3>2. b # Null /\ b \in DOMAIN msHeap'
      BY DEF Null
    <3> QED
      BY <3>1, <3>2
  <2>2. CASE t # s
    <3>1. msString'[t] = msString[t]
      BY <1>2, <2>2
    <3>2. msString[t].address # Null =>
            /\ msString[t].alive /\ msString[t].address \in DOMAIN msHeap'
            /\ msHeap'[msString[t].address] = msHeap[msString[t].address]
      BY <1>1, <1>3, <2>2 DEF MsHolds
    <3> QED
      BY <1>1, <3>1, <3>2 DEF MsHolds
  <2> QED
    BY <2>1, <2>2
<1>7. MsApart'
  BY <1>1, <1>2, <1>3 DEF MsApart, Null
<1>8. MsHeld'
  <2> SUFFICES ASSUME NEW c \in DOMAIN msHeap'
               PROVE  \E t \in MsNames : msString'[t].address = c
    BY DEF MsHeld
  <2>1. CASE c = b
    BY <1>2, <2>1
  <2>2. CASE c # b
    <3>1. PICK t \in MsNames : msString[t].address = c
      BY <1>1, <2>2 DEF MsHeld
    <3>2. t # s
      BY <2>2, <3>1
    <3> QED
      BY <1>2, <3>1, <3>2
  <2> QED
    BY <2>1, <2>2
<1> QED
  BY <1>5, <1>6, <1>7, <1>8 DEF MsInv

\* The string s has what t had, and t nothing.
LEMMA MsPassed ==
  ASSUME MsInv, NEW s \in MsNames, NEW t \in MsNames, s # t, msString[t].alive,
         DOMAIN msHeap' = DOMAIN msHeap \ {msString[s].address},
         \A c \in DOMAIN msHeap' : msHeap'[c] = msHeap[c],
         msString' = [msString EXCEPT ![s] = msString[t], ![t] = Owner(Null, 0)],
         msFault' = FALSE
  PROVE  MsInv'
<1> DEFINE old == msString[s].address
<1>1. /\ msString \in [MsNames -> StringType] /\ DOMAIN msHeap \subseteq Nat \ {0}
      /\ IsFiniteSet(DOMAIN msHeap) /\ \A c \in DOMAIN msHeap : msHeap[c] \in Seq(Cells)
      /\ MsHolds /\ MsApart /\ MsHeld
  BY DEF MsInv, MsType
<1>2. /\ msString' \in [MsNames -> StringType]
      /\ msString'[s] = msString[t]
      /\ msString'[t].address = Null /\ msString'[t].length = 0 /\ msString'[t].alive
      /\ \A u \in MsNames \ {s, t} : msString'[u] = msString[u]
  <2>1. Owner(Null, 0) \in StringType /\ msString[t] \in StringType
    BY <1>1 DEF Owner, StringType, Null
  <2>2. /\ msString' \in [MsNames -> StringType]
        /\ msString'[s] = msString[t] /\ msString'[t] = Owner(Null, 0)
        /\ \A u \in MsNames \ {s, t} : msString'[u] = msString[u]
    BY <1>1, <2>1
  <2> QED
    BY <2>2 DEF Owner
<1>3. \A u \in MsNames \ {s} : msString[u].address # Null => msString[u].address # old
  BY <1>1 DEF MsApart
<1>4. MsType'
  <2>1. IsFiniteSet(DOMAIN msHeap')
    BY <1>1, FS_RemoveElement
  <2>2. /\ \A c \in DOMAIN msHeap' : msHeap'[c] \in Seq(Cells)
        /\ DOMAIN msHeap' \subseteq Nat \ {0}
    BY <1>1
  <2> QED
    BY <1>2, <2>1, <2>2 DEF MsType
<1>5. MsHolds'
  <2> SUFFICES ASSUME NEW u \in MsNames
               PROVE  /\ msString'[u].address # Null =>
                           msString'[u].alive /\ msString'[u].address \in DOMAIN msHeap'
                      /\ msString'[u].length > 0 =>
                           /\ msString'[u].address # Null
                           /\ Len(msHeap'[msString'[u].address]) >= msString'[u].length
    BY DEF MsHolds
  <2>1. CASE u = t
    BY <1>2, <2>1 DEF Null
  <2>2. CASE u # t
    <3>1. PICK v \in MsNames \ {s} : msString'[u] = msString[v]
      BY <1>2, <2>2
    <3>2. msString[v].address # Null =>
            /\ msString[v].alive /\ msString[v].address \in DOMAIN msHeap'
            /\ msHeap'[msString[v].address] = msHeap[msString[v].address]
      BY <1>1, <1>3, <3>1 DEF MsHolds
    <3> QED
      BY <1>1, <3>1, <3>2 DEF MsHolds
  <2> QED
    BY <2>1, <2>2
<1>6. MsApart'
  BY <1>1, <1>2 DEF MsApart
<1>7. MsHeld'
  <2> SUFFICES ASSUME NEW c \in DOMAIN msHeap'
               PROVE  \E u \in MsNames : msString'[u].address = c
    BY DEF MsHeld
  <2>1. PICK u \in MsNames : msString[u].address = c
    BY <1>1 DEF MsHeld
  <2>2. u # s /\ c # Null
    BY <1>1, <2>1 DEF Null
  <2>3. CASE u = t
    BY <1>2, <2>1, <2>3
  <2>4. CASE u # t
    BY <1>2, <2>1, <2>2, <2>4
  <2> QED
    BY <2>3, <2>4
<1> QED
  BY <1>4, <1>5, <1>6, <1>7 DEF MsInv

\* The string s has nothing any more.
LEMMA MsFreed ==
  ASSUME MsInv, NEW s \in MsNames, NEW empty \in {Dead, Owner(Null, 0)},
         DOMAIN msHeap' = DOMAIN msHeap \ {msString[s].address},
         \A c \in DOMAIN msHeap' : msHeap'[c] = msHeap[c],
         msString' = [msString EXCEPT ![s] = empty], msFault' = FALSE
  PROVE  MsInv'
<1> DEFINE old == msString[s].address
<1>1. /\ msString \in [MsNames -> StringType] /\ DOMAIN msHeap \subseteq Nat \ {0}
      /\ IsFiniteSet(DOMAIN msHeap) /\ \A c \in DOMAIN msHeap : msHeap[c] \in Seq(Cells)
      /\ MsHolds /\ MsApart /\ MsHeld
  BY DEF MsInv, MsType
<1>2. /\ msString' \in [MsNames -> StringType]
      /\ msString'[s].address = Null /\ msString'[s].length = 0
      /\ \A u \in MsNames \ {s} : msString'[u] = msString[u]
  <2>1. empty \in StringType /\ empty.address = Null /\ empty.length = 0
    <3>1. CASE empty = Dead
      BY <3>1 DEF Dead, StringType, Null
    <3>2. CASE empty = Owner(Null, 0)
      BY <3>2 DEF Owner, StringType, Null
    <3> QED
      BY <3>1, <3>2
  <2> QED
    BY <1>1, <2>1
<1>3. MsType'
  <2>1. IsFiniteSet(DOMAIN msHeap')
    <3>1. IsFiniteSet(DOMAIN msHeap \ {old})
      BY <1>1, FS_RemoveElement
    <3> QED
      BY <3>1
  <2>2. /\ \A c \in DOMAIN msHeap' : msHeap'[c] \in Seq(Cells)
        /\ DOMAIN msHeap' \subseteq Nat \ {0}
    BY <1>1
  <2> QED
    BY <1>2, <2>1, <2>2 DEF MsType
<1>4. MsHolds'
  <2> SUFFICES ASSUME NEW u \in MsNames
               PROVE  /\ msString'[u].address # Null =>
                           msString'[u].alive /\ msString'[u].address \in DOMAIN msHeap'
                      /\ msString'[u].length > 0 =>
                           /\ msString'[u].address # Null
                           /\ Len(msHeap'[msString'[u].address]) >= msString'[u].length
    BY DEF MsHolds
  <2>1. CASE u = s
    BY <1>2, <2>1
  <2>2. CASE u # s
    <3>1. msString'[u] = msString[u]
      BY <1>2, <2>2
    <3>2. msString[u].address # Null =>
            /\ msString[u].alive /\ msString[u].address \in DOMAIN msHeap'
            /\ msHeap'[msString[u].address] = msHeap[msString[u].address]
      BY <1>1, <2>2 DEF MsHolds, MsApart
    <3> QED
      BY <1>1, <3>1, <3>2 DEF MsHolds
  <2> QED
    BY <2>1, <2>2
<1>5. MsApart'
  BY <1>1, <1>2 DEF MsApart
<1>6. MsHeld'
  <2> SUFFICES ASSUME NEW c \in DOMAIN msHeap'
               PROVE  \E u \in MsNames : msString'[u].address = c
    BY DEF MsHeld
  <2>1. PICK u \in MsNames : msString[u].address = c
    BY <1>1 DEF MsHeld
  <2> QED
    BY <1>2, <2>1
<1> QED
  BY <1>3, <1>4, <1>5, <1>6 DEF MsInv

\* A copy of a string's contents in a new block.
LEMMA CopiedFacts ==
  ASSUME MsInv, NEW s \in MsNames
  PROVE  LET b == FreshBlock(msHeap)
         IN  /\ DOMAIN Copied(s) = DOMAIN msHeap \cup {b}
             /\ \A c \in DOMAIN msHeap \ {b} : Copied(s)[c] = msHeap[c]
             /\ Copied(s)[b] \in Seq(Cells) /\ Len(Copied(s)[b]) >= msString[s].length
<1> DEFINE b == FreshBlock(msHeap)
           n == msString[s].length
           empty == malloc(msHeap, n)
<1>1. n \in Nat
  BY MsFacts
<1>2. /\ DOMAIN empty = DOMAIN msHeap \cup {b}
      /\ \A c \in DOMAIN msHeap \ {b} : empty[c] = msHeap[c]
      /\ empty[b] \in Seq(Cells) /\ Len(empty[b]) >= n
  BY <1>1, MallocFacts
<1>3. Copied(s) = IF n = 0 THEN empty ELSE [empty EXCEPT ![b] = Contents(s)]
  BY DEF Copied
<1>4. ASSUME n > 0
      PROVE  Contents(s) \in Seq(Cells) /\ Len(Contents(s)) = n
  <2> DEFINE q == msHeap[msString[s].address]
  <2>1. q \in Seq(Cells) /\ Len(q) >= n
    BY <1>4 DEF MsInv, MsHolds, MsType
  <2>2. Contents(s) = SubSeq(q, 1, n)
    BY DEF Contents
  <2> HIDE DEF q, n
  <2>3. SubSeq(q, 1, n) \in Seq(Cells) /\ Len(SubSeq(q, 1, n)) = n
    BY <1>1, <1>4, <2>1
  <2> QED
    BY <2>2, <2>3
<1> HIDE DEF empty, n, b
<1>5. CASE n = 0
  BY <1>2, <1>3, <1>5 DEF n, b
<1>6. CASE n > 0
  BY <1>1, <1>2, <1>3, <1>4, <1>6 DEF n, b
<1> QED
  BY <1>1, <1>5, <1>6

LEMMA ConstructStep ==
  ASSUME MsInv, NEW s \in MsNames, NEW size \in 0 .. MsMaxLength, Construct(s, size)
  PROVE  MsInv'
<1> DEFINE b == FreshBlock(msHeap)
<1>1. size \in Nat /\ b \in Nat \ {0} /\ b \notin DOMAIN msHeap
  BY FreshIs DEF MsInv, MsType
<1>2. msString[s].address = Null /\ Null \notin DOMAIN msHeap /\ ~ msFault
  BY MsFacts DEF Construct, MsInv, MsType
<1>3. /\ DOMAIN msHeap' = DOMAIN msHeap \cup {b}
      /\ \A c \in DOMAIN msHeap \ {b} : msHeap'[c] = msHeap[c]
      /\ msHeap'[b] \in Seq(Cells) /\ Len(msHeap'[b]) >= size
  BY <1>1, MallocFacts DEF Construct
<1>4. msString' = [msString EXCEPT ![s] = Owner(b, size)] /\ msFault' = FALSE
  BY <1>2 DEF Construct, MsInv, MsType
<1> HIDE DEF b
<1>5. DOMAIN msHeap' = (DOMAIN msHeap \ {msString[s].address}) \cup {b}
  BY <1>2, <1>3
<1> QED
  BY <1>1, <1>3, <1>4, <1>5, MsGiven

LEMMA CopyConstructStep ==
  ASSUME MsInv, NEW s \in MsNames, NEW from \in MsNames, CopyConstruct(s, from)
  PROVE  MsInv'
<1> DEFINE b == FreshBlock(msHeap)
           n == msString[from].length
<1>1. n \in Nat /\ b \in Nat \ {0} /\ b \notin DOMAIN msHeap
  BY FreshIs, MsFacts DEF MsInv, MsType
<1>2. msString[s].address = Null /\ Null \notin DOMAIN msHeap
  BY MsFacts DEF CopyConstruct
<1>3. /\ DOMAIN msHeap' = DOMAIN msHeap \cup {b}
      /\ \A c \in DOMAIN msHeap \ {b} : msHeap'[c] = msHeap[c]
      /\ msHeap'[b] \in Seq(Cells) /\ Len(msHeap'[b]) >= n
  BY CopiedFacts DEF CopyConstruct
<1>4. msString' = [msString EXCEPT ![s] = Owner(b, n)] /\ msFault' = FALSE
  BY DEF CopyConstruct, MsInv, MsType
<1> HIDE DEF b, n
<1>5. DOMAIN msHeap' = (DOMAIN msHeap \ {msString[s].address}) \cup {b}
  BY <1>2, <1>3
<1> QED
  BY <1>1, <1>3, <1>4, <1>5, MsGiven

LEMMA MoveConstructStep ==
  ASSUME MsInv, NEW s \in MsNames, NEW from \in MsNames, MoveConstruct(s, from)
  PROVE  MsInv'
<1>1. s # from /\ msString[from].alive
  BY DEF MoveConstruct
<1>2. msString[s].address = Null /\ Null \notin DOMAIN msHeap
  BY MsFacts DEF MoveConstruct
<1>3. DOMAIN msHeap' = DOMAIN msHeap \ {msString[s].address} /\ msHeap' = msHeap
  BY <1>2 DEF MoveConstruct
<1>4. /\ msString' = [msString EXCEPT ![s] = msString[from], ![from] = Owner(Null, 0)]
      /\ msFault' = FALSE
  BY DEF MoveConstruct, MsInv, MsType
<1> QED
  BY <1>1, <1>3, <1>4, MsPassed

LEMMA DestructStep ==
  ASSUME MsInv, NEW s \in MsNames, Destruct(s)
  PROVE  MsInv'
<1>1. Null \notin DOMAIN msHeap /\ ~ Wrong(msHeap, msString[s].address)
  BY MsFacts
<1>2. /\ DOMAIN msHeap' = DOMAIN msHeap \ {msString[s].address}
      /\ \A c \in DOMAIN msHeap' : msHeap'[c] = msHeap[c]
  <2> DEFINE address == msString[s].address
             more == free(msHeap, address)
  <2>1. msHeap' = more
    BY DEF Destruct
  <2> HIDE DEF address
  <2>2. DOMAIN more = DOMAIN msHeap \ {address} /\ \A c \in DOMAIN msHeap \ {address} : more[c] = msHeap[c]
    BY <1>1, FreeFacts
  <2> HIDE DEF more
  <2> QED
    BY <2>1, <2>2 DEF address
<1>3. msString' = [msString EXCEPT ![s] = Dead] /\ msFault' = FALSE
  BY <1>1 DEF Destruct, MsInv, MsType
<1> QED
  BY <1>2, <1>3, MsFreed

LEMMA CopyAssignStep ==
  ASSUME MsInv, NEW s \in MsNames, NEW from \in MsNames, CopyAssign(s, from), s # from
  PROVE  MsInv'
<1> DEFINE b == FreshBlock(msHeap)
           n == msString[from].length
           old == msString[s].address
<1>1. n \in Nat /\ b \in Nat \ {0} /\ b \notin DOMAIN msHeap
  BY FreshIs, MsFacts DEF MsInv, MsType
<1>2. Null \notin DOMAIN msHeap /\ ~ Wrong(msHeap, old)
  BY MsFacts
<1>3. /\ DOMAIN Copied(from) = DOMAIN msHeap \cup {b}
      /\ \A c \in DOMAIN msHeap \ {b} : Copied(from)[c] = msHeap[c]
      /\ Copied(from)[b] \in Seq(Cells) /\ Len(Copied(from)[b]) >= n
  BY CopiedFacts
<1>4. /\ msHeap' = free(Copied(from), old)
      /\ msString' = [msString EXCEPT ![s] = Owner(b, n)] /\ msFault' = FALSE
  BY <1>2 DEF CopyAssign, MsInv, MsType
<1>5. old # b
  BY <1>1, <1>2 DEF Wrong, Null
<1> HIDE DEF b, n, old
<1>6. /\ DOMAIN msHeap' = (DOMAIN msHeap \cup {b}) \ {old}
      /\ \A c \in (DOMAIN msHeap \cup {b}) \ {old} : msHeap'[c] = Copied(from)[c]
  <2> DEFINE copied == Copied(from)
             more == free(copied, old)
  <2>1. Null \notin DOMAIN copied
    BY <1>1, <1>2, <1>3 DEF Null
  <2> HIDE DEF copied
  <2>2. DOMAIN more = DOMAIN copied \ {old} /\ \A c \in DOMAIN copied \ {old} : more[c] = copied[c]
    BY <2>1, FreeFacts
  <2>3. msHeap' = more /\ DOMAIN copied = DOMAIN msHeap \cup {b}
    BY <1>3, <1>4 DEF copied
  <2> HIDE DEF more
  <2>4. /\ DOMAIN msHeap' = (DOMAIN msHeap \cup {b}) \ {old}
        /\ \A c \in (DOMAIN msHeap \cup {b}) \ {old} : msHeap'[c] = copied[c]
    BY <2>2, <2>3
  <2> QED
    BY <2>4 DEF copied
<1>7. /\ DOMAIN msHeap' = (DOMAIN msHeap \ {old}) \cup {b}
      /\ \A c \in DOMAIN msHeap \ {old, b} : msHeap'[c] = msHeap[c]
      /\ msHeap'[b] \in Seq(Cells) /\ Len(msHeap'[b]) >= n
  BY <1>3, <1>5, <1>6
<1> QED
  BY <1>1, <1>4, <1>7, MsGiven DEF old

LEMMA MoveAssignStep ==
  ASSUME MsInv, NEW s \in MsNames, NEW from \in MsNames, MoveAssign(s, from), s # from
  PROVE  MsInv'
<1>1. Null \notin DOMAIN msHeap /\ ~ Wrong(msHeap, msString[s].address)
  BY MsFacts
<1>2. /\ DOMAIN msHeap' = DOMAIN msHeap \ {msString[s].address}
      /\ \A c \in DOMAIN msHeap' : msHeap'[c] = msHeap[c]
  <2>1. msHeap' = free(msHeap, msString[s].address)
    BY DEF MoveAssign
  <2> QED
    BY <1>1, <2>1, FreeFacts
<1>3. /\ msString[from].alive
      /\ msString' = [msString EXCEPT ![s] = msString[from], ![from] = Owner(Null, 0)]
      /\ msFault' = FALSE
  BY <1>1 DEF MoveAssign, MsInv, MsType
<1> QED
  BY <1>2, <1>3, MsPassed

\* realloc() to something: the block moves or stays, and holds what it held.
LEMMA ReallocFacts ==
  ASSUME NEW heap, NEW address, NEW size \in Nat, NEW moved, moved # Null,
         Null \notin DOMAIN heap, address # Null => heap[address] \in Seq(Cells)
  PROVE  LET more == realloc(heap, address, size, moved)
         IN  /\ DOMAIN more = (DOMAIN heap \ {address}) \cup {moved}
             /\ \A c \in DOMAIN heap \ {address, moved} : more[c] = heap[c]
             /\ more[moved] \in Seq(Cells) /\ Len(more[moved]) >= size
<1> DEFINE bytes == [i \in 1 .. size |-> IF address # Null /\ i <= Len(heap[address])
                                         THEN heap[address][i] ELSE Unwritten]
           rest == free(heap, address)
           more == realloc(heap, address, size, moved)
<1>1. bytes \in Seq(Cells) /\ Len(bytes) = size
  <2>1. ASSUME NEW i \in 1 .. size, address # Null, i <= Len(heap[address])
        PROVE  heap[address][i] \in Cells
    BY <2>1
  <2>2. Unwritten \in Cells
    BY DEF Cells
  <2>3. bytes \in [1 .. size -> Cells]
    BY <2>1, <2>2
  <2> HIDE DEF bytes
  <2> QED
    BY <2>3
<1>2. more = With(rest, moved, bytes)
  BY DEF realloc
<1>3. /\ DOMAIN rest = DOMAIN heap \ {address}
      /\ \A c \in DOMAIN heap \ {address} : rest[c] = heap[c]
  BY FreeFacts
<1> HIDE DEF bytes, rest, more
<1>4. /\ DOMAIN more = DOMAIN rest \cup {moved} /\ more[moved] = bytes
      /\ \A c \in DOMAIN rest \ {moved} : more[c] = rest[c]
  BY <1>2 DEF With
<1> QED
  BY <1>1, <1>3, <1>4 DEF more

LEMMA ResizeStep ==
  ASSUME MsInv, NEW s \in MsNames, NEW size \in 0 .. MsMaxLength, resize(s, size),
         msString[s].length # size
  PROVE  MsInv'
<1> DEFINE old == msString[s].address
<1>1. size \in Nat /\ FreshBlock(msHeap) \in Nat \ {0} /\ FreshBlock(msHeap) \notin DOMAIN msHeap
  BY FreshIs DEF MsInv, MsType
<1>2. /\ Null \notin DOMAIN msHeap /\ ~ Wrong(msHeap, old) /\ old \in Nat
      /\ old # Null => msHeap[old] \in Seq(Cells)
  BY MsFacts DEF MsInv, MsType, MsHolds
<1>3. PICK moved \in Moves(msHeap, old, size) :
        /\ msHeap' = realloc(msHeap, old, size, moved)
        /\ msString' = [msString EXCEPT ![s] = Owner(moved, size)]
        /\ msFault' = (msFault \/ Wrong(msHeap, old))
  BY DEF resize
<1>4. msFault' = FALSE
  BY <1>2, <1>3 DEF MsInv, MsType
<1> HIDE DEF old
<1>5. CASE size = 0
  <2>1. moved = Null /\ msHeap' = free(msHeap, old)
    BY <1>3, <1>5 DEF Moves, realloc
  <2>2. /\ DOMAIN msHeap' = DOMAIN msHeap \ {old}
        /\ \A c \in DOMAIN msHeap' : msHeap'[c] = msHeap[c]
    BY <1>2, <2>1, FreeFacts
  <2>3. msString' = [msString EXCEPT ![s] = Owner(Null, 0)]
    BY <1>3, <1>5, <2>1
  <2> QED
    BY <1>4, <2>2, <2>3, MsFreed DEF old
<1>6. CASE size # 0
  <2>1. moved \in {FreshBlock(msHeap)} \cup (IF old = Null THEN {} ELSE {old})
    BY <1>3, <1>6 DEF Moves
  <2>2. moved \in Nat \ {0} /\ (moved \notin DOMAIN msHeap \/ moved = old) /\ moved # Null
    BY <1>1, <1>2, <2>1 DEF Null
  <2>3. /\ DOMAIN msHeap' = (DOMAIN msHeap \ {old}) \cup {moved}
        /\ \A c \in DOMAIN msHeap \ {old, moved} : msHeap'[c] = msHeap[c]
        /\ msHeap'[moved] \in Seq(Cells) /\ Len(msHeap'[moved]) >= size
    <3>1. msHeap' = realloc(msHeap, old, size, moved)
      BY <1>3
    <3> DEFINE more == realloc(msHeap, old, size, moved)
    <3>2. /\ DOMAIN more = (DOMAIN msHeap \ {old}) \cup {moved}
          /\ \A c \in DOMAIN msHeap \ {old, moved} : more[c] = msHeap[c]
          /\ more[moved] \in Seq(Cells) /\ Len(more[moved]) >= size
      <4> HIDE DEF more
      <4>1. /\ size \in Nat /\ moved # Null /\ Null \notin DOMAIN msHeap
            /\ old # Null => msHeap[old] \in Seq(Cells)
        BY <1>1, <1>2, <2>2
      <4> QED
        BY <4>1, ReallocFacts, Zenon DEF more
    <3> QED
      BY <3>1, <3>2
  <2>4. msString' = [msString EXCEPT ![s] = Owner(moved, size)]
    BY <1>3
  <2> QED
    BY <1>1, <1>4, <2>2, <2>3, <2>4, MsGiven DEF old
<1> QED
  BY <1>5, <1>6

LEMMA PutStep ==
  ASSUME MsInv, NEW s \in MsNames, NEW offset \in 0 .. MsMaxLength - 1, NEW byte \in MsBytes,
         Put(s, offset, byte)
  PROVE  MsInv'
<1> DEFINE b == msString[s].address
           q == msHeap[b]
           r == [q EXCEPT ![offset + 1] = byte]
<1>1. b \in DOMAIN msHeap /\ q \in Seq(Cells) /\ offset \in Nat
  <2>1. offset \in Nat /\ msString[s].length \in Nat
    BY MsFacts
  <2>2. msString[s].length > 0
    BY <2>1 DEF Put
  <2>3. b \in DOMAIN msHeap
    BY <2>2 DEF MsInv, MsHolds
  <2> QED
    BY <2>1, <2>3 DEF MsInv, MsType
<1>2. r \in Seq(Cells) /\ Len(r) = Len(q)
  <2>1. byte \in Cells
    BY DEF Cells
  <2>2. q \in [1 .. Len(q) -> Cells] /\ Len(q) \in Nat
    BY <1>1
  <2> HIDE DEF q
  <2>3. r \in [1 .. Len(q) -> Cells]
    BY <2>1, <2>2
  <2> HIDE DEF r
  <2> QED
    BY <2>2, <2>3
<1>3. msHeap' = [msHeap EXCEPT ![b] = r] /\ msString' = msString /\ msFault' = FALSE
  BY MsFacts DEF Put, MsInv, MsType
<1> HIDE DEF r, q, b
<1>4. /\ DOMAIN msHeap' = DOMAIN msHeap /\ msHeap'[b] = r
      /\ \A c \in DOMAIN msHeap \ {b} : msHeap'[c] = msHeap[c]
  BY <1>1, <1>3
<1>5. /\ \A c \in DOMAIN msHeap : msHeap'[c] \in Seq(Cells)
      /\ \A c \in DOMAIN msHeap : Len(msHeap'[c]) = Len(msHeap[c])
  BY <1>2, <1>4 DEF MsInv, MsType, q
<1>6. MsType' /\ MsApart' /\ MsHeld'
  BY <1>3, <1>4, <1>5 DEF MsInv, MsType, MsApart, MsHeld
<1>7. MsHolds'
  BY <1>3, <1>4, <1>5 DEF MsInv, MsHolds
<1> QED
  BY <1>6, <1>7 DEF MsInv

LEMMA MsInductive == MsInv /\ [MsNext]_msVars => MsInv'
<1> SUFFICES ASSUME MsInv, [MsNext]_msVars PROVE MsInv'
  OBVIOUS
<1>1. CASE UNCHANGED msVars
  BY <1>1 DEF msVars, MsInv, MsType, MsHolds, MsApart, MsHeld
<1>2. CASE MsNext
  <2> PICK s \in MsNames :
        \/ \E size \in 0 .. MsMaxLength : Construct(s, size) \/ resize(s, size)
        \/ \E from \in MsNames : \/ CopyConstruct(s, from) \/ MoveConstruct(s, from)
                                 \/ CopyAssign(s, from) \/ MoveAssign(s, from)
        \/ Destruct(s)
        \/ \E offset \in 0 .. MsMaxLength - 1, byte \in MsBytes : Put(s, offset, byte)
    BY <1>2 DEF MsNext
  <2>1. ASSUME NEW size \in 0 .. MsMaxLength, Construct(s, size) PROVE MsInv'
    BY <2>1, ConstructStep
  <2>2. ASSUME NEW size \in 0 .. MsMaxLength, resize(s, size) PROVE MsInv'
    <3>1. CASE msString[s].length = size
      BY <1>1, <2>2, <3>1 DEF resize
    <3> QED
      BY <2>2, <3>1, ResizeStep
  <2>3. ASSUME NEW from \in MsNames, CopyConstruct(s, from) PROVE MsInv'
    BY <2>3, CopyConstructStep
  <2>4. ASSUME NEW from \in MsNames, MoveConstruct(s, from) PROVE MsInv'
    BY <2>4, MoveConstructStep
  <2>5. ASSUME NEW from \in MsNames, CopyAssign(s, from) \/ MoveAssign(s, from) PROVE MsInv'
    <3>1. CASE s = from
      BY <1>1, <2>5, <3>1 DEF CopyAssign, MoveAssign
    <3> QED
      BY <2>5, <3>1, CopyAssignStep, MoveAssignStep
  <2>6. ASSUME Destruct(s) PROVE MsInv'
    BY <2>6, DestructStep
  <2>7. ASSUME NEW offset \in 0 .. MsMaxLength - 1, NEW byte \in MsBytes, Put(s, offset, byte)
        PROVE  MsInv'
    BY <2>7, PutStep
  <2> QED
    BY <2>1, <2>2, <2>3, <2>4, <2>5, <2>6, <2>7
<1> QED
  BY <1>1, <1>2

THEOREM StringsInvariance == MsSpec => []MsInv
<1> QED
  BY MsInitially, MsInductive, PTL DEF MsSpec

(* Every block of the heap has one owner, a string that is not empty has a     *)
(* block of its length, and none is freed or used twice, whatever is copied,   *)
(* moved, assigned, resized and destroyed (string.cpp, crt.c).                 *)
THEOREM StringsCorrect == MsSpec => []StringsOwn
<1>1. MsInv => StringsOwn
  <2> SUFFICES ASSUME MsInv PROVE StringsOwn
    OBVIOUS
  <2>1. ASSUME NEW b \in DOMAIN msHeap
        PROVE  Cardinality({s \in MsNames : msString[s].address = b}) = 1
    <3>1. PICK s \in MsNames : msString[s].address = b
      BY DEF MsInv, MsHeld
    <3>2. b # Null
      BY DEF MsInv, MsType, Null
    <3>3. {t \in MsNames : msString[t].address = b} = {s}
      BY <3>1, <3>2 DEF MsInv, MsApart
    <3> QED
      BY <3>3, FS_Singleton
  <2>2. ASSUME NEW s \in MsNames
        PROVE  LET str == msString[s]
               IN  /\ str.address # Null => str.alive /\ str.address \in DOMAIN msHeap
                   /\ str.length > 0 => /\ str.address # Null
                                        /\ Len(msHeap[str.address]) >= str.length
    BY DEF MsInv, MsHolds
  <2>3. ~ msFault
    BY DEF MsInv, MsType
  <2> QED
    BY <2>1, <2>2, <2>3 DEF StringsOwn
<1> QED
  BY <1>1, StringsInvariance, PTL

-----------------------------------------------------------------------------
(* The owners of handles, for any number of objects of any kinds.              *)

HandleType == [kind : {"thread", "process", "file", "foreach", "token"},
               state : {"open", "closed", "twice"}, thread : Nat]
OwnerType == [there : BOOLEAN, handle : Nat]

\* The handles that are open, those aside that were overwritten; and those that
\* were closed more than once.
Live(open, lost) == {h \in 1 .. Len(open) : open[h].state = "open" /\ h \notin lost}
Twice(open) == {h \in 1 .. Len(open) : open[h].state = "twice"}

HaType == /\ haOwner \in [Owners -> OwnerType]
          /\ haOpen \in Seq(HandleType)
          /\ haLost \subseteq 1 .. Len(haOpen)
          /\ haShared \subseteq 1 .. Len(haOpen)

\* Of the handles that no copy of a search shares: what an object holds is open,
\* no two hold the same, and none is closed twice.  Of all: what is open is held.
HaHolds == \A o \in Owners : haOwner[o].handle # None =>
             haOwner[o].there /\ haOwner[o].handle \in Live(haOpen, haLost) \cup haShared
HaApart == \A o, p \in Owners :
             /\ o # p /\ haOwner[o].handle # None
             /\ haOwner[o].handle = haOwner[p].handle
             => haOwner[o].handle \in haShared
HaHeld == \A h \in Live(haOpen, haLost) : \E o \in Owners : haOwner[o].handle = h
HaOnce == Twice(haOpen) \subseteq haShared

HaInv == HaType /\ HaHolds /\ HaApart /\ HaHeld /\ HaOnce

LEMMA HaInitially == HaInit => HaInv
  BY DEF HaInit, HaInv, HaType, HaHolds, HaApart, HaHeld, HaOnce, Live, Twice, OwnerType,
         NoObject, None

LEMMA AppendLive ==
  ASSUME NEW open \in Seq(HandleType), NEW lost \in SUBSET (1 .. Len(open)),
         NEW e \in HandleType, e.state = "open"
  PROVE  LET more == Append(open, e)
         IN  /\ more \in Seq(HandleType) /\ Len(more) = Len(open) + 1
             /\ Live(more, lost) = Live(open, lost) \cup {Len(open) + 1}
             /\ Twice(more) = Twice(open)
<1> DEFINE more == Append(open, e)
<1>1. more \in Seq(HandleType) /\ Len(more) = Len(open) + 1 /\ Len(open) \in Nat
  OBVIOUS
<1>2. more[Len(open) + 1] = e /\ \A h \in 1 .. Len(open) : more[h] = open[h]
  OBVIOUS
<1> HIDE DEF more
<1>3. Live(more, lost) = Live(open, lost) \cup {Len(open) + 1}
  BY <1>1, <1>2 DEF Live
<1>4. Twice(more) = Twice(open)
  BY <1>1, <1>2 DEF Twice
<1> QED
  BY <1>1, <1>3, <1>4 DEF more

LEMMA CloseLive ==
  ASSUME NEW open \in Seq(HandleType), NEW lost, NEW h \in 0 .. Len(open)
  PROVE  LET less == CloseHandle(open, h)
         IN  /\ less \in Seq(HandleType) /\ Len(less) = Len(open)
             /\ Live(less, lost) = Live(open, lost) \ {h}
<1> DEFINE less == CloseHandle(open, h)
           closed == [open[h] EXCEPT !.state = IF @ = "open" THEN "closed" ELSE "twice"]
<1>1. CASE h = 0
  <2>1. less = open
    BY <1>1 DEF CloseHandle, None
  <2> QED
    BY <1>1, <2>1 DEF Live
<1>2. CASE h # 0
  <2>1. h \in 1 .. Len(open) /\ open[h] \in HandleType
    BY <1>2
  <2>2. /\ closed \in HandleType /\ closed.state # "open"
        /\ open[h].state = "open" => closed.state # "twice"
    BY <2>1 DEF HandleType
  <2>3. less = [open EXCEPT ![h] = closed]
    BY <1>2 DEF CloseHandle, None
  <2> HIDE DEF closed, less
  <2>4. /\ less \in Seq(HandleType) /\ Len(less) = Len(open) /\ less[h] = closed
        /\ \A g \in 1 .. Len(open) \ {h} : less[g] = open[g]
    <3>1. open \in [1 .. Len(open) -> HandleType] /\ Len(open) \in Nat
      OBVIOUS
    <3>2. less \in [1 .. Len(open) -> HandleType]
      BY <2>2, <2>3, <3>1
    <3>3. less \in Seq(HandleType) /\ Len(less) = Len(open)
      BY <3>1, <3>2
    <3> QED
      BY <2>1, <2>3, <3>1, <3>3
  <2>5. Live(less, lost) = Live(open, lost) \ {h}
    BY <2>2, <2>4 DEF Live
  <2> QED
    BY <2>4, <2>5 DEF less
<1> QED
  BY <1>1, <1>2

LEMMA CloseTwice ==
  ASSUME NEW open \in Seq(HandleType), NEW h \in 0 .. Len(open)
  PROVE  Twice(CloseHandle(open, h)) \subseteq Twice(open) \cup ({h} \ Live(open, {}))
<1>1. CASE h = 0
  BY <1>1 DEF CloseHandle, None
<1>2. CASE h # 0
  <2> DEFINE less == CloseHandle(open, h)
             closed == [open[h] EXCEPT !.state = IF @ = "open" THEN "closed" ELSE "twice"]
  <2>1. h \in 1 .. Len(open) /\ open[h] \in HandleType
    BY <1>2
  <2>2. open[h].state = "open" => closed.state = "closed"
    BY <2>1 DEF HandleType
  <2>3. less = [open EXCEPT ![h] = closed]
    BY <1>2 DEF CloseHandle, None
  <2>4. Len(less) = Len(open)
    BY <2>1, <2>3
  <2> HIDE DEF closed, less
  <2>5. less[h] = closed /\ \A g \in 1 .. Len(open) \ {h} : less[g] = open[g]
    BY <2>1, <2>3
  <2>6. Twice(less) \subseteq Twice(open) \cup ({h} \ Live(open, {}))
    BY <2>1, <2>2, <2>4, <2>5 DEF Live, Twice
  <2> QED
    BY <2>6 DEF less
<1> QED
  BY <1>1, <1>2

HaOwned == HaHolds /\ HaApart /\ HaHeld

\* The object o has a new handle; the one it had is no longer open, or lost.
LEMMA HandleGiven ==
  ASSUME HaInv, HaType', haShared' = haShared, NEW o \in Owners, NEW new \in Nat \ {0},
         new \notin Live(haOpen, haLost),
         Live(haOpen, haLost)' = (Live(haOpen, haLost) \ {haOwner[o].handle}) \cup {new},
         haOwner' = [haOwner EXCEPT ![o] = Holding(new)]
  PROVE  HaOwned'
<1> USE DEF None
<1> DEFINE L == Live(haOpen, haLost)
           M == Live(haOpen, haLost)'
           S == haShared
<1>1. HaHolds /\ HaApart /\ HaHeld /\ haOwner \in [Owners -> OwnerType]
  BY DEF HaInv, HaType
<1>2. /\ haOwner'[o].handle = new /\ haOwner'[o].there
      /\ \A p \in Owners \ {o} : haOwner'[p] = haOwner[p]
  BY <1>1 DEF Holding
<1>3. \A p \in Owners \ {o} : haOwner[p].handle # 0 =>
        /\ haOwner[p].there
        /\ haOwner[p].handle \in S \/ haOwner[p].handle \in L \ {haOwner[o].handle}
  BY <1>1 DEF HaHolds, HaApart
<1>4. new \notin L /\ M = (L \ {haOwner[o].handle}) \cup {new}
  OBVIOUS
<1>5. \A h \in L : \E p \in Owners : haOwner[p].handle = h
  BY <1>1 DEF HaHeld
<1>6. HaHolds' <=> \A p \in Owners : haOwner'[p].handle # 0 =>
                     haOwner'[p].there /\ haOwner'[p].handle \in M \cup S
  BY DEF HaHolds
<1>7. HaHeld' <=> \A h \in M : \E p \in Owners : haOwner'[p].handle = h
  BY DEF HaHeld
<1> HIDE DEF L, M, S
<1>8. HaHolds'
  BY <1>2, <1>3, <1>4, <1>6
<1>9. HaApart'
  BY <1>1, <1>2, <1>3, <1>4 DEF HaApart, S
<1>10. HaHeld'
  <2> SUFFICES ASSUME NEW h \in M PROVE \E p \in Owners : haOwner'[p].handle = h
    BY <1>7
  <2>1. CASE h = new
    BY <1>2, <2>1
  <2>2. CASE h # new
    <3>1. PICK p \in Owners : haOwner[p].handle = h
      BY <1>4, <1>5, <2>2
    <3> QED
      BY <1>2, <1>4, <2>2, <3>1
  <2> QED
    BY <2>1, <2>2
<1> QED
  BY <1>8, <1>9, <1>10 DEF HaOwned

\* The object o has what p had, and p nothing; what o had is closed.
LEMMA HandlePassed ==
  ASSUME HaInv, HaType', haShared' = haShared,
         NEW o \in Owners, NEW p \in Owners, o # p, haOwner[p].there,
         Live(haOpen, haLost)' = Live(haOpen, haLost) \ {haOwner[o].handle},
         haOwner' = [haOwner EXCEPT ![o] = haOwner[p], ![p] = Holding(None)]
  PROVE  HaOwned'
<1> USE DEF None
<1> DEFINE L == Live(haOpen, haLost)
           M == Live(haOpen, haLost)'
           S == haShared
<1>1. HaHolds /\ HaApart /\ HaHeld /\ haOwner \in [Owners -> OwnerType]
  BY DEF HaInv, HaType
<1>2. /\ haOwner'[o] = haOwner[p] /\ haOwner'[p].handle = 0 /\ haOwner'[p].there
      /\ \A q \in Owners \ {o, p} : haOwner'[q] = haOwner[q]
  <2>1. haOwner'[p] = Holding(None) /\ haOwner'[o] = haOwner[p]
        /\ \A q \in Owners \ {o, p} : haOwner'[q] = haOwner[q]
    BY <1>1
  <2>2. Holding(None).handle = 0 /\ Holding(None).there
    BY DEF Holding
  <2> QED
    BY <2>1, <2>2
<1>3. \A q \in Owners \ {o} : haOwner[q].handle # 0 =>
        /\ haOwner[q].there
        /\ haOwner[q].handle \in S \/ haOwner[q].handle \in L \ {haOwner[o].handle}
  BY <1>1 DEF HaHolds, HaApart
<1>4. M = L \ {haOwner[o].handle} /\ 0 \notin L
  BY DEF Live
<1>5. \A h \in L : \E q \in Owners : haOwner[q].handle = h
  BY <1>1 DEF HaHeld
<1>6. HaHolds' <=> \A q \in Owners : haOwner'[q].handle # 0 =>
                     haOwner'[q].there /\ haOwner'[q].handle \in M \cup S
  BY DEF HaHolds
<1>7. HaHeld' <=> \A h \in M : \E q \in Owners : haOwner'[q].handle = h
  BY DEF HaHeld
<1> HIDE DEF L, M, S
<1>8. HaHolds'
  <2> SUFFICES ASSUME NEW q \in Owners, haOwner'[q].handle # 0
               PROVE  haOwner'[q].there /\ haOwner'[q].handle \in M \cup S
    BY <1>6
  <2>1. PICK r \in Owners \ {o} : haOwner'[q] = haOwner[r]
    BY <1>2
  <2> QED
    BY <1>3, <1>4, <2>1
<1>9. HaApart'
  BY <1>1, <1>2, <1>4 DEF HaApart, S
<1>10. HaHeld'
  <2> SUFFICES ASSUME NEW h \in M PROVE \E q \in Owners : haOwner'[q].handle = h
    BY <1>7
  <2>1. PICK q \in Owners : haOwner[q].handle = h
    BY <1>4, <1>5
  <2>2. q # o
    BY <1>4, <2>1
  <2>3. CASE q = p
    BY <1>2, <2>1, <2>3
  <2>4. CASE q # p
    BY <1>2, <2>1, <2>2, <2>4
  <2> QED
    BY <2>3, <2>4
<1> QED
  BY <1>8, <1>9, <1>10 DEF HaOwned

\* The object o has no handle any more, or has none yet.
LEMMA HandleFreed ==
  ASSUME HaInv, HaType', haShared' = haShared, NEW o \in Owners,
         Live(haOpen, haLost)' = Live(haOpen, haLost) \ {haOwner[o].handle},
         haOwner'[o].handle = None,
         \A p \in Owners \ {o} : haOwner'[p] = haOwner[p]
  PROVE  HaOwned'
<1> USE DEF None
<1> DEFINE L == Live(haOpen, haLost)
           M == Live(haOpen, haLost)'
           S == haShared
<1>1. HaHolds /\ HaApart /\ HaHeld
  BY DEF HaInv
<1>3. \A p \in Owners \ {o} : haOwner[p].handle # 0 =>
        /\ haOwner[p].there
        /\ haOwner[p].handle \in S \/ haOwner[p].handle \in L \ {haOwner[o].handle}
  BY <1>1 DEF HaHolds, HaApart
<1>4. M = L \ {haOwner[o].handle}
  OBVIOUS
<1>5. \A h \in L : \E p \in Owners : haOwner[p].handle = h
  BY <1>1 DEF HaHeld
<1>6. HaHolds' <=> \A p \in Owners : haOwner'[p].handle # 0 =>
                     haOwner'[p].there /\ haOwner'[p].handle \in M \cup S
  BY DEF HaHolds
<1>7. HaHeld' <=> \A h \in M : \E p \in Owners : haOwner'[p].handle = h
  BY DEF HaHeld
<1> HIDE DEF L, M, S
<1>8. HaHolds' /\ HaApart'
  BY <1>1, <1>3, <1>4, <1>6 DEF HaApart, S
<1>9. HaHeld'
  BY <1>4, <1>5, <1>7
<1> QED
  BY <1>8, <1>9 DEF HaOwned

LEMMA HaFacts ==
  ASSUME HaInv, NEW o \in Owners
  PROVE  /\ haOwner[o] \in OwnerType /\ haOwner[o].handle \in 0 .. Len(haOpen)
         /\ haOpen \in Seq(HandleType) /\ haLost \in SUBSET (1 .. Len(haOpen))
         /\ Len(haOpen) \in Nat
         /\ ~ haOwner[o].there => haOwner[o].handle = None
         /\ Len(haOpen) + 1 \notin Live(haOpen, haLost)
         /\ None \notin Live(haOpen, haLost)
         /\ haOwner[o].handle # None => haOwner[o].handle \in Live(haOpen, haLost) \cup haShared
<1>1. /\ haOwner[o] \in OwnerType
      /\ haOpen \in Seq(HandleType) /\ haLost \in SUBSET (1 .. Len(haOpen))
  BY DEF HaInv, HaType
<1>2. Len(haOpen) \in Nat
  BY <1>1
<1>3. haOwner[o].handle # None =>
        haOwner[o].there /\ haOwner[o].handle \in Live(haOpen, haLost) \cup haShared
  BY DEF HaInv, HaHolds
<1>4. Live(haOpen, haLost) \cup haShared \subseteq 1 .. Len(haOpen)
  BY DEF Live, HaInv, HaType
<1> QED
  BY <1>1, <1>2, <1>3, <1>4 DEF OwnerType, None

-----------------------------------------------------------------------------
\* A new handle is made, and o has it, which had none or whose own is closed.
LEMMA HandleMade ==
  ASSUME HaInv, NEW o \in Owners, NEW e \in HandleType, e.state = "open",
         haOpen' = CloseHandle(Append(haOpen, e), haOwner[o].handle),
         haOwner' = [haOwner EXCEPT ![o] = Holding(Len(haOpen) + 1)],
         haLost' = haLost, haShared' = haShared
  PROVE  HaInv'
<1> DEFINE n == Len(haOpen) + 1
           h == haOwner[o].handle
           more == Append(haOpen, e)
           L == Live(haOpen, haLost)
<1>1. /\ haOpen \in Seq(HandleType) /\ haLost \in SUBSET (1 .. Len(haOpen))
      /\ Len(haOpen) \in Nat /\ h \in 0 .. Len(haOpen) /\ n \notin L
  BY HaFacts
<1>2. /\ more \in Seq(HandleType) /\ Len(more) = n /\ Live(more, haLost) = L \cup {n}
      /\ Live(haOpen, {}) \subseteq Live(more, {}) /\ Twice(more) = Twice(haOpen)
  <2>1. /\ more \in Seq(HandleType) /\ Len(more) = n /\ Live(more, haLost) = L \cup {n}
        /\ Twice(more) = Twice(haOpen)
    BY <1>1, AppendLive
  <2>2. Live(more, {}) = Live(haOpen, {}) \cup {n}
    BY <1>1, AppendLive
  <2> QED
    BY <2>1, <2>2
<1>3. h \in 0 .. Len(more) /\ h # n
  BY <1>1, <1>2
<1>10. h = 0 \/ h \in Live(haOpen, {}) \cup haShared
  BY HaFacts DEF None, Live
<1>11. Twice(haOpen) \subseteq haShared /\ haShared \subseteq 1 .. Len(haOpen)
  BY DEF HaInv, HaOnce, HaType
<1> HIDE DEF more, h, n, L
<1>4. haOpen' = CloseHandle(more, h)
  BY DEF more, h
<1>5. /\ haOpen' \in Seq(HandleType) /\ Len(haOpen') = n
      /\ Live(haOpen', haLost) = (L \cup {n}) \ {h}
      /\ Twice(haOpen') \subseteq Twice(haOpen) \cup ({h} \ Live(more, {}))
  <2> DEFINE less == CloseHandle(more, h)
  <2>1. /\ less \in Seq(HandleType) /\ Len(less) = Len(more)
        /\ Live(less, haLost) = Live(more, haLost) \ {h}
        /\ Twice(less) \subseteq Twice(more) \cup ({h} \ Live(more, {}))
    BY <1>2, <1>3, CloseLive, CloseTwice
  <2> QED
    BY <1>2, <1>4, <2>1
<1>6. n \in Nat \ {0} /\ 1 .. Len(haOpen) \subseteq 1 .. n
  BY <1>1 DEF n
<1>7. HaType'
  <2>1. Holding(n) \in OwnerType
    BY <1>6 DEF Holding, OwnerType
  <2>2. haOwner' \in [Owners -> OwnerType]
    BY <2>1 DEF HaInv, HaType, n
  <2>3. haLost' \subseteq 1 .. Len(haOpen') /\ haShared' \subseteq 1 .. Len(haOpen')
    BY <1>1, <1>5, <1>6, <1>11
  <2> QED
    BY <1>5, <2>2, <2>3 DEF HaType
<1>8. Live(haOpen, haLost)' = (L \ {h}) \cup {n}
  BY <1>3, <1>5
<1>9. HaOwned'
  BY <1>1, <1>6, <1>7, <1>8, HandleGiven DEF L, h, n
<1>12. 0 \notin Twice(haOpen')
  BY DEF Twice
<1>13. HaOnce'
  BY <1>2, <1>5, <1>10, <1>11, <1>12 DEF HaOnce
<1> QED
  BY <1>7, <1>9, <1>13 DEF HaInv, HaOwned

LEMMA HandleEntry ==
  ASSUME NEW kind \in {"thread", "process", "file", "foreach", "token"}, NEW thread \in Nat
  PROVE  Handle(kind, thread) \in HandleType /\ Handle(kind, thread).state = "open"
  BY DEF Handle, HandleType

\* A handle to an object that has none.
LEMMA NothingToClose ==
  ASSUME HaInv, NEW o \in Owners, ~ haOwner[o].there, NEW open
  PROVE  CloseHandle(open, haOwner[o].handle) = open
  BY HaFacts DEF CloseHandle

LEMMA CreateStep ==
  ASSUME HaInv, NEW o \in Owners, Create(o), Len(haThreads) \in Nat
  PROVE  HaInv'
<1> DEFINE e == Handle("thread", Len(haThreads) + 1)
<1>1. e \in HandleType /\ e.state = "open"
  BY HandleEntry
<1>2. haOpen' = Append(haOpen, e) /\ ~ haOwner[o].there /\ haLost' = haLost
      /\ haShared' = haShared /\ haOwner' = [haOwner EXCEPT ![o] = Holding(Len(haOpen) + 1)]
  BY DEF Create
<1> HIDE DEF e
<1>3. haOpen' = CloseHandle(Append(haOpen, e), haOwner[o].handle)
  BY <1>2, NothingToClose
<1> QED
  BY <1>1, <1>2, <1>3, HandleMade

LEMMA OpenStep ==
  ASSUME HaInv, NEW o \in Owners, Open(o)
  PROVE  HaInv'
<1>1. ~ haOwner[o].there /\ haLost' = haLost /\ haShared' = haShared /\ KindOf[o] \in {"thread", "process", "file"}
  BY DEF Open, Rest
<1>2. CASE /\ haOpen' = Append(haOpen, Handle(KindOf[o], None))
           /\ haOwner' = [haOwner EXCEPT ![o] = Holding(Len(haOpen) + 1)]
  <2> DEFINE e == Handle(KindOf[o], None)
  <2>1. e \in HandleType /\ e.state = "open"
    BY <1>1, HandleEntry DEF None
  <2>2. haOpen' = Append(haOpen, e)
    BY <1>2
  <2> HIDE DEF e
  <2>3. haOpen' = CloseHandle(Append(haOpen, e), haOwner[o].handle)
    BY <1>1, <2>2, NothingToClose
  <2> QED
    BY <1>1, <1>2, <2>1, <2>3, HandleMade
<1>3. CASE haOwner' = [haOwner EXCEPT ![o] = Holding(None)] /\ haOpen' = haOpen
  <2>1. HaType'
    BY <1>1, <1>3 DEF HaInv, HaType, Holding, OwnerType, None
  <2>2. /\ haOwner'[o].handle = None
        /\ \A p \in Owners \ {o} : haOwner'[p] = haOwner[p]
    BY <1>3 DEF HaInv, HaType, Holding
  <2>3. Live(haOpen, haLost)' = Live(haOpen, haLost) \ {haOwner[o].handle}
    BY <1>1, <1>3, HaFacts
  <2>4. HaOnce'
    BY <1>1, <1>3 DEF HaInv, HaOnce
  <2> QED
    BY <1>1, <2>1, <2>2, <2>3, <2>4, HandleFreed DEF HaInv, HaOwned
<1> QED
  BY <1>2, <1>3 DEF Open

LEMMA DuplicateStep ==
  ASSUME HaInv, NEW o \in Owners, NEW from \in Owners,
         Duplicate(o, from) \/ DuplicateAssign(o, from)
  PROVE  HaInv'
<1> DEFINE e == SecondHandle(haOwner[from].handle)
<1>1. haOwner[from].handle # None /\ haLost' = haLost /\ haShared' = haShared
      /\ haOwner' = [haOwner EXCEPT ![o] = Holding(Len(haOpen) + 1)]
  BY DEF Duplicate, DuplicateAssign, Rest
<1>2. haOpen[haOwner[from].handle] \in HandleType
  BY <1>1, HaFacts DEF None
<1>3. e \in HandleType /\ e.state = "open"
  BY <1>2 DEF SecondHandle, Handle, HandleType
<1> HIDE DEF e
<1>4. haOpen' = CloseHandle(Append(haOpen, e), haOwner[o].handle)
  <2>1. CASE Duplicate(o, from)
    <3>1. ~ haOwner[o].there /\ haOpen' = Append(haOpen, e)
      BY <2>1 DEF Duplicate, e
    <3> QED
      BY <3>1, NothingToClose
  <2>2. CASE DuplicateAssign(o, from)
    BY <2>2 DEF DuplicateAssign, e
  <2> QED
    BY <2>1, <2>2
<1> QED
  BY <1>1, <1>3, <1>4, HandleMade

\* The handle of o is closed.
LEMMA HandleClosed ==
  ASSUME HaInv, NEW o \in Owners, haOpen' = CloseHandle(haOpen, haOwner[o].handle),
         haLost' = haLost, haShared' = haShared
  PROVE  /\ haOpen' \in Seq(HandleType) /\ haLost' \subseteq 1 .. Len(haOpen')
         /\ haShared' \subseteq 1 .. Len(haOpen')
         /\ Live(haOpen, haLost)' = Live(haOpen, haLost) \ {haOwner[o].handle}
         /\ HaOnce'
<1> DEFINE h == haOwner[o].handle
           less == CloseHandle(haOpen, h)
<1>1. /\ haOpen \in Seq(HandleType) /\ haLost \in SUBSET (1 .. Len(haOpen))
      /\ h \in 0 .. Len(haOpen) /\ (h = 0 \/ h \in Live(haOpen, {}) \cup haShared)
  BY HaFacts DEF None, Live
<1> HIDE DEF h
<1>2. /\ less \in Seq(HandleType) /\ Len(less) = Len(haOpen)
      /\ Live(less, haLost) = Live(haOpen, haLost) \ {h}
      /\ Twice(less) \subseteq Twice(haOpen) \cup ({h} \ Live(haOpen, {}))
  <2>1. haOpen \in Seq(HandleType) /\ h \in 0 .. Len(haOpen)
    BY <1>1
  <2>2. /\ less \in Seq(HandleType) /\ Len(less) = Len(haOpen)
        /\ Live(less, haLost) = Live(haOpen, haLost) \ {h}
    BY <2>1, CloseLive
  <2> QED
    BY <2>1, <2>2, CloseTwice
<1>3. haOpen' = less
  BY DEF h
<1> HIDE DEF less
<1>4. HaOnce'
  <2>1. 0 \notin Twice(less)
    BY DEF Twice
  <2> QED
    BY <1>1, <1>2, <1>3, <2>1 DEF HaInv, HaOnce
<1>5. haShared \subseteq 1 .. Len(haOpen)
  BY DEF HaInv, HaType
<1> QED
  BY <1>1, <1>2, <1>3, <1>4, <1>5 DEF h

LEMMA HandOverStep ==
  ASSUME HaInv, NEW o \in Owners, NEW from \in Owners, o # from,
         MoveNew(o, from) \/ TakeOver(o, from)
  PROVE  HaInv'
<1>1. /\ haOwner[from].there /\ haLost' = haLost /\ haShared' = haShared
      /\ haOwner' = [haOwner EXCEPT ![o] = haOwner[from], ![from] = Holding(None)]
  BY DEF MoveNew, TakeOver, Rest
<1>2. haOpen' = CloseHandle(haOpen, haOwner[o].handle)
  <2>1. CASE MoveNew(o, from)
    <3>1. ~ haOwner[o].there /\ haOpen' = haOpen
      BY <2>1 DEF MoveNew, Rest
    <3> QED
      BY <3>1, NothingToClose
  <2>2. CASE TakeOver(o, from)
    BY <2>2 DEF TakeOver
  <2> QED
    BY <2>1, <2>2
<1>3. /\ haOpen' \in Seq(HandleType) /\ haLost' \subseteq 1 .. Len(haOpen')
      /\ haShared' \subseteq 1 .. Len(haOpen') /\ HaOnce'
      /\ Live(haOpen, haLost)' = Live(haOpen, haLost) \ {haOwner[o].handle}
  BY <1>1, <1>2, HandleClosed
<1>4. haOwner' \in [Owners -> OwnerType]
  <2>1. Holding(None) \in OwnerType
    BY DEF Holding, OwnerType, None
  <2> QED
    BY <1>1, <2>1 DEF HaInv, HaType
<1>5. HaType'
  BY <1>3, <1>4 DEF HaType
<1>6. HaOwned'
  BY <1>1, <1>3, <1>5, HandlePassed
<1> QED
  BY <1>3, <1>5, <1>6 DEF HaInv, HaOwned

LEMMA CloseStep ==
  ASSUME HaInv, NEW o \in Owners, Destroy(o) \/ CloseOwner(o)
  PROVE  HaInv'
<1>1. haOpen' = CloseHandle(haOpen, haOwner[o].handle) /\ haLost' = haLost /\ haShared' = haShared
  BY DEF Destroy, CloseOwner, Rest
<1>2. /\ haOpen' \in Seq(HandleType) /\ haLost' \subseteq 1 .. Len(haOpen')
      /\ haShared' \subseteq 1 .. Len(haOpen') /\ HaOnce'
      /\ Live(haOpen, haLost)' = Live(haOpen, haLost) \ {haOwner[o].handle}
  BY <1>1, HandleClosed
<1>3. PICK e \in OwnerType : e.handle = None /\ haOwner' = [haOwner EXCEPT ![o] = e]
  <2>1. NoObject \in OwnerType /\ NoObject.handle = None
    BY DEF NoObject, OwnerType, None
  <2> DEFINE e == [haOwner[o] EXCEPT !.handle = None]
  <2>2. e \in OwnerType /\ e.handle = None
    BY HaFacts DEF OwnerType, None
  <2>3. CASE Destroy(o)
    BY <2>1, <2>3 DEF Destroy
  <2>4. CASE CloseOwner(o)
    <3>1. haOwner' = [haOwner EXCEPT ![o] = e]
      BY <2>4 DEF CloseOwner
    <3> HIDE DEF e
    <3> QED
      BY <2>2, <3>1
  <2> QED
    BY <2>3, <2>4
<1>4. /\ haOwner' \in [Owners -> OwnerType] /\ haOwner'[o].handle = None
      /\ \A p \in Owners \ {o} : haOwner'[p] = haOwner[p]
  BY <1>3 DEF HaInv, HaType
<1>5. HaType'
  BY <1>2, <1>4 DEF HaType
<1> QED
  BY <1>1, <1>2, <1>4, <1>5, HandleFreed DEF HaInv, HaOwned

LEMMA FirstStep ==
  ASSUME HaInv, NEW o \in Owners, FirstFile(o)
  PROVE  HaInv'
<1> DEFINE n == Len(haOpen) + 1
           h == haOwner[o].handle
           e == Handle("foreach", None)
           L == Live(haOpen, haLost)
<1>1. /\ haOpen \in Seq(HandleType) /\ haLost \in SUBSET (1 .. Len(haOpen))
      /\ Len(haOpen) \in Nat /\ h \in 0 .. Len(haOpen) /\ n \notin L /\ None \notin L
  BY HaFacts
<1>2. e \in HandleType /\ e.state = "open"
  BY HandleEntry DEF None
<1>3. /\ haOpen' = Append(haOpen, e) /\ haLost' = haLost \cup ({h} \ {None})
      /\ haShared' = haShared /\ haOwner' = [haOwner EXCEPT ![o] = Holding(n)]
  BY DEF FirstFile
<1> HIDE DEF e
<1>4. /\ haOpen' \in Seq(HandleType) /\ Len(haOpen') = n /\ Live(haOpen', haLost) = L \cup {n}
      /\ Twice(haOpen') = Twice(haOpen)
  BY <1>1, <1>2, <1>3, AppendLive
<1>10. HaOnce' /\ haShared \subseteq 1 .. Len(haOpen)
  BY <1>3, <1>4 DEF HaInv, HaOnce, HaType
<1>5. n \in Nat \ {0} /\ h # n /\ h \in 0 .. n /\ 1 .. Len(haOpen) \subseteq 1 .. n
  BY <1>1
<1>6. Live(haOpen', haLost') = Live(haOpen', haLost) \ ({h} \ {None})
  BY <1>3 DEF Live
<1> HIDE DEF n, L, h
<1>7. Live(haOpen', haLost') = (L \ {h}) \cup {n}
  BY <1>1, <1>4, <1>5, <1>6 DEF None
<1>8. HaType'
  <2>1. Holding(n) \in OwnerType
    BY <1>5 DEF Holding, OwnerType
  <2>2. haOwner' \in [Owners -> OwnerType]
    BY <1>3, <2>1 DEF HaInv, HaType
  <2>3. {h} \ {None} \subseteq 1 .. n
    BY <1>5 DEF None
  <2>4. haLost' \subseteq 1 .. Len(haOpen') /\ haShared' \subseteq 1 .. Len(haOpen')
    BY <1>1, <1>3, <1>4, <1>5, <1>10, <2>3
  <2> QED
    BY <1>4, <2>2, <2>4 DEF HaType
<1>9. HaOwned'
  BY <1>1, <1>3, <1>5, <1>7, <1>8, HandleGiven DEF L, h
<1> QED
  BY <1>8, <1>9, <1>10 DEF HaInv, HaOwned

LEMMA PrivilegeStep ==
  ASSUME HaInv, NEW o \in Owners, Privilege(o)
  PROVE  HaInv'
<1> DEFINE n == Len(haOpen) + 1
           e == Handle("token", None)
           more == Append(haOpen, e)
           L == Live(haOpen, haLost)
<1>1. /\ haOpen \in Seq(HandleType) /\ haLost \in SUBSET (1 .. Len(haOpen))
      /\ Len(haOpen) \in Nat /\ n \notin L
  BY HaFacts
<1>2. e \in HandleType /\ e.state = "open"
  BY HandleEntry DEF None
<1>3. haOpen' = CloseHandle(more, n) /\ UNCHANGED <<haOwner, haLost, haShared>>
  BY DEF Privilege, Rest
<1> HIDE DEF e
<1>4. /\ more \in Seq(HandleType) /\ Len(more) = n /\ Live(more, haLost) = L \cup {n}
      /\ Twice(more) = Twice(haOpen)
  BY <1>1, <1>2, AppendLive
<1>10. n \in Live(more, {})
  <2>1. Live(more, {}) = Live(haOpen, {}) \cup {n}
    BY <1>1, <1>2, AppendLive
  <2> QED
    BY <2>1
<1>11. Twice(haOpen) \subseteq haShared /\ haShared \subseteq 1 .. Len(haOpen)
  BY DEF HaInv, HaOnce, HaType
<1>5. n \in 0 .. Len(more) /\ 1 .. Len(haOpen) \subseteq 1 .. n
  BY <1>1, <1>4
<1> HIDE DEF more, n, L
<1>6. /\ haOpen' \in Seq(HandleType) /\ Len(haOpen') = n
      /\ Live(haOpen', haLost) = (L \cup {n}) \ {n}
      /\ Twice(haOpen') \subseteq Twice(haOpen) \cup ({n} \ Live(more, {}))
  <2> DEFINE less == CloseHandle(more, n)
  <2>1. /\ less \in Seq(HandleType) /\ Len(less) = Len(more)
        /\ Live(less, haLost) = Live(more, haLost) \ {n}
        /\ Twice(less) \subseteq Twice(more) \cup ({n} \ Live(more, {}))
    <3>1. more \in Seq(HandleType) /\ n \in 0 .. Len(more)
      BY <1>4, <1>5
    <3> HIDE DEF less
    <3>2. /\ less \in Seq(HandleType) /\ Len(less) = Len(more)
          /\ Live(less, haLost) = Live(more, haLost) \ {n}
      BY <3>1, CloseLive DEF less
    <3>3. Twice(less) \subseteq Twice(more) \cup ({n} \ Live(more, {}))
      BY <3>1, CloseTwice DEF less
    <3> QED
      BY <3>2, <3>3
  <2> QED
    BY <1>3, <1>4, <2>1
<1>7. Live(haOpen, haLost)' = L
  BY <1>1, <1>3, <1>6
<1>8. HaType'
  BY <1>1, <1>3, <1>5, <1>6, <1>11 DEF HaInv, HaType
<1>9. HaOwned'
  BY <1>3, <1>7 DEF HaInv, HaOwned, HaHolds, HaApart, HaHeld, L
<1>12. HaOnce'
  BY <1>3, <1>6, <1>10, <1>11 DEF HaOnce
<1> QED
  BY <1>8, <1>9, <1>12 DEF HaInv, HaOwned

\* The copy of a search and its assignment: what the other one has is shared.
LEMMA ShareStep ==
  ASSUME HaInv, NEW o \in Owners, NEW from \in Owners, o # from,
         CopySearch(o, from) \/ AssignSearch(o, from)
  PROVE  HaInv'
<1> DEFINE h == haOwner[o].handle
           g == haOwner[from].handle
<1>1. /\ haOwner[from].there /\ haOpen' = haOpen
      /\ haOwner' = [haOwner EXCEPT ![o] = haOwner[from]]
      /\ haShared' = haShared \cup ({g} \ {None})
  BY DEF CopySearch, AssignSearch
<1>2. haLost' = haLost \cup ({h} \ {None, g})
  <2>1. CASE CopySearch(o, from)
    <3>1. h = None
      BY <2>1, HaFacts DEF CopySearch
    <3> QED
      BY <2>1, <3>1 DEF CopySearch
  <2>2. CASE AssignSearch(o, from)
    BY <2>2 DEF AssignSearch
  <2> QED
    BY <2>1, <2>2
<1>3. /\ HaType /\ HaHolds /\ HaApart /\ HaHeld /\ HaOnce
      /\ h \in 0 .. Len(haOpen) /\ g \in 0 .. Len(haOpen) /\ Len(haOpen) \in Nat
  BY HaFacts DEF HaInv
<1>4. /\ haOwner'[o] = haOwner[from] /\ \A p \in Owners \ {o} : haOwner'[p] = haOwner[p]
      /\ haOwner'[from] = haOwner[from]
  BY <1>1, <1>3 DEF HaType
<1>5. HaType'
  <2>1. haOwner' \in [Owners -> OwnerType]
    BY <1>1, <1>3 DEF HaType
  <2>2. {h} \ {None, g} \subseteq 1 .. Len(haOpen) /\ {g} \ {None} \subseteq 1 .. Len(haOpen)
    BY <1>3 DEF None
  <2> HIDE DEF h, g
  <2> QED
    BY <1>1, <1>2, <1>3, <2>1, <2>2 DEF HaType
<1>6. Live(haOpen, haLost)' = Live(haOpen, haLost) \ ({h} \ {None, g})
  BY <1>1, <1>2 DEF Live
<1> DEFINE L == Live(haOpen, haLost)
           M == Live(haOpen, haLost)'
<1>7. \A p \in Owners : haOwner[p].handle # None =>
        haOwner[p].there /\ haOwner[p].handle \in L \cup haShared
  BY <1>3 DEF HaHolds
<1>8. \A l \in L : \E p \in Owners : haOwner[p].handle = l
  BY <1>3 DEF HaHeld
<1>9. /\ HaHolds' <=> \A p \in Owners : haOwner'[p].handle # None =>
                        haOwner'[p].there /\ haOwner'[p].handle \in M \cup haShared'
      /\ HaHeld' <=> \A l \in M : \E p \in Owners : haOwner'[p].handle = l
  BY DEF HaHolds, HaHeld
<1> HIDE DEF L, M
<1>10. HaHolds'
  <2> SUFFICES ASSUME NEW p \in Owners, haOwner'[p].handle # None
               PROVE  haOwner'[p].there /\ haOwner'[p].handle \in M \cup haShared'
    BY <1>9
  <2>1. CASE haOwner'[p].handle = g
    BY <1>1, <1>4, <1>7, <2>1
  <2>2. CASE haOwner'[p].handle # g
    <3>1. p # o /\ haOwner'[p] = haOwner[p]
      BY <1>4, <2>2
    <3>2. haOwner[p].there /\ haOwner[p].handle \in L \cup haShared
      BY <1>7, <3>1
    <3>3. haOwner[p].handle = h => haOwner[p].handle \in haShared
      BY <1>3, <3>1 DEF HaApart
    <3> QED
      BY <1>1, <1>6, <3>1, <3>2, <3>3 DEF L, M
  <2> QED
    BY <2>1, <2>2
<1>11. HaApart'
  <2> SUFFICES ASSUME NEW p \in Owners, NEW q \in Owners, p # q, haOwner'[p].handle # None,
                      haOwner'[p].handle = haOwner'[q].handle
               PROVE  haOwner'[p].handle \in haShared'
    BY DEF HaApart
  <2>1. CASE haOwner'[p].handle = g
    BY <1>1, <2>1
  <2>2. CASE haOwner'[p].handle # g
    <3>1. p # o /\ q # o
      BY <1>4, <2>2
    <3>2. haOwner'[p] = haOwner[p] /\ haOwner'[q] = haOwner[q]
      BY <1>4, <3>1
    <3> QED
      BY <1>1, <1>3, <3>2 DEF HaApart
  <2> QED
    BY <2>1, <2>2
<1>12. HaHeld'
  <2> SUFFICES ASSUME NEW l \in M PROVE \E p \in Owners : haOwner'[p].handle = l
    BY <1>9
  <2>1. l \in L /\ l \notin {h} \ {None, g}
    BY <1>6 DEF L, M
  <2>2. PICK p \in Owners : haOwner[p].handle = l
    BY <1>8, <2>1
  <2>3. CASE p # o
    BY <1>4, <2>2, <2>3
  <2>4. CASE p = o
    <3>1. l = h /\ l # None
      BY <2>1, <2>2, <2>4 DEF L, Live, None
    <3>2. l = g
      BY <2>1, <3>1
    <3> QED
      BY <1>4, <3>2
  <2> QED
    BY <2>3, <2>4
<1>13. HaOnce'
  BY <1>1, <1>3 DEF HaOnce
<1> QED
  BY <1>5, <1>10, <1>11, <1>12, <1>13 DEF HaInv

\* The system's threads, which are resumed no more often than suspended; what
\* a handle of a thread is for is one of them.
ThreadType == [suspended : Nat, state : {"running", "ended"}]
ThreadsOf(open) == {open[h].thread : h \in 1 .. Len(open)}
HaSystem == /\ haThreads \in Seq(ThreadType)
            /\ ThreadsOf(haOpen) \subseteq 0 .. Len(haThreads)

LEMMA AppendThreads ==
  ASSUME NEW open \in Seq(HandleType), NEW e
  PROVE  ThreadsOf(Append(open, e)) = ThreadsOf(open) \cup {e.thread}
<1> DEFINE more == Append(open, e)
<1>1. /\ Len(open) \in Nat /\ Len(more) = Len(open) + 1
      /\ more[Len(open) + 1] = e /\ \A h \in 1 .. Len(open) : more[h] = open[h]
  OBVIOUS
<1> HIDE DEF more
<1>2. ThreadsOf(more) = ThreadsOf(open) \cup {e.thread}
  BY <1>1 DEF ThreadsOf
<1> QED
  BY <1>2 DEF more

LEMMA CloseThreads ==
  ASSUME NEW open \in Seq(HandleType), NEW h
  PROVE  ThreadsOf(CloseHandle(open, h)) = ThreadsOf(open)
<1> DEFINE less == CloseHandle(open, h)
           closed == [open[h] EXCEPT !.state = IF @ = "open" THEN "closed" ELSE "twice"]
<1>1. CASE h \notin 1 .. Len(open)
  <2>1. less = open
    BY <1>1 DEF CloseHandle
  <2> QED
    BY <2>1
<1>2. CASE h \in 1 .. Len(open) /\ h # None
  <2>1. less = [open EXCEPT ![h] = closed]
    BY <1>2 DEF CloseHandle
  <2>2. open[h] \in HandleType
    BY <1>2
  <2>3. closed.thread = open[h].thread
    BY <2>2 DEF HandleType
  <2> HIDE DEF closed, less
  <2>4. /\ Len(less) = Len(open)
        /\ \A g \in 1 .. Len(open) : less[g].thread = open[g].thread
    BY <1>2, <2>1, <2>3
  <2>5. ThreadsOf(less) = ThreadsOf(open)
    BY <2>4 DEF ThreadsOf
  <2> QED
    BY <2>5 DEF less
<1>3. CASE h = None
  BY <1>3 DEF CloseHandle
<1> QED
  BY <1>1, <1>2, <1>3

LEMMA SystemKept ==
  ASSUME HaInv, HaSystem, [HaNext]_haVars
  PROVE  HaSystem'
<1>1. /\ haThreads \in Seq(ThreadType) /\ haOpen \in Seq(HandleType) /\ Len(haThreads) \in Nat
      /\ ThreadsOf(haOpen) \subseteq 0 .. Len(haThreads)
  BY DEF HaInv, HaType, HaSystem
<1>2. ASSUME NEW o \in Owners, Create(o) PROVE HaSystem'
  <2> DEFINE e == Handle("thread", Len(haThreads) + 1)
             u == [suspended |-> 0, state |-> "running"]
  <2>1. u \in ThreadType /\ e.thread = Len(haThreads) + 1
    BY DEF ThreadType, Handle
  <2>2. haThreads' = Append(haThreads, u) /\ haOpen' = Append(haOpen, e)
    BY <1>2 DEF Create
  <2> HIDE DEF e, u
  <2>3. haThreads' \in Seq(ThreadType) /\ Len(haThreads') = Len(haThreads) + 1
    BY <1>1, <2>1, <2>2
  <2>4. ThreadsOf(haOpen') = ThreadsOf(haOpen) \cup {e.thread}
    BY <1>1, <2>2, AppendThreads
  <2>5. ThreadsOf(haOpen') \subseteq 0 .. Len(haThreads')
    BY <1>1, <2>1, <2>3, <2>4
  <2> QED
    BY <2>3, <2>5 DEF HaSystem
<1>3. ASSUME haThreads' = haThreads, ThreadsOf(haOpen') \subseteq ThreadsOf(haOpen) \cup {0}
      PROVE  HaSystem'
  BY <1>1, <1>3 DEF HaSystem
<1>4. ASSUME haOpen' = haOpen, NEW t \in 1 .. Len(haThreads),
             NEW e \in ThreadType, haThreads' = [haThreads EXCEPT ![t] = e]
      PROVE  HaSystem'
  <2>1. haThreads \in [1 .. Len(haThreads) -> ThreadType]
    BY <1>1
  <2>2. haThreads' \in [1 .. Len(haThreads) -> ThreadType]
    BY <1>4, <2>1
  <2>3. haThreads' \in Seq(ThreadType) /\ Len(haThreads') = Len(haThreads)
    BY <1>1, <2>2
  <2> QED
    BY <1>1, <1>4, <2>3 DEF HaSystem
<1>5. ASSUME haOpen' = haOpen, NEW t \in 1 .. Len(haThreads),
             \/ haThreads' = [haThreads EXCEPT ![t].suspended = @ + 1]
             \/ haThreads[t].suspended > 0 /\ haThreads' = [haThreads EXCEPT ![t].suspended = @ - 1]
             \/ haThreads' = [haThreads EXCEPT ![t].state = "ended"]
      PROVE  HaSystem'
  <2> DEFINE r == haThreads[t]
             more == [r EXCEPT !.suspended = @ + 1]
             less == [r EXCEPT !.suspended = @ - 1]
             ended == [r EXCEPT !.state = "ended"]
  <2>1. r \in ThreadType
    BY <1>1
  <2>2. CASE haThreads' = [haThreads EXCEPT ![t].suspended = @ + 1]
    <3>1. more \in ThreadType
      BY <2>1 DEF ThreadType
    <3>2. haThreads' = [haThreads EXCEPT ![t] = more]
      BY <2>2
    <3> HIDE DEF more
    <3> QED
      BY <1>4, <1>5, <3>1, <3>2
  <2>3. CASE r.suspended > 0 /\ haThreads' = [haThreads EXCEPT ![t].suspended = @ - 1]
    <3>1. less \in ThreadType
      BY <2>1, <2>3 DEF ThreadType
    <3>2. haThreads' = [haThreads EXCEPT ![t] = less]
      BY <2>3
    <3> HIDE DEF less
    <3> QED
      BY <1>4, <1>5, <3>1, <3>2
  <2>4. CASE haThreads' = [haThreads EXCEPT ![t].state = "ended"]
    <3>1. ended \in ThreadType
      BY <2>1 DEF ThreadType
    <3>2. haThreads' = [haThreads EXCEPT ![t] = ended]
      BY <2>4
    <3> HIDE DEF ended
    <3> QED
      BY <1>4, <1>5, <3>1, <3>2
  <2> QED
    BY <1>5, <2>2, <2>3, <2>4
<1>6. ASSUME NEW o \in Owners, Suspend(o) \/ Resume(o)
      PROVE  HaSystem'
  <2>1. haOpen' = haOpen /\ ThreadOf(o) # None
    BY <1>6 DEF Suspend, Resume, Running, NoHandleChanges
  <2>2. ThreadOf(o) \in 1 .. Len(haThreads)
    <3>1. haOwner[o].handle \in 1 .. Len(haOpen) /\ ThreadOf(o) = haOpen[haOwner[o].handle].thread
      BY <2>1, HaFacts DEF ThreadOf, None
    <3>2. ThreadOf(o) \in ThreadsOf(haOpen)
      BY <3>1 DEF ThreadsOf
    <3> QED
      BY <1>1, <2>1, <3>2 DEF None
  <2>3. CASE Suspend(o)
    BY <1>5, <2>1, <2>2, <2>3 DEF Suspend
  <2>4. CASE Resume(o)
    BY <1>5, <2>1, <2>2, <2>4 DEF Resume
  <2> QED
    BY <1>6, <2>3, <2>4
<1>7. ASSUME NEW t \in DOMAIN haThreads, End(t) PROVE HaSystem'
  <2>1. haOpen' = haOpen /\ haThreads' = [haThreads EXCEPT ![t].state = "ended"]
    BY <1>7 DEF End, NoHandleChanges
  <2>2. t \in 1 .. Len(haThreads)
    BY <1>1
  <2> QED
    BY <1>5, <2>1, <2>2
<1>8. ASSUME NEW h, NEW e \in HandleType, e.thread \in ThreadsOf(haOpen) \cup {0},
             haOpen' \in {Append(haOpen, e), CloseHandle(Append(haOpen, e), h)},
             haThreads' = haThreads
      PROVE  HaSystem'
  <2> DEFINE more == Append(haOpen, e)
  <2>1. more \in Seq(HandleType)
    BY <1>1
  <2>2. ThreadsOf(more) = ThreadsOf(haOpen) \cup {e.thread}
    BY <1>1, AppendThreads
  <2> HIDE DEF more
  <2>3. ThreadsOf(CloseHandle(more, h)) = ThreadsOf(more)
    BY <2>1, CloseThreads
  <2>4. haOpen' = more \/ haOpen' = CloseHandle(more, h)
    BY <1>8 DEF more
  <2> QED
    BY <1>3, <1>8, <2>2, <2>3, <2>4
<1>9. ASSUME NEW h, haOpen' = haOpen \/ haOpen' = CloseHandle(haOpen, h), haThreads' = haThreads
      PROVE  HaSystem'
  <2>1. ThreadsOf(CloseHandle(haOpen, h)) = ThreadsOf(haOpen)
    BY <1>1, CloseThreads
  <2> QED
    BY <1>3, <1>9, <2>1
<1>10. ASSUME NEW o \in Owners, Open(o) PROVE HaSystem'
  <2> DEFINE e == Handle(KindOf[o], None)
  <2>1. CASE haOpen' = Append(haOpen, e)
    <3>1. e \in HandleType /\ e.thread = 0
      BY <1>10 DEF Open, Handle, HandleType, None
    <3>2. haThreads' = haThreads
      BY <1>10 DEF Open, Rest
    <3> HIDE DEF e
    <3> QED
      BY <1>8, <2>1, <3>1, <3>2
  <2>2. CASE haOpen' = haOpen
    BY <1>9, <1>10, <2>2 DEF Open, Rest
  <2> QED
    BY <1>10, <2>1, <2>2 DEF Open
<1>11. ASSUME NEW kind \in {"foreach", "token"}, NEW h, haThreads' = haThreads,
              haOpen' \in {Append(haOpen, Handle(kind, None)),
                           CloseHandle(Append(haOpen, Handle(kind, None)), h)}
       PROVE  HaSystem'
  <2> DEFINE e == Handle(kind, None)
  <2>1. e \in HandleType /\ e.thread = 0
    BY DEF Handle, HandleType, None
  <2>2. haOpen' \in {Append(haOpen, e), CloseHandle(Append(haOpen, e), h)}
    BY <1>11
  <2> HIDE DEF e
  <2> QED
    BY <1>8, <1>11, <2>1, <2>2
<1>12. ASSUME NEW o \in Owners, NEW from \in Owners, Duplicate(o, from) \/ DuplicateAssign(o, from)
       PROVE  HaSystem'
  <2> DEFINE e == SecondHandle(haOwner[from].handle)
  <2>1. haOwner[from].handle \in 1 .. Len(haOpen)
    BY <1>12, HaFacts DEF Duplicate, DuplicateAssign, None
  <2>2. e \in HandleType /\ e.thread \in ThreadsOf(haOpen)
    <3>1. haOpen[haOwner[from].handle] \in HandleType
      BY <1>1, <2>1
    <3>2. e \in HandleType /\ e.thread = haOpen[haOwner[from].handle].thread
      BY <3>1 DEF SecondHandle, Handle, HandleType
    <3> HIDE DEF e
    <3> QED
      BY <2>1, <3>2 DEF ThreadsOf
  <2>3. haOpen' \in {Append(haOpen, e), CloseHandle(Append(haOpen, e), haOwner[o].handle)}
    BY <1>12 DEF Duplicate, DuplicateAssign
  <2>4. haThreads' = haThreads
    BY <1>12 DEF Duplicate, DuplicateAssign, Rest
  <2> HIDE DEF e
  <2> QED
    BY <1>8, <2>2, <2>3, <2>4
<1>13. ASSUME NEW o \in Owners, FirstFile(o) \/ Privilege(o)
       PROVE  HaSystem'
  <2>1. CASE FirstFile(o)
    BY <1>11, <2>1 DEF FirstFile
  <2>2. CASE Privilege(o)
    BY <1>11, <2>2 DEF Privilege, Rest
  <2> QED
    BY <1>13, <2>1, <2>2
<1>14. ASSUME NEW o \in Owners, Destroy(o) \/ CloseOwner(o)
       PROVE  HaSystem'
  BY <1>9, <1>14 DEF Destroy, CloseOwner, Rest
<1>15. ASSUME NEW o \in Owners, NEW from,
              MoveNew(o, from) \/ TakeOver(o, from) \/ CopySearch(o, from) \/ AssignSearch(o, from)
       PROVE  HaSystem'
  BY <1>9, <1>15 DEF MoveNew, TakeOver, CopySearch, AssignSearch, Rest
<1>16. CASE UNCHANGED haVars
  BY <1>9, <1>16 DEF haVars
<1>17. CASE HaNext
  <2>1. CASE \E t \in DOMAIN haThreads : End(t)
    BY <1>7, <2>1
  <2>2. ASSUME NEW o \in Owners, NEW from \in Others(o),
               \/ Duplicate(o, from) \/ MoveNew(o, from) \/ TakeOver(o, from) \/ DuplicateAssign(o, from)
               \/ CopySearch(o, from) \/ AssignSearch(o, from)
        PROVE  HaSystem'
    BY <1>12, <1>15, <2>2 DEF Others
  <2>3. CASE \E o \in Owners :
               \/ Create(o) \/ Open(o) \/ Destroy(o) \/ CloseOwner(o) \/ FirstFile(o) \/ Privilege(o)
               \/ Suspend(o) \/ Resume(o)
               \/ \E from \in Others(o) : \/ Duplicate(o, from) \/ MoveNew(o, from)
                                          \/ TakeOver(o, from) \/ DuplicateAssign(o, from)
                                          \/ CopySearch(o, from) \/ AssignSearch(o, from)
    BY <1>2, <1>6, <1>10, <1>13, <1>14, <2>2, <2>3, Zenon
  <2> QED
    BY <1>17, <2>1, <2>3 DEF HaNext
<1> QED
  BY <1>16, <1>17

LEMMA HaInductive == HaInv /\ HaSystem /\ [HaNext]_haVars => HaInv'
<1> SUFFICES ASSUME HaInv, HaSystem, [HaNext]_haVars PROVE HaInv'
  OBVIOUS
<1>1. CASE UNCHANGED <<haOwner, haOpen, haLost, haShared>>
  BY <1>1 DEF HaInv, HaType, HaHolds, HaApart, HaHeld, HaOnce
<1>2. ASSUME NEW o \in Owners, Create(o) PROVE HaInv'
  <2>1. Len(haThreads) \in Nat
    BY DEF HaSystem
  <2> QED
    BY <1>2, <2>1, CreateStep
<1>3. ASSUME NEW o \in Owners, NEW from \in Others(o),
             \/ Duplicate(o, from) \/ MoveNew(o, from) \/ TakeOver(o, from) \/ DuplicateAssign(o, from)
             \/ CopySearch(o, from) \/ AssignSearch(o, from)
      PROVE  HaInv'
  <2>1. from \in Owners /\ o # from
    BY DEF Others
  <2> QED
    BY <1>3, <2>1, DuplicateStep, HandOverStep, ShareStep
<1>4. ASSUME NEW o \in Owners, Suspend(o) \/ Resume(o) PROVE HaInv'
  BY <1>1, <1>4 DEF Suspend, Resume, NoHandleChanges
<1>5. ASSUME NEW t \in DOMAIN haThreads, End(t) PROVE HaInv'
  BY <1>1, <1>5 DEF End, NoHandleChanges
<1>6. CASE UNCHANGED haVars
  BY <1>1, <1>6 DEF haVars
<1>7. CASE HaNext
  <2>1. CASE \E t \in DOMAIN haThreads : End(t)
    BY <1>5, <2>1
  <2>2. CASE \E o \in Owners :
               \/ Create(o) \/ Open(o) \/ Destroy(o) \/ CloseOwner(o) \/ FirstFile(o) \/ Privilege(o)
               \/ Suspend(o) \/ Resume(o)
               \/ \E from \in Others(o) : \/ Duplicate(o, from) \/ MoveNew(o, from)
                                          \/ TakeOver(o, from) \/ DuplicateAssign(o, from)
                                          \/ CopySearch(o, from) \/ AssignSearch(o, from)
    <3>1. PICK o \in Owners :
               \/ Create(o) \/ Open(o) \/ Destroy(o) \/ CloseOwner(o) \/ FirstFile(o) \/ Privilege(o)
               \/ Suspend(o) \/ Resume(o)
               \/ \E from \in Others(o) : \/ Duplicate(o, from) \/ MoveNew(o, from)
                                          \/ TakeOver(o, from) \/ DuplicateAssign(o, from)
                                          \/ CopySearch(o, from) \/ AssignSearch(o, from)
      BY <2>2
    <3> QED
      BY <3>1, <1>2, <1>3, <1>4, OpenStep, CloseStep, FirstStep, PrivilegeStep
  <2> QED
    BY <1>7, <2>1, <2>2 DEF HaNext
<1> QED
  BY <1>6, <1>7

THEOREM HandlesInvariance == HaSpec => [](HaInv /\ HaSystem)
<1>1. HaInit => HaSystem
  <2>1. HaInit => haThreads = <<>> /\ haOpen = <<>>
    BY DEF HaInit
  <2>2. ThreadsOf(<<>>) = {}
    BY DEF ThreadsOf
  <2> QED
    BY <2>1, <2>2 DEF HaSystem
<1> QED
  BY <1>1, HaInitially, SystemKept, HaInductive, PTL DEF HaSpec

(* A handle that is open has one owner, none that is closed has any, and none  *)
(* is closed twice, of threads, processes and files, whatever is copied, moved *)
(* assigned and destroyed, and of searches that no copy shares; only a search  *)
(* that a first() or an assignment overwrites is open without an owner, and    *)
(* the last of the owners of a shared one leaves it closed (thread.cpp,        *)
(* process.cpp, filestream.cpp, foreach.cpp, foreach_file.h).                  *)
THEOREM OwnersCorrect == HaSpec => []ClosedOnce
<1>1. HaInv => ClosedOnce
  <2> SUFFICES ASSUME HaInv, NEW h \in DOMAIN haOpen
               PROVE  /\ h \notin haShared =>
                           /\ haOpen[h].state # "twice"
                           /\ Cardinality(HoldersOf(h)) =
                                IF haOpen[h].state = "closed" \/ h \in haLost THEN 0 ELSE 1
                      /\ HoldersOf(h) = {} => haOpen[h].state # "open" \/ h \in haLost
    BY DEF ClosedOnce
  <2>1. h \in 1 .. Len(haOpen) /\ haOpen[h] \in HandleType /\ h # None
    BY DEF HaInv, HaType, None
  <2>2. h \notin haShared => haOpen[h].state # "twice"
    BY <2>1 DEF HaInv, HaOnce, Twice
  <2>3. CASE h \notin Live(haOpen, haLost)
    <3>1. haOpen[h].state # "open" \/ h \in haLost
      BY <2>1, <2>3 DEF Live
    <3>2. ASSUME h \notin haShared
          PROVE  HoldersOf(h) = {} /\ (haOpen[h].state = "closed" \/ h \in haLost)
      <4>1. HoldersOf(h) = {}
        BY <2>1, <2>3, <3>2 DEF HoldersOf, HaInv, HaHolds
      <4>2. haOpen[h].state = "closed" \/ h \in haLost
        BY <2>1, <2>2, <3>1, <3>2 DEF HandleType
      <4> QED
        BY <4>1, <4>2
    <3> QED
      BY <2>2, <3>1, <3>2, FS_EmptySet
  <2>4. CASE h \in Live(haOpen, haLost)
    <3>1. PICK o \in Owners : haOwner[o].handle = h
      BY <2>4 DEF HaInv, HaHeld
    <3>2. o \in HoldersOf(h)
      BY <2>1, <3>1 DEF HoldersOf, HaInv, HaHolds
    <3>3. h \notin haShared => HoldersOf(h) = {o}
      BY <2>1, <3>1, <3>2 DEF HoldersOf, HaInv, HaApart
    <3>4. ~ (haOpen[h].state = "closed" \/ h \in haLost)
      BY <2>4 DEF Live
    <3> QED
      BY <2>2, <3>2, <3>3, <3>4, FS_Singleton
  <2> QED
    BY <2>3, <2>4
<1> QED
  BY <1>1, HandlesInvariance, PTL

-----------------------------------------------------------------------------
(* Files and directories, for any actors and paths.                            *)

Fields == {"op", "path", "pc", "todo", "result"}
IsSeq(s) == \E S : s \in Seq(S)

\* A call under way has not answered, and the first of what it has to do is its
\* own path; one that has answered that it created the path has done so.
InOrder(call, mine) ==
  /\ DOMAIN call = Fields /\ mine \in BOOLEAN
  /\ call.pc # "idle" => /\ call.result # "true"
                         /\ IsSeq(call.todo) /\ call.todo # <<>> /\ call.todo[1] = call.path
  /\ call.result = "true" => mine

FsInv == /\ DOMAIN fsCall = Actors /\ DOMAIN fsMine = Actors
         /\ \A a \in Actors : InOrder(fsCall[a], fsMine[a])

LEMMA FsInitially == FsInit => FsInv
<1> SUFFICES ASSUME FsInit PROVE FsInv
  OBVIOUS
<1>1. InOrder(Idle, FALSE)
  BY DEF InOrder, Idle, Fields
<1> QED
  BY <1>1 DEF FsInit, FsInv

\* How one field of an actor's call changes.
SetPc(f, a, x) == [f EXCEPT ![a].pc = x]
LEMMA PcChanges ==
  ASSUME NEW f, NEW a \in DOMAIN f, DOMAIN f[a] = Fields, NEW x, NEW g, g = SetPc(f, a, x)
  PROVE  /\ DOMAIN g = DOMAIN f /\ \A b \in DOMAIN f \ {a} : g[b] = f[b]
         /\ DOMAIN g[a] = Fields /\ g[a].pc = x
         /\ g[a].result = f[a].result /\ g[a].todo = f[a].todo /\ g[a].path = f[a].path /\ g[a].op = f[a].op
<1> DEFINE r == [f[a] EXCEPT !.pc = x]
<1>1. /\ DOMAIN r = Fields /\ r.pc = x
      /\ r.result = f[a].result /\ r.todo = f[a].todo /\ r.path = f[a].path /\ r.op = f[a].op
  BY DEF Fields
<1>2. g = [f EXCEPT ![a] = r]
  BY DEF SetPc
<1> HIDE DEF r
<1>3. DOMAIN g = DOMAIN f /\ g[a] = r /\ \A b \in DOMAIN f \ {a} : g[b] = f[b]
  BY <1>2
<1> QED
  BY <1>1, <1>3

SetTodo(f, a, x) == [f EXCEPT ![a].todo = x]
LEMMA TodoChanges ==
  ASSUME NEW f, NEW a \in DOMAIN f, DOMAIN f[a] = Fields, NEW x, NEW g, g = SetTodo(f, a, x)
  PROVE  /\ DOMAIN g = DOMAIN f /\ \A b \in DOMAIN f \ {a} : g[b] = f[b]
         /\ DOMAIN g[a] = Fields /\ g[a].todo = x
         /\ g[a].result = f[a].result /\ g[a].pc = f[a].pc /\ g[a].path = f[a].path /\ g[a].op = f[a].op
<1> DEFINE r == [f[a] EXCEPT !.todo = x]
<1>1. /\ DOMAIN r = Fields /\ r.todo = x
      /\ r.result = f[a].result /\ r.pc = f[a].pc /\ r.path = f[a].path /\ r.op = f[a].op
  BY DEF Fields
<1>2. g = [f EXCEPT ![a] = r]
  BY DEF SetTodo
<1> HIDE DEF r
<1>3. DOMAIN g = DOMAIN f /\ g[a] = r /\ \A b \in DOMAIN f \ {a} : g[b] = f[b]
  BY <1>2
<1> QED
  BY <1>1, <1>3

SetResult(f, a, x) == [f EXCEPT ![a].result = x]
LEMMA ResultChanges ==
  ASSUME NEW f, NEW a \in DOMAIN f, DOMAIN f[a] = Fields, NEW x, NEW g, g = SetResult(f, a, x)
  PROVE  /\ DOMAIN g = DOMAIN f /\ \A b \in DOMAIN f \ {a} : g[b] = f[b]
         /\ DOMAIN g[a] = Fields /\ g[a].result = x
         /\ g[a].pc = f[a].pc /\ g[a].todo = f[a].todo /\ g[a].path = f[a].path /\ g[a].op = f[a].op
<1> DEFINE r == [f[a] EXCEPT !.result = x]
<1>1. /\ DOMAIN r = Fields /\ r.result = x
      /\ r.pc = f[a].pc /\ r.todo = f[a].todo /\ r.path = f[a].path /\ r.op = f[a].op
  BY DEF Fields
<1>2. g = [f EXCEPT ![a] = r]
  BY DEF SetResult
<1> HIDE DEF r
<1>3. DOMAIN g = DOMAIN f /\ g[a] = r /\ \A b \in DOMAIN f \ {a} : g[b] = f[b]
  BY <1>2
<1> QED
  BY <1>1, <1>3

\* How two of them do: an answer, and a path more or less.
SetAnswer(f, a, x, y) == [f EXCEPT ![a].pc = x, ![a].result = y]
LEMMA AnswerChanges ==
  ASSUME NEW f, NEW a \in DOMAIN f, DOMAIN f[a] = Fields, NEW x, NEW y, NEW g,
         g = SetAnswer(f, a, x, y)
  PROVE  /\ DOMAIN g = DOMAIN f /\ \A b \in DOMAIN f \ {a} : g[b] = f[b]
         /\ DOMAIN g[a] = Fields /\ g[a].pc = x /\ g[a].result = y
         /\ g[a].path = f[a].path /\ g[a].op = f[a].op
<1> DEFINE h == SetPc(f, a, x)
<1>1. /\ DOMAIN h = DOMAIN f /\ \A b \in DOMAIN f \ {a} : h[b] = f[b]
      /\ DOMAIN h[a] = Fields /\ h[a].pc = x
      /\ h[a].path = f[a].path /\ h[a].op = f[a].op
  BY PcChanges
<1>2. g = SetResult(h, a, y)
  BY DEF SetAnswer, SetPc, SetResult
<1> HIDE DEF h
<1> QED
  BY <1>1, <1>2, ResultChanges

SetTodoPc(f, a, x, y) == [f EXCEPT ![a].todo = x, ![a].pc = y]
LEMMA TodoPcChanges ==
  ASSUME NEW f, NEW a \in DOMAIN f, DOMAIN f[a] = Fields, NEW x, NEW y, NEW g,
         g = SetTodoPc(f, a, x, y)
  PROVE  /\ DOMAIN g = DOMAIN f /\ \A b \in DOMAIN f \ {a} : g[b] = f[b]
         /\ DOMAIN g[a] = Fields /\ g[a].todo = x /\ g[a].pc = y
         /\ g[a].result = f[a].result /\ g[a].path = f[a].path /\ g[a].op = f[a].op
<1> DEFINE h == SetTodo(f, a, x)
<1>1. /\ DOMAIN h = DOMAIN f /\ \A b \in DOMAIN f \ {a} : h[b] = f[b]
      /\ DOMAIN h[a] = Fields /\ h[a].todo = x
      /\ h[a].result = f[a].result /\ h[a].path = f[a].path /\ h[a].op = f[a].op
  BY TodoChanges
<1>2. g = SetPc(h, a, y)
  BY DEF SetTodoPc, SetTodo, SetPc
<1> HIDE DEF h
<1> QED
  BY <1>1, <1>2, PcChanges

SetPcTodo(f, a, x, y) == [f EXCEPT ![a].pc = x, ![a].todo = y]
LEMMA PcTodoChanges ==
  ASSUME NEW f, NEW a \in DOMAIN f, DOMAIN f[a] = Fields, NEW x, NEW y, NEW g,
         g = SetPcTodo(f, a, x, y)
  PROVE  /\ DOMAIN g = DOMAIN f /\ \A b \in DOMAIN f \ {a} : g[b] = f[b]
         /\ DOMAIN g[a] = Fields /\ g[a].pc = x /\ g[a].todo = y
         /\ g[a].result = f[a].result /\ g[a].path = f[a].path /\ g[a].op = f[a].op
<1> DEFINE h == SetPc(f, a, x)
<1>1. /\ DOMAIN h = DOMAIN f /\ \A b \in DOMAIN f \ {a} : h[b] = f[b]
      /\ DOMAIN h[a] = Fields /\ h[a].pc = x
      /\ h[a].result = f[a].result /\ h[a].path = f[a].path /\ h[a].op = f[a].op
  BY PcChanges
<1>2. g = SetTodo(h, a, y)
  BY DEF SetPcTodo, SetPc, SetTodo
<1> HIDE DEF h
<1> QED
  BY <1>1, <1>2, TodoChanges

\* One actor's call changes, and is in order afterwards.
LEMMA FsStep ==
  ASSUME FsInv, NEW a \in Actors, DOMAIN fsCall' = DOMAIN fsCall, DOMAIN fsMine' = DOMAIN fsMine,
         \A b \in Actors \ {a} : fsCall'[b] = fsCall[b] /\ fsMine'[b] = fsMine[b],
         InOrder(fsCall'[a], fsMine'[a])
  PROVE  FsInv'
<1>1. \A b \in Actors : InOrder(fsCall'[b], fsMine'[b])
  BY DEF FsInv
<1> QED
  BY <1>1 DEF FsInv

LEMMA QuietStep ==
  ASSUME FsInv, NEW a \in Actors, Quiet, DOMAIN fsCall' = DOMAIN fsCall,
         \A b \in Actors \ {a} : fsCall'[b] = fsCall[b], InOrder(fsCall'[a], fsMine[a])
  PROVE  FsInv'
  BY FsStep DEF Quiet

\* A call goes on, or answers that nothing was created.
LEMMA GotoStep ==
  ASSUME FsInv, NEW a \in Actors, Quiet, fsCall[a].pc # "idle", NEW pc, Goto(a, pc)
  PROVE  FsInv'
<1>1. DOMAIN fsCall = Actors /\ InOrder(fsCall[a], fsMine[a])
  BY DEF FsInv
<1>2. /\ DOMAIN fsCall' = DOMAIN fsCall /\ \A b \in DOMAIN fsCall \ {a} : fsCall'[b] = fsCall[b]
      /\ DOMAIN fsCall'[a] = Fields /\ fsCall'[a].pc = pc
      /\ fsCall'[a].result = fsCall[a].result /\ fsCall'[a].todo = fsCall[a].todo
      /\ fsCall'[a].path = fsCall[a].path
  BY <1>1, PcChanges DEF Goto, SetPc, InOrder
<1>3. InOrder(fsCall'[a], fsMine[a])
  BY <1>1, <1>2 DEF InOrder
<1> QED
  BY <1>1, <1>2, <1>3, QuietStep

LEMMA AnswerStep ==
  ASSUME FsInv, NEW a \in Actors, Quiet, NEW result \in {"false", "throw"}, Answer(a, result)
  PROVE  FsInv'
<1>1. DOMAIN fsCall = Actors /\ InOrder(fsCall[a], fsMine[a])
  BY DEF FsInv
<1>2. /\ DOMAIN fsCall' = DOMAIN fsCall /\ \A b \in DOMAIN fsCall \ {a} : fsCall'[b] = fsCall[b]
      /\ DOMAIN fsCall'[a] = Fields /\ fsCall'[a].pc = "idle" /\ fsCall'[a].result = result
  <2>1. fsCall' = SetAnswer(fsCall, a, "idle", result)
    BY DEF Answer, SetAnswer
  <2> QED
    BY <1>1, <2>1, AnswerChanges DEF InOrder
<1>3. InOrder(fsCall'[a], fsMine[a])
  BY <1>1, <1>2 DEF InOrder
<1> QED
  BY <1>1, <1>2, <1>3, QuietStep

\* A call has more to do first, or less.
LEMMA TodoStep ==
  ASSUME FsInv, NEW a \in Actors, fsCall[a].pc # "idle", NEW todo, NEW pc,
         DOMAIN fsMine' = DOMAIN fsMine, \A b \in Actors \ {a} : fsMine'[b] = fsMine[b],
         fsMine'[a] \in BOOLEAN,
         IsSeq(todo), todo # <<>>, todo[1] = fsCall[a].path,
         \/ fsCall' = [fsCall EXCEPT ![a].todo = todo, ![a].pc = pc]
         \/ fsCall' = [fsCall EXCEPT ![a].pc = pc, ![a].todo = todo]
  PROVE  FsInv'
<1>1. DOMAIN fsCall = Actors /\ InOrder(fsCall[a], fsMine[a])
  BY DEF FsInv
<1>2. /\ DOMAIN fsCall' = DOMAIN fsCall /\ \A b \in DOMAIN fsCall \ {a} : fsCall'[b] = fsCall[b]
      /\ DOMAIN fsCall'[a] = Fields /\ fsCall'[a].pc = pc
      /\ fsCall'[a].result = fsCall[a].result /\ fsCall'[a].todo = todo
      /\ fsCall'[a].path = fsCall[a].path
  <2>1. CASE fsCall' = [fsCall EXCEPT ![a].todo = todo, ![a].pc = pc]
    <3>1. fsCall' = SetTodoPc(fsCall, a, todo, pc)
      BY <2>1 DEF SetTodoPc
    <3> QED
      BY <1>1, <3>1, TodoPcChanges DEF InOrder
  <2>2. CASE fsCall' = [fsCall EXCEPT ![a].pc = pc, ![a].todo = todo]
    <3>1. fsCall' = SetPcTodo(fsCall, a, pc, todo)
      BY <2>2 DEF SetPcTodo
    <3> QED
      BY <1>1, <3>1, PcTodoChanges DEF InOrder
  <2> QED
    BY <2>1, <2>2
<1>3. InOrder(fsCall'[a], fsMine'[a])
  BY <1>1, <1>2 DEF InOrder
<1> QED
  BY <1>1, <1>2, <1>3, FsStep

\* A call answers that it has created its path.
LEMMA CreatedStep ==
  ASSUME FsInv, NEW a \in Actors, Answer(a, "true"), NEW kind, Change(a, fsCall[a].path, kind)
  PROVE  FsInv'
<1>1. DOMAIN fsCall = Actors /\ DOMAIN fsMine = Actors /\ InOrder(fsCall[a], fsMine[a])
  BY DEF FsInv
<1>2. /\ DOMAIN fsCall' = DOMAIN fsCall /\ \A b \in DOMAIN fsCall \ {a} : fsCall'[b] = fsCall[b]
      /\ DOMAIN fsCall'[a] = Fields /\ fsCall'[a].pc = "idle" /\ fsCall'[a].result = "true"
  <2>1. fsCall' = SetAnswer(fsCall, a, "idle", "true")
    BY DEF Answer, SetAnswer
  <2> QED
    BY <1>1, <2>1, AnswerChanges DEF InOrder
<1>3. /\ DOMAIN fsMine' = DOMAIN fsMine /\ fsMine'[a] = TRUE
      /\ \A b \in Actors \ {a} : fsMine'[b] = fsMine[b]
  BY <1>1 DEF Change
<1>4. InOrder(fsCall'[a], fsMine'[a])
  BY <1>2, <1>3 DEF InOrder
<1> QED
  BY <1>1, <1>2, <1>3, <1>4, FsStep

\* What is left of what a call has to do, and what is first of more.
LEMMA TodoFacts ==
  ASSUME NEW q, IsSeq(q), q # <<>>, NEW x
  PROVE  /\ IsSeq(Append(q, x)) /\ Append(q, x) # <<>> /\ Append(q, x)[1] = q[1]
         /\ IsSeq(Front(q))
         /\ Front(q) # <<>> => Front(q)[1] = q[1]
         /\ Front(q) = <<>> => Last(q) = q[1]
<1>1. PICK S : q \in Seq(S)
  BY DEF IsSeq
<1>2. Len(q) \in Nat \ {0} /\ q \in Seq(S \cup {x})
  <2>1. Len(q) \in Nat /\ (Len(q) = 0 => q = <<>>)
    BY <1>1
  <2>2. S \subseteq S \cup {x}
    OBVIOUS
  <2> QED
    BY <1>1, <2>1, <2>2
<1>3. Append(q, x) \in Seq(S \cup {x}) /\ Len(Append(q, x)) = Len(q) + 1 /\ Append(q, x)[1] = q[1]
  BY <1>2
<1>4. IsSeq(Append(q, x)) /\ Append(q, x) # <<>>
  BY <1>2, <1>3 DEF IsSeq
<1>5. /\ Front(q) \in Seq(S) /\ Len(Front(q)) = Len(q) - 1
      /\ \A i \in 1 .. Len(q) - 1 : Front(q)[i] = q[i]
  <2>1. Front(q) = SubSeq(q, 1, Len(q) - 1)
    BY DEF Front
  <2> DEFINE n == Len(q) - 1
  <2>2. n \in Nat /\ n <= Len(q)
    BY <1>2
  <2> HIDE DEF n
  <2>3. /\ SubSeq(q, 1, n) \in Seq(S) /\ Len(SubSeq(q, 1, n)) = n
        /\ \A i \in 1 .. n : SubSeq(q, 1, n)[i] = q[i]
    BY <1>1, <2>2
  <2> QED
    BY <2>1, <2>3 DEF n
<1>6. Front(q) # <<>> => Front(q)[1] = q[1]
  <2> SUFFICES ASSUME Front(q) # <<>> PROVE Front(q)[1] = q[1]
    OBVIOUS
  <2>1. Len(Front(q)) # 0
    BY <1>5
  <2> QED
    BY <1>2, <1>5, <2>1
<1>7. Front(q) = <<>> => Last(q) = q[1]
  <2> SUFFICES ASSUME Front(q) = <<>> PROVE Last(q) = q[1]
    OBVIOUS
  <2>1. Len(q) = 1
    BY <1>2, <1>5
  <2> QED
    BY <2>1 DEF Last
<1>8. IsSeq(Front(q))
  BY <1>5 DEF IsSeq
<1> QED
  BY <1>3, <1>4, <1>6, <1>7, <1>8

LEMMA BeginStep ==
  ASSUME FsInv, NEW a \in Actors, NEW op, NEW path, Begin(a, op, path)
  PROVE  FsInv'
<1> DEFINE start == CASE op = "create" -> "isDirectory" [] op = "make" -> "isThere"
                      [] OTHER -> "attributes"
           call == [op |-> op, path |-> path, todo |-> <<path>>, result |-> "none", pc |-> start]
<1>1. fsCall' = [fsCall EXCEPT ![a] = call] /\ fsMine' = [fsMine EXCEPT ![a] = FALSE]
  BY DEF Begin
<1>2. IsSeq(<<path>>) /\ <<path>> # <<>> /\ <<path>>[1] = path
  <2>1. <<path>> \in Seq({path})
    OBVIOUS
  <2> QED
    BY <2>1 DEF IsSeq
<1> HIDE DEF start
<1>3. /\ DOMAIN call = Fields /\ call.result = "none" /\ call.todo = <<path>> /\ call.path = path
  BY DEF Fields
<1> HIDE DEF call
<1>4. InOrder(call, FALSE)
  BY <1>2, <1>3 DEF InOrder
<1> QED
  BY <1>1, <1>4, FsStep DEF FsInv

\* A path on the way is there, and was not the call's own.
LEMMA DoneStep ==
  ASSUME FsInv, NEW a \in Actors, fsCall[a].pc # "idle", NEW result, Done(a, result),
         \/ Quiet /\ result = "false"
         \/ /\ result = "true"
            /\ \E kind : Change(a, Last(fsCall[a].todo), kind)
  PROVE  FsInv'
<1> DEFINE q == fsCall[a].todo
           pc == IF fsCall[a].op = "create" /\ Len(Front(q)) = 1 THEN "createFile" ELSE "makeDirectory"
<1>1. /\ IsSeq(q) /\ q # <<>> /\ q[1] = fsCall[a].path
      /\ DOMAIN fsMine = Actors /\ \A b \in Actors : fsMine[b] \in BOOLEAN
  BY DEF FsInv, InOrder
<1>2. /\ IsSeq(Front(q))
      /\ Front(q) # <<>> => Front(q)[1] = q[1]
      /\ Front(q) = <<>> => Last(q) = q[1]
  BY <1>1, TodoFacts
<1>3. CASE Front(q) = <<>>
  <2>1. Answer(a, result)
    BY <1>3 DEF Done, Answer
  <2>2. CASE Quiet /\ result = "false"
    BY <2>1, <2>2, AnswerStep
  <2>3. CASE result = "true" /\ \E kind : Change(a, Last(q), kind)
    BY <1>1, <1>2, <1>3, <2>1, <2>3, CreatedStep
  <2> QED
    BY <2>2, <2>3
<1>4. CASE Front(q) # <<>>
  <2>1. fsCall' = [fsCall EXCEPT ![a].todo = Front(q), ![a].pc = pc]
    BY <1>4 DEF Done
  <2>2. /\ DOMAIN fsMine' = DOMAIN fsMine /\ fsMine'[a] \in BOOLEAN
        /\ \A b \in Actors \ {a} : fsMine'[b] = fsMine[b]
    <3>1. CASE Quiet
      BY <1>1, <3>1 DEF Quiet
    <3>2. ASSUME NEW kind, Change(a, Last(q), kind)
          PROVE  fsMine' = [fsMine EXCEPT ![a] = fsMine[a] \/ Last(q) = fsCall[a].path]
      BY <3>2 DEF Change
    <3> QED
      BY <1>1, <3>1, <3>2
  <2> HIDE DEF pc, q
  <2>3. IsSeq(Front(q)) /\ Front(q) # <<>> /\ Front(q)[1] = fsCall[a].path
    BY <1>1, <1>2, <1>4
  <2> QED
    BY <2>1, <2>2, <2>3, TodoStep
<1> QED
  BY <1>3, <1>4

LEMMA FsInductive == FsInv /\ [FsNext]_fsVars => FsInv'
<1> SUFFICES ASSUME FsInv, [FsNext]_fsVars PROVE FsInv'
  OBVIOUS
<1>1. CASE UNCHANGED fsVars
  BY <1>1 DEF fsVars, FsInv
<1>2. ASSUME NEW a \in Actors, IsDirectory(a) PROVE FsInv'
  BY <1>2, GotoStep, AnswerStep DEF IsDirectory
<1>3. ASSUME NEW a \in Actors, Exists(a) PROVE FsInv'
  <2> DEFINE path == fsCall[a].path
             todo == <<path, parent(path)>>
  <2>1. CASE Exist(path)
    BY <1>3, <2>1, AnswerStep DEF Exists
  <2>2. CASE ~ Exist(path)
    <3>1. fsCall' = [fsCall EXCEPT ![a].pc = "isThere", ![a].todo = todo] /\ Quiet
          /\ fsCall[a].pc = "exists"
      BY <1>3, <2>2 DEF Exists
    <3>2. IsSeq(todo) /\ todo # <<>> /\ todo[1] = path
      <4>1. todo \in Seq({path, parent(path)})
        OBVIOUS
      <4> QED
        BY <4>1 DEF IsSeq
    <3>3. fsMine' = fsMine /\ fsMine[a] \in BOOLEAN
      BY <3>1 DEF Quiet, FsInv, InOrder
    <3> HIDE DEF todo
    <3> QED
      BY <3>1, <3>2, <3>3, TodoStep
  <2> QED
    BY <2>1, <2>2
<1>4. ASSUME NEW a \in Actors, CreateFile(a) PROVE FsInv'
  BY <1>4, AnswerStep, CreatedStep DEF CreateFile
<1>5. ASSUME NEW a \in Actors, IsThere(a) PROVE FsInv'
  BY <1>5, GotoStep DEF IsThere
<1>6. ASSUME NEW a \in Actors, IsFile(a) PROVE FsInv'
  BY <1>6, GotoStep, AnswerStep DEF IsFile
<1>7. ASSUME NEW a \in Actors, Missing(a) PROVE FsInv'
  <2> DEFINE q == fsCall[a].todo
             todo == Append(q, parent(Last(q)))
  <2>1. fsCall[a].pc = "missing" /\ Quiet
    BY <1>7 DEF Missing
  <2>2. CASE Exist(Last(q))
    BY <1>7, <2>1, <2>2, DoneStep DEF Missing
  <2>3. CASE ~ Exist(Last(q))
    <3>1. fsCall' = [fsCall EXCEPT ![a].todo = todo, ![a].pc = "isThere"]
      BY <1>7, <2>3 DEF Missing
    <3>2. IsSeq(q) /\ q # <<>> /\ q[1] = fsCall[a].path
      BY <2>1 DEF FsInv, InOrder
    <3>3. IsSeq(todo) /\ todo # <<>> /\ todo[1] = fsCall[a].path
      BY <3>2, TodoFacts
    <3>4. fsMine' = fsMine /\ fsMine[a] \in BOOLEAN
      BY <2>1 DEF Quiet, FsInv, InOrder
    <3> HIDE DEF todo
    <3> QED
      BY <2>1, <3>1, <3>3, <3>4, TodoStep
  <2> QED
    BY <2>2, <2>3
<1>8. ASSUME NEW a \in Actors, MakeDirectory(a) PROVE FsInv'
  <2> DEFINE path == Last(fsCall[a].todo)
  <2>1. CASE Done(a, "true") /\ Change(a, path, "directory")
    <3>1. fsCall[a].pc # "idle"
      BY <1>8 DEF MakeDirectory
    <3> QED
      BY <2>1, <3>1, DoneStep
  <2>2. CASE Answer(a, "throw") /\ Quiet
    BY <2>2, AnswerStep
  <2> QED
    BY <1>8, <2>1, <2>2 DEF MakeDirectory
<1>9. ASSUME NEW a \in Actors, Attributes(a) PROVE FsInv'
  BY <1>9, GotoStep, AnswerStep DEF Attributes
<1>10. ASSUME NEW a \in Actors, Delete(a) PROVE FsInv'
  BY <1>10, AnswerStep, CreatedStep DEF Delete
<1>11. CASE FsNext
  BY <1>11, <1>2, <1>3, <1>4, <1>5, <1>6, <1>7, <1>8, <1>9, <1>10, BeginStep DEF FsNext
<1> QED
  BY <1>1, <1>11

(* Whoever is told that it created or removed a path did so itself, whatever   *)
(* other threads and processes do between its calls of the system              *)
(* (Filesystem.cpp).                                                           *)
THEOREM FilesCorrect == FsSpec => []TrueIsMine
<1>1. FsInv => TrueIsMine
  BY DEF FsInv, InOrder, TrueIsMine
<1> QED
  BY <1>1, FsInitially, FsInductive, PTL DEF FsSpec

(* A call that no other actor's change comes into, for any actors and any paths*)
(* that hold what is above them (FilesAssumption).                             *)

FileKinds == {"none", "file", "directory"}
FileSteps == {"create", "make", "remove"}
Pre(P, k) == SubSeq(P, 1, k)

\* What is on disk is below directories.
Whole(tree) ==
  /\ tree \in [Paths -> FileKinds]
  /\ \A p \in Paths : tree[p] # "none" => \A i \in 1 .. Len(p) - 1 : tree[Pre(p, i)] = "directory"

\* The path and those above it, down to the one of length k.
Todo(P, k) == [j \in 1 .. Len(P) - k + 1 |-> Pre(P, Len(P) - j + 1)]
NoneFrom(tree, P, k) == \A i \in k .. Len(P) : Was(tree, Pre(P, i)) = "none"
MadeTo(tree, P, k) ==
  [p \in Paths |-> IF \E i \in 1 .. k - 1 : p = Pre(P, i) THEN "directory" ELSE tree[p]]

\* Where a call is that nobody has disturbed: it looks for what is there from the
\* path upwards, and then makes what is missing downwards.
Phase(op, pc, P, k, before, tree) ==
  \/ /\ op = "remove" /\ k = Len(P) /\ tree = before
     /\ \/ pc = "attributes"
        \/ pc = "removeDirectory" /\ Was(before, P) = "directory"
        \/ pc = "deleteFile" /\ Was(before, P) = "file"
  \/ /\ op = "create" /\ k = Len(P) /\ tree = before
     /\ pc = "isDirectory" \/ (pc = "exists" /\ Was(before, P) # "directory")
  \/ /\ op \in {"create", "make"} /\ tree = before /\ NoneFrom(before, P, k + 1)
     /\ op = "create" => k < Len(P)
     /\ \/ pc = "isThere"
        \/ pc = "isFile" /\ Was(before, Pre(P, k)) # "none"
        \/ pc = "missing" /\ Was(before, Pre(P, k)) # "file"
  \/ /\ op \in {"create", "make"} /\ k # 0
     /\ tree = MadeTo(before, P, k) /\ NoneFrom(before, P, k)
     /\ \A i \in 1 .. k - 1 : Was(before, Pre(P, i)) # "file"
     /\ \/ pc = "createFile" /\ op = "create" /\ k = Len(P)
        \/ pc = "makeDirectory" /\ (op = "create" => k < Len(P))

Underway(call, before, raced, tree) ==
  call.pc # "idle" =>
    /\ call.path \in Paths /\ call.op \in FileSteps
    /\ \E k \in 0 .. Len(call.path) :
         /\ call.todo = Todo(call.path, k)
         /\ ~raced => Phase(call.op, call.pc, call.path, k, before, tree)

AloneInv ==
  /\ FsInv /\ Whole(fsTree)
  /\ DOMAIN fsBefore = Actors /\ DOMAIN fsRaced = Actors
  /\ \A a \in Actors : Whole(fsBefore[a]) /\ Underway(fsCall[a], fsBefore[a], fsRaced[a], fsTree)

\* A path and what is above it.
LEMMA PathIs ==
  ASSUME NEW P \in Paths
  PROVE  /\ Len(P) \in Nat \ {0} /\ P # Drive
         /\ Pre(P, 0) = Drive /\ Pre(P, Len(P)) = P
         /\ \A k \in 0 .. Len(P) : /\ Len(Pre(P, k)) = k
                                   /\ k # 0 => Pre(P, k) \in Paths /\ Pre(P, k) # Drive
                                   /\ \A i \in 0 .. k : Pre(Pre(P, k), i) = Pre(P, i)
<1> DEFINE S == UNION {ToSet(p) : p \in Paths}
<1>1. P \in Seq(S) /\ P # <<>>
  BY FilesAssumption
<1> HIDE DEF S
<1>2. Len(P) \in Nat \ {0} /\ P # Drive
  BY <1>1 DEF Drive
<1>3. \A k \in 0 .. Len(P) : Pre(P, k) = [i \in 1 .. k |-> P[i]] /\ Len(Pre(P, k)) = k
  <2> TAKE k \in 0 .. Len(P)
  <2>1. SubSeq(P, 1, k) = [i \in 1 .. k |-> P[i + 1 - 1]] /\ Len(SubSeq(P, 1, k)) = k
    BY <1>1, <1>2
  <2>2. \A i \in 1 .. k : i + 1 - 1 = i
    BY <1>2
  <2>3. [i \in 1 .. k |-> P[i + 1 - 1]] = [i \in 1 .. k |-> P[i]]
    BY <2>2, Zenon
  <2> QED
    BY <2>1, <2>3, Zenon DEF Pre
<1>4. Pre(P, 0) = Drive
  <2>1. Pre(P, 0) = SubSeq(P, 1, 0)
    BY DEF Pre
  <2> QED
    BY <1>1, <2>1 DEF Drive
<1>5. Pre(P, Len(P)) = P
  BY <1>1 DEF Pre
<1>6. \A k \in 1 .. Len(P) : Pre(P, k) \in Paths /\ Pre(P, k) # Drive
  <2> TAKE k \in 1 .. Len(P)
  <2>1. Pre(P, k) # Drive
    <3>1. Len(Pre(P, k)) = k /\ k # 0 /\ Len(Drive) = 0
      BY <1>2, <1>3 DEF Drive
    <3> QED
      BY <3>1
  <2>2. CASE k = Len(P)
    BY <1>5, <2>1, <2>2
  <2>3. CASE k \in 1 .. Len(P) - 1
    BY <2>1, <2>3, FilesAssumption DEF Pre
  <2> QED
    BY <1>2, <2>2, <2>3
<1>7. ASSUME NEW k \in 0 .. Len(P), NEW i \in 0 .. k PROVE Pre(Pre(P, k), i) = Pre(P, i)
  <2> DEFINE q == Pre(P, k)
  <2>1. q \in Seq(S) /\ Len(q) = k /\ \A j \in 1 .. k : q[j] = P[j]
    <3>1. \A j \in 1 .. k : P[j] \in S
      BY <1>1, <1>2
    <3> QED
      BY <1>3, <3>1
  <2> HIDE DEF q
  <2>2. SubSeq(q, 1, i) = [j \in 1 .. i |-> q[j + 1 - 1]]
    BY <1>2, <2>1
  <2>3. \A j \in 1 .. i : j + 1 - 1 = j /\ j \in 1 .. k
    BY <1>2
  <2>4. [j \in 1 .. i |-> q[j + 1 - 1]] = [j \in 1 .. i |-> P[j]]
    BY <2>1, <2>3, Zenon
  <2>5. i \in 0 .. Len(P)
    BY <1>2
  <2>6. Pre(q, i) = Pre(P, i)
    BY <1>3, <2>2, <2>4, <2>5, Zenon DEF Pre
  <2> QED
    BY <2>6 DEF q
<1> QED
  BY <1>2, <1>3, <1>4, <1>5, <1>6, <1>7

\* What the system says of a path is what the tree says.
LEMMA AttributesAre ==
  ASSUME Whole(fsTree), NEW P \in Paths, NEW k \in 0 .. Len(P)
  PROVE  LET p == Pre(P, k) IN
         /\ Kind(p) = Was(fsTree, p) /\ Was(fsTree, p) \in FileKinds
         /\ Reachable(p) <=> \A i \in 0 .. k - 1 : Was(fsTree, Pre(P, i)) = "directory"
         /\ Was(fsTree, p) # "none" => Reachable(p)
         /\ Exist(p) <=> Was(fsTree, p) # "none"
         /\ Directory(p) <=> Was(fsTree, p) = "directory"
<1> DEFINE p == Pre(P, k)
<1>1. /\ Len(P) \in Nat /\ Len(p) = k /\ (k # 0 => p \in Paths /\ p # Drive) /\ Pre(P, 0) = Drive
      /\ \A i \in 0 .. k : Pre(p, i) = Pre(P, i)
  BY PathIs
<1>2. \A q : Kind(q) = Was(fsTree, q)
  BY DEF Kind, Was
<1>3. Was(fsTree, p) \in FileKinds
  BY <1>1 DEF Was, Whole, FileKinds
<1>4. Reachable(p) <=> \A i \in 0 .. k - 1 : Was(fsTree, Pre(P, i)) = "directory"
  <2>1. \A i \in 0 .. k - 1 : Kind(SubSeq(p, 1, i)) = Was(fsTree, Pre(P, i))
    <3> TAKE i \in 0 .. k - 1
    <3>1. i \in 0 .. k
      OBVIOUS
    <3>2. SubSeq(p, 1, i) = Pre(P, i)
      BY <1>1, <3>1 DEF Pre
    <3> QED
      BY <1>2, <3>2
  <2> HIDE DEF p
  <2> QED
    BY <1>1, <2>1 DEF Reachable
<1>5. ASSUME Was(fsTree, p) # "none" PROVE Reachable(p)
  <2> SUFFICES ASSUME NEW i \in 0 .. k - 1 PROVE Was(fsTree, Pre(P, i)) = "directory"
    BY <1>4
  <2>1. CASE i = 0
    BY <1>1, <2>1 DEF Was
  <2>2. CASE i \in 1 .. k - 1
    <3>1. p \in Paths /\ p # Drive /\ i \in 0 .. k /\ i # 0 /\ i \in 0 .. Len(P)
      BY <1>1, <2>2
    <3>2. fsTree[p] # "none"
      BY <1>5, <3>1 DEF Was
    <3>3. fsTree[Pre(p, i)] = "directory"
      <4> HIDE DEF p
      <4> QED
        BY <1>1, <2>2, <3>1, <3>2 DEF Whole
    <3>4. Pre(P, i) # Drive /\ Pre(p, i) = Pre(P, i)
      BY <1>1, <3>1, PathIs
    <3> QED
      BY <3>3, <3>4 DEF Was
  <2> QED
    BY <2>1, <2>2
<1>6. Exist(p) <=> Was(fsTree, p) # "none"
  BY <1>2, <1>5 DEF Exist
<1>7. Directory(p) <=> Was(fsTree, p) = "directory"
  BY <1>2, <1>5 DEF Directory
<1> QED
  BY <1>2, <1>3, <1>4, <1>5, <1>6, <1>7

\* Steps of the list of what is to do.
LEMMA TodoIs ==
  ASSUME NEW P \in Paths, NEW k \in 0 .. Len(P)
  PROVE  /\ Last(Todo(P, k)) = Pre(P, k) /\ Todo(P, Len(P)) = <<P>>
         /\ k # 0 => Append(Todo(P, k), parent(Pre(P, k))) = Todo(P, k - 1)
         /\ k = Len(P) => Front(Todo(P, k)) = <<>>
         /\ k # Len(P) => /\ Front(Todo(P, k)) = Todo(P, k + 1) /\ Todo(P, k + 1) # <<>>
                          /\ Len(Todo(P, k + 1)) = Len(P) - k
<1> DEFINE n == Len(P)
           S == {Pre(P, i) : i \in 0 .. n}
<1>1. n \in Nat \ {0} /\ Pre(P, n) = P /\ \A i \in 0 .. n : \A j \in 0 .. i : Pre(Pre(P, i), j) = Pre(P, j)
  <2>1. n \in Nat \ {0} /\ Pre(P, n) = P
    BY PathIs
  <2>2. \A i \in 0 .. n : \A j \in 0 .. i : Pre(Pre(P, i), j) = Pre(P, j)
    BY PathIs
  <2> QED
    BY <2>1, <2>2, Zenon
<1>13. \A i \in 0 .. n : Len(Pre(P, i)) = i
  BY PathIs
<1> HIDE DEF n
<1>2. \A i \in 0 .. n : /\ Todo(P, i) \in Seq(S) /\ Len(Todo(P, i)) = n - i + 1
                        /\ \A j \in 1 .. n - i + 1 : Todo(P, i)[j] = Pre(P, n - j + 1)
  <2> TAKE i \in 0 .. n
  <2>1. n - i + 1 \in Nat
    BY <1>1
  <2>2. Todo(P, i) = [j \in 1 .. n - i + 1 |-> Pre(P, n - j + 1)]
    BY DEF Todo, n
  <2>3. \A j \in 1 .. n - i + 1 : Pre(P, n - j + 1) \in S
    <3> TAKE j \in 1 .. n - i + 1
    <3>1. n - j + 1 \in 0 .. n
      BY <1>1
    <3> QED
      BY <3>1
  <2> HIDE DEF S
  <2> QED
    BY <2>1, <2>2, <2>3
<1> HIDE DEF S
<1>3. k \in 0 .. n /\ n \in 0 .. n
  BY <1>1 DEF n
<1>4. Last(Todo(P, k)) = Pre(P, k)
  <2>1. n - (n - k + 1) + 1 = k /\ n - k + 1 \in 1 .. n - k + 1 /\ Len(Todo(P, k)) = n - k + 1
    BY <1>1, <1>2, <1>3
  <2>2. Todo(P, k)[n - k + 1] = Pre(P, n - (n - k + 1) + 1)
    BY <1>2, <1>3, <2>1
  <2>3. Last(Todo(P, k)) = Todo(P, k)[n - k + 1]
    BY <2>1 DEF Last
  <2> QED
    BY <2>1, <2>2, <2>3
<1>5. Todo(P, n) = <<P>>
  <2>1. Todo(P, n) \in Seq(S) /\ Len(Todo(P, n)) = 1 /\ Todo(P, n)[1] = Pre(P, n)
    <3>1. n - n + 1 = 1 /\ n - 1 + 1 = n
      BY <1>1
    <3>2. 1 \in 1 .. n - n + 1
      BY <3>1
    <3> QED
      BY <1>2, <1>3, <3>1, <3>2
  <2> QED
    BY <1>1, <2>1
<1>6. ASSUME k # 0 PROVE Append(Todo(P, k), parent(Pre(P, k))) = Todo(P, k - 1)
  <2> DEFINE q == Todo(P, k)
             x == parent(Pre(P, k))
             r == Todo(P, k - 1)
             m == n - k + 1
  <2>1. k - 1 \in 0 .. n /\ n - (k - 1) + 1 = m + 1 /\ m \in Nat /\ n - (m + 1) + 1 = k - 1
    BY <1>1, <1>3, <1>6
  <2>2. x = Pre(P, k - 1)
    <3>1. Len(Pre(P, k)) = k
      BY <1>3, <1>13
    <3>2. x = Pre(Pre(P, k), k - 1)
      BY <3>1 DEF parent, Front, Pre
    <3>3. k - 1 \in 0 .. k
      BY <1>1, <1>3, <1>6
    <3> QED
      BY <1>1, <1>3, <3>2, <3>3
  <2>3. q \in Seq(S) /\ Len(q) = m /\ \A j \in 1 .. m : q[j] = Pre(P, n - j + 1)
    BY <1>2, <1>3
  <2>4. r \in Seq(S) /\ Len(r) = m + 1 /\ \A j \in 1 .. m + 1 : r[j] = Pre(P, n - j + 1)
    <3> HIDE DEF m
    <3> QED
      BY <1>2, <2>1
  <2> HIDE DEF q, r, x, m
  <2>5. r[m + 1] = x
    <3>1. m + 1 \in 1 .. m + 1
      BY <2>1
    <3> QED
      BY <2>1, <2>2, <2>4, <3>1
  <2>6. \A j \in 1 .. m : r[j] = q[j]
    <3> TAKE j \in 1 .. m
    <3>1. j \in 1 .. m + 1
      BY <2>1
    <3> QED
      BY <2>3, <2>4, <3>1
  <2>7. x \in S
    <3>1. m + 1 \in 1 .. m + 1
      BY <2>1
    <3>2. r[m + 1] \in S
      BY <2>1, <2>4, <3>1
    <3> QED
      BY <2>5, <3>2
  <2>8. Append(q, x) = r
    BY <2>1, <2>3, <2>4, <2>5, <2>6, <2>7
  <2> QED
    BY <2>8 DEF q, r, x
<1>7. ASSUME k = n PROVE Front(Todo(P, k)) = <<>>
  <2>1. Front(<<P>>) = <<>>
    BY DEF Front
  <2>2. Todo(P, k) = <<P>>
    BY <1>5, <1>7
  <2> QED
    BY <2>1, <2>2, Zenon
<1>8. ASSUME k # n
      PROVE  Front(Todo(P, k)) = Todo(P, k + 1) /\ Todo(P, k + 1) # <<>> /\ Len(Todo(P, k + 1)) = n - k
  <2> DEFINE q == Todo(P, k)
             r == Todo(P, k + 1)
             m == n - k
  <2>1. k + 1 \in 0 .. n /\ n - (k + 1) + 1 = m /\ m \in Nat \ {0} /\ n - k + 1 = m + 1
    BY <1>1, <1>3, <1>8
  <2>2. q \in Seq(S) /\ Len(q) = m + 1 /\ \A j \in 1 .. m + 1 : q[j] = Pre(P, n - j + 1)
    <3> HIDE DEF m
    <3> QED
      BY <1>2, <1>3, <2>1
  <2>3. r \in Seq(S) /\ Len(r) = m /\ \A j \in 1 .. m : r[j] = Pre(P, n - j + 1)
    <3> HIDE DEF m
    <3> QED
      BY <1>2, <2>1
  <2> HIDE DEF q, r, m
  <2>4. Front(q) = SubSeq(q, 1, m)
    BY <2>1, <2>2 DEF Front
  <2>5. /\ SubSeq(q, 1, m) \in Seq(S) /\ Len(SubSeq(q, 1, m)) = m
        /\ \A j \in 1 .. m : SubSeq(q, 1, m)[j] = q[j]
    BY <2>1, <2>2
  <2>6. \A j \in 1 .. m : q[j] = r[j]
    <3> TAKE j \in 1 .. m
    <3>1. j \in 1 .. m + 1
      BY <2>1
    <3> QED
      BY <2>2, <2>3, <3>1
  <2>7. SubSeq(q, 1, m) = r
    BY <2>1, <2>3, <2>5, <2>6
  <2>8. r # <<>>
    BY <2>1, <2>3
  <2> QED
    BY <2>3, <2>4, <2>7, <2>8 DEF q, r, m
<1> QED
  BY <1>4, <1>5, <1>6, <1>7, <1>8 DEF n

\* A path is made below directories, and taken away when nothing is below it.
LEMMA WholeMade ==
  ASSUME NEW T, Whole(T), NEW p \in Paths, NEW kind \in FileKinds, T[p] = "none",
         \A i \in 1 .. Len(p) - 1 : T[Pre(p, i)] = "directory"
  PROVE  Whole([T EXCEPT ![p] = kind])
<1> DEFINE U == [T EXCEPT ![p] = kind]
<1>1. U \in [Paths -> FileKinds] /\ U[p] = kind /\ \A q \in Paths \ {p} : U[q] = T[q]
  BY DEF Whole
<1> HIDE DEF U
<1>2. ASSUME NEW q \in Paths, U[q] # "none", NEW i \in 1 .. Len(q) - 1 PROVE U[Pre(q, i)] = "directory"
  <2>1. Pre(q, i) \in Paths /\ Pre(q, i) # q
    <3>1. Len(q) \in Nat /\ i \in 0 .. Len(q) /\ i # 0 /\ i # Len(q)
      BY <1>2, PathIs
    <3>2. Pre(q, i) \in Paths /\ Len(Pre(q, i)) = i
      BY <3>1, PathIs
    <3> QED
      BY <3>1, <3>2
  <2>2. T[Pre(q, i)] = "directory"
    <3>1. CASE q = p
      BY <1>2, <3>1
    <3>2. CASE q # p
      BY <1>1, <1>2, <3>2 DEF Whole
    <3> QED
      BY <3>1, <3>2
  <2>3. Pre(q, i) # p
    BY <2>2
  <2> QED
    BY <1>1, <2>1, <2>2, <2>3
<1>3. Whole(U)
  BY <1>1, <1>2 DEF Whole
<1> QED
  BY <1>3 DEF U

LEMMA WholeGone ==
  ASSUME NEW T, Whole(T), NEW p \in Paths,
         \A q \in Paths : q # p /\ IsPrefix(p, q) => T[q] = "none"
  PROVE  Whole([T EXCEPT ![p] = "none"])
<1> DEFINE U == [T EXCEPT ![p] = "none"]
<1>1. U \in [Paths -> FileKinds] /\ U[p] = "none" /\ \A q \in Paths \ {p} : U[q] = T[q]
  BY DEF Whole, FileKinds
<1> HIDE DEF U
<1>2. ASSUME NEW q \in Paths, U[q] # "none", NEW i \in 1 .. Len(q) - 1 PROVE U[Pre(q, i)] = "directory"
  <2>1. Len(q) \in Nat /\ i \in 0 .. Len(q) /\ i # 0
    BY <1>2, PathIs
  <2>2. Pre(q, i) \in Paths /\ Len(Pre(q, i)) = i
    BY <2>1, PathIs
  <2>3. q # p /\ T[q] # "none"
    BY <1>1, <1>2
  <2>4. T[Pre(q, i)] = "directory"
    BY <1>2, <2>3 DEF Whole
  <2>5. Pre(q, i) # p
    <3> SUFFICES ASSUME Pre(q, i) = p PROVE FALSE
      OBVIOUS
    <3>1. Len(p) = i /\ Len(p) <= Len(q) /\ Pre(p, Len(p)) = Pre(q, Len(p))
      <4>1. Pre(p, Len(p)) = p
        BY PathIs
      <4>2. Len(p) = i /\ i <= Len(q)
        BY <2>1, <2>2
      <4> QED
        BY <4>1, <4>2
    <3>2. IsPrefix(p, q)
      BY <3>1 DEF IsPrefix, Pre
    <3> QED
      BY <2>3, <3>2
  <2> QED
    BY <1>1, <2>2, <2>4, <2>5
<1>3. Whole(U)
  BY <1>1, <1>2 DEF Whole
<1> QED
  BY <1>3 DEF U

\* When the directories above the path of length k are there, none of them is
\* to be made.
LEMMA NothingMade ==
  ASSUME NEW B, Whole(B), NEW P \in Paths, NEW k \in 0 .. Len(P), Was(B, Pre(P, k)) = "directory"
  PROVE  MadeTo(B, P, k + 1) = B /\ \A i \in 1 .. k : Was(B, Pre(P, i)) = "directory"
<1>1. Len(P) \in Nat /\ k \in Nat /\ k + 1 - 1 = k
  BY PathIs
<1>2. \A i \in 1 .. k : Pre(P, i) \in Paths /\ B[Pre(P, i)] = "directory" /\ Was(B, Pre(P, i)) = "directory"
  <2> TAKE i \in 1 .. k
  <2>1. i \in 0 .. Len(P) /\ i # 0 /\ k # 0 /\ i \in 0 .. k
    BY <1>1
  <2>2. /\ Pre(P, i) \in Paths /\ Pre(P, i) # Drive /\ Pre(P, k) \in Paths /\ Pre(P, k) # Drive
        /\ Len(Pre(P, k)) = k /\ Pre(Pre(P, k), i) = Pre(P, i)
    BY <2>1, PathIs
  <2>3. B[Pre(P, k)] = "directory"
    BY <2>2 DEF Was
  <2>4. CASE i = k
    BY <2>2, <2>3, <2>4 DEF Was
  <2>5. CASE i \in 1 .. k - 1
    <3> DEFINE q == Pre(P, k)
    <3>1. q \in Paths /\ B[q] # "none" /\ i \in 1 .. Len(q) - 1
      BY <2>2, <2>3, <2>5
    <3>2. B[Pre(q, i)] = "directory"
      <4> HIDE DEF q
      <4> QED
        BY <3>1 DEF Whole
    <3> QED
      BY <2>2, <3>2 DEF Was
  <2> QED
    BY <1>1, <2>4, <2>5
<1>3. \A p \in Paths : (IF \E i \in 1 .. k : p = Pre(P, i) THEN "directory" ELSE B[p]) = B[p]
  BY <1>2
<1>4. B = [p \in Paths |-> B[p]]
  BY DEF Whole
<1>5. MadeTo(B, P, k + 1) = [p \in Paths |-> IF \E i \in 1 .. k : p = Pre(P, i) THEN "directory" ELSE B[p]]
  BY <1>1 DEF MadeTo
<1>6. MadeTo(B, P, k + 1) = B
  BY <1>3, <1>4, <1>5, Zenon
<1> QED
  BY <1>2, <1>6

\* On the way down, what is above the path of length k is there, and what is
\* from it on is not.
LEMMA MadeIs ==
  ASSUME NEW B, Whole(B), NEW P \in Paths, NEW k \in 1 .. Len(P), NoneFrom(B, P, k),
         \A i \in 1 .. k - 1 : Was(B, Pre(P, i)) # "file", NEW T, T = MadeTo(B, P, k)
  PROVE  /\ Was(B, P) = "none" /\ ~ Blocked(B, P)
         /\ \A i \in 0 .. k - 1 : Was(T, Pre(P, i)) = "directory"
         /\ Was(T, Pre(P, k)) = "none"
         /\ k # Len(P) => [T EXCEPT ![Pre(P, k)] = "directory"] = MadeTo(B, P, k + 1)
         /\ k = Len(P) => \A kind : [T EXCEPT ![P] = kind] = MadeOf(B, P, kind)
<1> DEFINE n == Len(P)
<1>1. /\ n \in Nat \ {0} /\ Pre(P, n) = P /\ Pre(P, 0) = Drive
      /\ \A i \in 1 .. n : Pre(P, i) \in Paths /\ Pre(P, i) # Drive /\ Len(Pre(P, i)) = i
  <2>1. n \in Nat \ {0} /\ Pre(P, n) = P /\ Pre(P, 0) = Drive
    BY PathIs
  <2>2. ASSUME NEW i \in 1 .. n PROVE Pre(P, i) \in Paths /\ Pre(P, i) # Drive /\ Len(Pre(P, i)) = i
    <3>1. i \in 0 .. Len(P) /\ i # 0
      BY <2>1
    <3> QED
      BY <3>1, PathIs
  <2> QED
    BY <2>1, <2>2
<1>2. DOMAIN B = Paths /\ T = [p \in Paths |-> IF \E i \in 1 .. k - 1 : p = Pre(P, i) THEN "directory" ELSE B[p]]
  BY DEF Whole, MadeTo
<1>3. k \in 1 .. n
  OBVIOUS
<1>4. Was(B, P) = "none"
  <2>1. n \in k .. n
    BY <1>1, <1>3
  <2> QED
    BY <1>1, <2>1 DEF NoneFrom
<1> HIDE DEF n
<1>5. ~ Blocked(B, P)
  <2> SUFFICES ASSUME NEW p \in Above(P), Was(B, p) = "file" PROVE FALSE
    BY DEF Blocked
  <2>1. PICK i \in 0 .. n - 1 : p = Pre(P, i)
    BY DEF Above, Pre, n
  <2>2. CASE i = 0
    BY <1>1, <2>1, <2>2 DEF Was
  <2>3. CASE i \in 1 .. k - 1
    BY <2>1, <2>3
  <2>4. CASE i \in k .. n
    BY <2>1, <2>4 DEF NoneFrom, n
  <2> QED
    BY <1>1, <1>3, <2>1, <2>2, <2>3, <2>4
<1>6. ASSUME NEW i \in 0 .. k - 1 PROVE Was(T, Pre(P, i)) = "directory"
  <2>1. CASE i = 0
    BY <1>1, <2>1 DEF Was
  <2>2. CASE i \in 1 .. k - 1
    <3>1. Pre(P, i) \in Paths /\ Pre(P, i) # Drive
      BY <1>1, <1>3, <2>2
    <3> QED
      BY <1>2, <2>2, <3>1 DEF Was
  <2> QED
    BY <1>3, <2>1, <2>2
<1>7. \A i \in 1 .. k - 1 : Pre(P, i) # Pre(P, k)
  <2> TAKE i \in 1 .. k - 1
  <2>1. Len(Pre(P, i)) = i /\ Len(Pre(P, k)) = k /\ i # k
    BY <1>1, <1>3
  <2> QED
    BY <2>1
<1>8. Was(T, Pre(P, k)) = "none"
  <2>1. Pre(P, k) \in Paths /\ Pre(P, k) # Drive /\ k \in k .. n
    BY <1>1, <1>3
  <2>2. B[Pre(P, k)] = "none"
    BY <2>1 DEF NoneFrom, Was, n
  <2>3. T[Pre(P, k)] = B[Pre(P, k)]
    BY <1>2, <1>7, <2>1
  <2> QED
    BY <2>1, <2>2, <2>3 DEF Was
<1>9. ASSUME k # n PROVE [T EXCEPT ![Pre(P, k)] = "directory"] = MadeTo(B, P, k + 1)
  <2>1. k + 1 - 1 = k
    BY <1>1, <1>3
  <2>2. \A p : (\E i \in 1 .. k : p = Pre(P, i)) <=> (p = Pre(P, k) \/ \E i \in 1 .. k - 1 : p = Pre(P, i))
    <3>1. 1 .. k = (1 .. k - 1) \cup {k}
      BY <1>1, <1>3
    <3> QED
      BY <3>1
  <2>3. [T EXCEPT ![Pre(P, k)] = "directory"] = [p \in Paths |-> IF p = Pre(P, k) THEN "directory" ELSE T[p]]
    BY <1>2
  <2>4. \A p \in Paths : (IF p = Pre(P, k) THEN "directory" ELSE T[p])
                         = IF \E i \in 1 .. k : p = Pre(P, i) THEN "directory" ELSE B[p]
    BY <1>2, <2>2
  <2>5. MadeTo(B, P, k + 1) = [p \in Paths |-> IF \E i \in 1 .. k : p = Pre(P, i) THEN "directory" ELSE B[p]]
    BY <2>1 DEF MadeTo
  <2> QED
    BY <2>3, <2>4, <2>5, Zenon
<1>10. ASSUME k = n, NEW kind PROVE [T EXCEPT ![P] = kind] = MadeOf(B, P, kind)
  <2>1. \A p \in Paths : p \in Above(P) <=> \E i \in 1 .. k - 1 : p = Pre(P, i)
    <3> TAKE p \in Paths
    <3>1. p \in Above(P) <=> \E i \in 0 .. n - 1 : p = Pre(P, i)
      BY DEF Above, Pre, n
    <3>2. p # Pre(P, 0)
      <4>1. Len(p) # 0 /\ p # Drive
        BY PathIs
      <4> QED
        BY <1>1, <4>1
    <3> QED
      BY <1>1, <1>10, <3>1, <3>2
  <2>2. [T EXCEPT ![P] = kind] = [p \in Paths |-> IF p = P THEN kind ELSE T[p]]
    BY <1>2
  <2>3. \A p \in Paths : (IF p = P THEN kind ELSE T[p])
                         = IF p = P THEN kind ELSE IF p \in Above(P) THEN "directory" ELSE B[p]
    BY <1>2, <2>1
  <2>4. MadeOf(B, P, kind) = [p \in Paths |-> IF p = P THEN kind ELSE IF p \in Above(P) THEN "directory" ELSE B[p]]
    BY <1>2 DEF MadeOf
  <2> QED
    BY <2>2, <2>3, <2>4, Zenon
<1> QED
  BY <1>4, <1>5, <1>6, <1>8, <1>9, <1>10 DEF n

\* The answer and the tree of a call that is over.
Answered(a, result, tree) ==
  LET alone == Alone(fsCall[a].op, fsBefore[a], fsCall[a].path)
  IN result = alone.result /\ tree = alone.tree
AsAlone(a) ==
  fsCall[a].pc # "idle" /\ fsCall'[a].pc = "idle" /\ ~fsRaced'[a]
  => Answered(a, fsCall'[a].result, fsTree')

\* A step of one actor, from what it does to its own call.
LEMMA OneActs ==
  ASSUME AloneInv, FsInv', NEW a \in Actors, Quiet \/ \E p, kind : Change(a, p, kind),
         \A b \in Actors \ {a} : fsCall'[b] = fsCall[b], Whole(fsTree'),
         Underway(fsCall'[a], fsBefore[a], fsRaced[a], fsTree'),
         ~fsRaced[a] /\ fsCall[a].pc # "idle" /\ fsCall'[a].pc = "idle"
           => Answered(a, fsCall'[a].result, fsTree')
  PROVE  AloneInv' /\ \A b \in Actors : AsAlone(b)
<1>1. fsBefore' = fsBefore /\ DOMAIN fsRaced' = Actors
  <2>1. CASE Quiet
    BY <2>1 DEF Quiet, AloneInv
  <2>2. ASSUME NEW p, NEW kind, Change(a, p, kind) PROVE fsBefore' = fsBefore /\ DOMAIN fsRaced' = Actors
    BY <2>2 DEF Change
  <2> QED
    BY <2>1, <2>2
<1>2. ~fsRaced'[a] => ~fsRaced[a]
  <2>1. CASE Quiet
    BY <2>1 DEF Quiet
  <2>2. ASSUME NEW p, NEW kind, Change(a, p, kind) PROVE ~fsRaced'[a] => ~fsRaced[a]
    BY <2>2 DEF Change
  <2> QED
    BY <2>1, <2>2
<1>3. ASSUME NEW b \in Actors \ {a}, fsCall[b].pc # "idle", ~fsRaced'[b]
      PROVE  ~fsRaced[b] /\ fsTree' = fsTree
  <2>1. CASE Quiet
    BY <1>3, <2>1 DEF Quiet
  <2>2. ASSUME NEW p, NEW kind, Change(a, p, kind) PROVE FALSE
    BY <1>3, <2>2 DEF Change
  <2> QED
    BY <2>1, <2>2
<1>4. ASSUME NEW b \in Actors
      PROVE  Underway(fsCall'[b], fsBefore'[b], fsRaced'[b], fsTree')
  <2>1. CASE b = a
    BY <1>1, <1>2, <2>1 DEF Underway
  <2>2. CASE b # a
    <3>1. Underway(fsCall[b], fsBefore[b], fsRaced[b], fsTree) /\ fsCall'[b] = fsCall[b]
      BY <2>2 DEF AloneInv
    <3> QED
      BY <1>1, <1>3, <2>2, <3>1 DEF Underway
  <2> QED
    BY <2>1, <2>2
<1>5. AloneInv'
  BY <1>1, <1>4 DEF AloneInv
<1>6. ASSUME NEW b \in Actors PROVE AsAlone(b)
  BY <1>2 DEF AsAlone
<1> QED
  BY <1>5, <1>6

\* Where a call is.
LEMMA WhereIs ==
  ASSUME AloneInv, NEW a \in Actors, fsCall[a].pc # "idle"
  PROVE  /\ DOMAIN fsCall = Actors /\ DOMAIN fsCall[a] = Fields
         /\ fsCall[a].path \in Paths /\ fsCall[a].op \in FileSteps
         /\ Whole(fsTree) /\ Whole(fsBefore[a])
         /\ \E k \in 0 .. Len(fsCall[a].path) :
              /\ fsCall[a].todo = Todo(fsCall[a].path, k)
              /\ ~fsRaced[a] => Phase(fsCall[a].op, fsCall[a].pc, fsCall[a].path, k, fsBefore[a], fsTree)
  BY DEF AloneInv, FsInv, InOrder, Underway

\* A step that reads, and goes on or answers.
LEMMA GoesOn ==
  ASSUME AloneInv, FsInv', NEW a \in Actors, fsCall[a].pc # "idle", Quiet,
         NEW pc, Goto(a, pc), pc # "idle", NEW k \in 0 .. Len(fsCall[a].path),
         fsCall[a].todo = Todo(fsCall[a].path, k),
         ~fsRaced[a] => Phase(fsCall[a].op, pc, fsCall[a].path, k, fsBefore[a], fsTree)
  PROVE  AloneInv' /\ \A b \in Actors : AsAlone(b)
<1>1. /\ DOMAIN fsCall = Actors /\ DOMAIN fsCall[a] = Fields
      /\ fsCall[a].path \in Paths /\ fsCall[a].op \in FileSteps /\ Whole(fsTree)
  BY WhereIs
<1>2. /\ \A b \in Actors \ {a} : fsCall'[b] = fsCall[b]
      /\ fsCall'[a].pc = pc /\ fsCall'[a].todo = fsCall[a].todo
      /\ fsCall'[a].path = fsCall[a].path /\ fsCall'[a].op = fsCall[a].op
  <2>1. fsCall' = SetPc(fsCall, a, pc)
    BY DEF Goto, SetPc
  <2> QED
    BY <1>1, <2>1, PcChanges
<1>3. fsTree' = fsTree
  BY DEF Quiet
<1>4. Underway(fsCall'[a], fsBefore[a], fsRaced[a], fsTree')
  BY <1>1, <1>2, <1>3 DEF Underway
<1> QED
  BY <1>1, <1>2, <1>3, <1>4, OneActs

LEMMA Answers ==
  ASSUME AloneInv, FsInv', NEW a \in Actors, fsCall[a].pc # "idle",
         Quiet \/ \E p, kind : Change(a, p, kind), Whole(fsTree'),
         NEW result, Answer(a, result), ~fsRaced[a] => Answered(a, result, fsTree')
  PROVE  AloneInv' /\ \A b \in Actors : AsAlone(b)
<1>1. DOMAIN fsCall = Actors /\ DOMAIN fsCall[a] = Fields
  BY WhereIs
<1>2. /\ \A b \in Actors \ {a} : fsCall'[b] = fsCall[b]
      /\ fsCall'[a].pc = "idle" /\ fsCall'[a].result = result
  <2>1. fsCall' = SetAnswer(fsCall, a, "idle", result)
    BY DEF Answer, SetAnswer
  <2> QED
    BY <1>1, <2>1, AnswerChanges
<1>3. Underway(fsCall'[a], fsBefore[a], fsRaced[a], fsTree')
  BY <1>2 DEF Underway
<1> QED
  BY <1>2, <1>3, OneActs

\* A step that makes the list longer or shorter.
LEMMA GoesTo ==
  ASSUME AloneInv, FsInv', NEW a \in Actors, fsCall[a].pc # "idle",
         Quiet \/ \E p, kind : Change(a, p, kind), Whole(fsTree'),
         NEW pc, pc # "idle", NEW k \in 0 .. Len(fsCall[a].path), NEW todo, todo = Todo(fsCall[a].path, k),
         \/ fsCall' = [fsCall EXCEPT ![a].todo = todo, ![a].pc = pc]
         \/ fsCall' = [fsCall EXCEPT ![a].pc = pc, ![a].todo = todo],
         ~fsRaced[a] => Phase(fsCall[a].op, pc, fsCall[a].path, k, fsBefore[a], fsTree')
  PROVE  AloneInv' /\ \A b \in Actors : AsAlone(b)
<1>1. /\ DOMAIN fsCall = Actors /\ DOMAIN fsCall[a] = Fields
      /\ fsCall[a].path \in Paths /\ fsCall[a].op \in FileSteps
  BY WhereIs
<1>2. /\ \A b \in Actors \ {a} : fsCall'[b] = fsCall[b]
      /\ fsCall'[a].pc = pc /\ fsCall'[a].todo = todo
      /\ fsCall'[a].path = fsCall[a].path /\ fsCall'[a].op = fsCall[a].op
  <2>1. CASE fsCall' = [fsCall EXCEPT ![a].todo = todo, ![a].pc = pc]
    <3>1. fsCall' = SetTodoPc(fsCall, a, todo, pc)
      BY <2>1 DEF SetTodoPc
    <3> QED
      BY <1>1, <3>1, TodoPcChanges
  <2>2. CASE fsCall' = [fsCall EXCEPT ![a].pc = pc, ![a].todo = todo]
    <3>1. fsCall' = SetPcTodo(fsCall, a, pc, todo)
      BY <2>2 DEF SetPcTodo
    <3> QED
      BY <1>1, <3>1, PcTodoChanges
  <2> QED
    BY <2>1, <2>2
<1>4. Underway(fsCall'[a], fsBefore[a], fsRaced[a], fsTree')
  BY <1>1, <1>2 DEF Underway
<1> QED
  BY <1>1, <1>2, <1>4, OneActs

\* What the step of an actor leaves.
AloneAfter == AloneInv' /\ \A b \in Actors : AsAlone(b)

LEMMA BeginAlone ==
  ASSUME AloneInv, FsInv', NEW a \in Actors, NEW op \in FileSteps, NEW path \in Paths, Begin(a, op, path)
  PROVE  AloneAfter
<1> DEFINE start == CASE op = "create" -> "isDirectory" [] op = "make" -> "isThere"
                      [] OTHER -> "attributes"
           call == [op |-> op, path |-> path, todo |-> <<path>>, result |-> "none", pc |-> start]
<1>1. /\ fsCall[a].pc = "idle" /\ fsCall' = [fsCall EXCEPT ![a] = call] /\ fsTree' = fsTree
      /\ fsBefore' = [fsBefore EXCEPT ![a] = fsTree] /\ fsRaced' = [fsRaced EXCEPT ![a] = FALSE]
  BY DEF Begin
<1>2. DOMAIN fsCall = Actors /\ DOMAIN fsBefore = Actors /\ DOMAIN fsRaced = Actors /\ Whole(fsTree)
  BY DEF AloneInv, FsInv
<1>3. /\ op = "create" => start = "isDirectory"
      /\ op = "make" => start = "isThere"
      /\ op = "remove" => start = "attributes"
  OBVIOUS
<1> HIDE DEF start
<1>4. call.op = op /\ call.path = path /\ call.todo = <<path>> /\ call.pc = start
  OBVIOUS
<1> HIDE DEF call
<1>5. Len(path) \in Nat /\ Len(path) \in 0 .. Len(path) /\ Todo(path, Len(path)) = <<path>>
  <2>1. Len(path) \in Nat
    BY PathIs
  <2>2. Len(path) \in 0 .. Len(path)
    BY <2>1
  <2> QED
    BY <2>1, <2>2, TodoIs
<1>6. Phase(op, start, path, Len(path), fsTree, fsTree)
  <2>1. NoneFrom(fsTree, path, Len(path) + 1)
    BY <1>5 DEF NoneFrom
  <2> QED
    BY <1>3, <2>1 DEF Phase, FileSteps
<1>7. Underway(call, fsTree, FALSE, fsTree)
  BY <1>4, <1>5, <1>6 DEF Underway
<1>8. ASSUME NEW b \in Actors
      PROVE  Whole(fsBefore'[b]) /\ Underway(fsCall'[b], fsBefore'[b], fsRaced'[b], fsTree')
  <2>1. CASE b = a
    BY <1>1, <1>2, <1>7, <2>1
  <2>2. CASE b # a
    BY <1>1, <1>2, <2>2 DEF AloneInv
  <2> QED
    BY <2>1, <2>2
<1>9. AloneInv'
  BY <1>1, <1>2, <1>8 DEF AloneInv
<1>10. \A b \in Actors : AsAlone(b)
  BY <1>1, <1>2 DEF AsAlone
<1> QED
  BY <1>9, <1>10 DEF AloneAfter

\* What a path is for the system while nobody has disturbed the call.
LEMMA PathAttributes ==
  ASSUME Whole(fsTree), NEW P \in Paths
  PROVE  /\ Kind(P) = Was(fsTree, P) /\ Was(fsTree, P) \in FileKinds
         /\ Exist(P) <=> Was(fsTree, P) # "none"
         /\ Directory(P) <=> Was(fsTree, P) = "directory"
         /\ Was(fsTree, P) # "none" => Reachable(P)
<1>1. Len(P) \in 0 .. Len(P) /\ Pre(P, Len(P)) = P
  <2>1. Len(P) \in Nat /\ Pre(P, Len(P)) = P
    BY PathIs
  <2> QED
    BY <2>1
<1> QED
  BY <1>1, AttributesAre

LEMMA IsDirectoryAlone ==
  ASSUME AloneInv, FsInv', NEW a \in Actors, IsDirectory(a) PROVE AloneAfter
<1> DEFINE P == fsCall[a].path
<1>1. fsCall[a].pc = "isDirectory" /\ Quiet /\ fsTree' = fsTree /\ Whole(fsTree) /\ P \in Paths
  BY WhereIs DEF IsDirectory, Quiet
<1>2. PICK k \in 0 .. Len(P) :
        /\ fsCall[a].todo = Todo(P, k)
        /\ ~fsRaced[a] => Phase(fsCall[a].op, "isDirectory", P, k, fsBefore[a], fsTree)
  BY <1>1, WhereIs
<1>3. ~fsRaced[a] => fsCall[a].op = "create" /\ k = Len(P) /\ fsTree = fsBefore[a]
  BY <1>2 DEF Phase
<1>4. Directory(P) <=> Was(fsTree, P) = "directory"
  BY <1>1, PathAttributes
<1> HIDE DEF P
<1>5. CASE Directory(P)
  <2>1. Answer(a, "throw")
    BY <1>5 DEF IsDirectory, P
  <2>2. ~fsRaced[a] => Answered(a, "throw", fsTree')
    BY <1>1, <1>3, <1>4, <1>5 DEF Answered, Alone, P
  <2> QED
    BY <1>1, <2>1, <2>2, Answers DEF AloneAfter
<1>6. CASE ~ Directory(P)
  <2>1. Goto(a, "exists")
    BY <1>6 DEF IsDirectory, P
  <2>2. ~fsRaced[a] => Phase(fsCall[a].op, "exists", P, k, fsBefore[a], fsTree)
    BY <1>3, <1>4, <1>6 DEF Phase
  <2> QED
    BY <1>1, <1>2, <2>1, <2>2, GoesOn DEF AloneAfter, P
<1> QED
  BY <1>5, <1>6

LEMMA ExistsAlone ==
  ASSUME AloneInv, FsInv', NEW a \in Actors, Exists(a) PROVE AloneAfter
<1> DEFINE P == fsCall[a].path
           todo == <<P, parent(P)>>
<1>1. fsCall[a].pc = "exists" /\ Quiet /\ fsTree' = fsTree /\ Whole(fsTree) /\ P \in Paths
  BY WhereIs DEF Exists, Quiet
<1>2. PICK k \in 0 .. Len(P) :
        /\ fsCall[a].todo = Todo(P, k)
        /\ ~fsRaced[a] => Phase(fsCall[a].op, "exists", P, k, fsBefore[a], fsTree)
  BY <1>1, WhereIs
<1>3. ~fsRaced[a] => /\ fsCall[a].op = "create" /\ k = Len(P) /\ fsTree = fsBefore[a]
                     /\ Was(fsBefore[a], P) # "directory"
  BY <1>2 DEF Phase
<1>4. Was(fsTree, P) \in FileKinds /\ (Exist(P) <=> Was(fsTree, P) # "none")
  BY <1>1, PathAttributes
<1>5. Len(P) \in Nat \ {0} /\ Pre(P, Len(P)) = P
  BY <1>1, PathIs
<1> HIDE DEF P
<1>6. CASE Exist(P)
  <2>1. Answer(a, "false")
    BY <1>6 DEF Exists, P
  <2>2. ~fsRaced[a] => Answered(a, "false", fsTree')
    BY <1>1, <1>3, <1>4, <1>6 DEF Answered, Alone, P, FileKinds
  <2> QED
    BY <1>1, <2>1, <2>2, Answers DEF AloneAfter
<1>7. CASE ~ Exist(P)
  <2> DEFINE j == Len(P) - 1
  <2>1. j \in 0 .. Len(P) /\ j + 1 = Len(P) /\ j < Len(P) /\ Len(P) \in 0 .. Len(P)
    BY <1>5
  <2>2. todo = Todo(P, j)
    <3>1. Todo(P, Len(P)) = <<P>>
      BY <1>1, <2>1, TodoIs
    <3>2. Append(Todo(P, Len(P)), parent(Pre(P, Len(P)))) = Todo(P, j)
      BY <1>1, <1>5, <2>1, TodoIs
    <3>3. Append(<<P>>, parent(P)) = <<P, parent(P)>>
      <4> DEFINE x == parent(P)
                 S == {P, x}
      <4>1. <<P>> \in Seq(S) /\ x \in S
        OBVIOUS
      <4> HIDE DEF x
      <4>2. <<P, x>> \in Seq(S) /\ Len(<<P, x>>) = 2 /\ <<P, x>>[1] = P /\ <<P, x>>[2] = x
        OBVIOUS
      <4> HIDE DEF S
      <4>3. /\ Append(<<P>>, x) \in Seq(S) /\ Len(Append(<<P>>, x)) = 2
            /\ Append(<<P>>, x)[1] = P /\ Append(<<P>>, x)[2] = x
        BY <4>1
      <4> DEFINE u == <<P, x>>
                 v == Append(<<P>>, x)
      <4>4. u \in Seq(S) /\ v \in Seq(S) /\ Len(u) = 2 /\ Len(v) = 2 /\ u[1] = v[1] /\ u[2] = v[2]
        BY <4>2, <4>3
      <4> HIDE DEF u, v
      <4>5. \A i \in 1 .. 2 : u[i] = v[i]
        BY <4>4
      <4>6. v = u
        BY <4>4, <4>5
      <4> QED
        BY <4>6 DEF x, u, v
    <3> QED
      BY <1>5, <3>1, <3>2, <3>3
  <2>3. fsCall' = [fsCall EXCEPT ![a].pc = "isThere", ![a].todo = todo]
    BY <1>7 DEF Exists, P
  <2>4. ASSUME ~fsRaced[a] PROVE Phase(fsCall[a].op, "isThere", P, j, fsBefore[a], fsTree)
    <3>1. NoneFrom(fsBefore[a], P, j + 1)
      <4> SUFFICES ASSUME NEW i \in Len(P) .. Len(P) PROVE Was(fsBefore[a], Pre(P, i)) = "none"
        BY <2>1 DEF NoneFrom
      <4>1. i = Len(P)
        BY <1>5
      <4> QED
        BY <1>3, <1>4, <1>5, <1>7, <2>4, <4>1
    <3> HIDE DEF j
    <3> QED
      BY <1>3, <2>1, <2>4, <3>1 DEF Phase
  <2> HIDE DEF todo, j
  <2> QED
    BY <1>1, <2>1, <2>2, <2>3, <2>4, GoesTo DEF AloneAfter, P
<1> QED
  BY <1>6, <1>7

LEMMA AttributesAlone ==
  ASSUME AloneInv, FsInv', NEW a \in Actors, Attributes(a) PROVE AloneAfter
<1> DEFINE P == fsCall[a].path
           pc == IF Directory(P) THEN "removeDirectory" ELSE "deleteFile"
<1>1. fsCall[a].pc = "attributes" /\ Quiet /\ fsTree' = fsTree /\ Whole(fsTree) /\ P \in Paths
  BY WhereIs DEF Attributes, Quiet
<1>2. PICK k \in 0 .. Len(P) :
        /\ fsCall[a].todo = Todo(P, k)
        /\ ~fsRaced[a] => Phase(fsCall[a].op, "attributes", P, k, fsBefore[a], fsTree)
  BY <1>1, WhereIs
<1>3. ~fsRaced[a] => fsCall[a].op = "remove" /\ k = Len(P) /\ fsTree = fsBefore[a]
  BY <1>2 DEF Phase
<1>4. /\ Was(fsTree, P) \in FileKinds /\ (Exist(P) <=> Was(fsTree, P) # "none")
      /\ Directory(P) <=> Was(fsTree, P) = "directory"
  BY <1>1, PathAttributes
<1> HIDE DEF P
<1>5. CASE ~ Exist(P)
  <2>1. Answer(a, "false")
    BY <1>5 DEF Attributes, P
  <2>2. ~fsRaced[a] => Answered(a, "false", fsTree')
    BY <1>1, <1>3, <1>4, <1>5 DEF Answered, Alone, P
  <2> QED
    BY <1>1, <2>1, <2>2, Answers DEF AloneAfter
<1>6. CASE Exist(P)
  <2>1. Goto(a, pc)
    BY <1>6 DEF Attributes, P
  <2>2. ~fsRaced[a] => Phase(fsCall[a].op, pc, P, k, fsBefore[a], fsTree)
    BY <1>3, <1>4, <1>6 DEF Phase, FileKinds
  <2>3. pc # "idle"
    OBVIOUS
  <2> HIDE DEF pc
  <2> QED
    BY <1>1, <1>2, <2>1, <2>2, <2>3, GoesOn DEF AloneAfter, P
<1> QED
  BY <1>5, <1>6

LEMMA DeleteAlone ==
  ASSUME AloneInv, FsInv', NEW a \in Actors, Delete(a) PROVE AloneAfter
<1> DEFINE P == fsCall[a].path
           kind == IF fsCall[a].pc = "deleteFile" THEN "file" ELSE "directory"
           bare == \A p \in Paths : p # P /\ IsPrefix(P, p) => fsTree[p] = "none"
<1>1. fsCall[a].pc \in {"removeDirectory", "deleteFile"} /\ Whole(fsTree) /\ P \in Paths
  BY WhereIs DEF Delete
<1>2. PICK k \in 0 .. Len(P) :
        /\ fsCall[a].todo = Todo(P, k)
        /\ ~fsRaced[a] => Phase(fsCall[a].op, fsCall[a].pc, P, k, fsBefore[a], fsTree)
  BY <1>1, WhereIs
<1>3. ~fsRaced[a] => fsCall[a].op = "remove" /\ fsTree = fsBefore[a] /\ Was(fsTree, P) = kind
  BY <1>1, <1>2 DEF Phase
<1>4. Kind(P) = Was(fsTree, P) /\ (Was(fsTree, P) # "none" => Reachable(P)) /\ P # Drive
  BY <1>1, PathAttributes, PathIs
<1>5. DOMAIN fsTree = Paths /\ kind # "none"
  BY <1>1 DEF Whole
<1>6. CASE Reachable(P) /\ Kind(P) = kind /\ bare
  <2>1. Answer(a, "true") /\ Change(a, P, "none")
    BY <1>6 DEF Delete
  <2> HIDE DEF P
  <2>2. fsTree' = [fsTree EXCEPT ![P] = "none"]
    BY <2>1 DEF Change
  <2>3. Whole(fsTree')
    BY <1>1, <1>6, <2>2, WholeGone
  <2>4. ~fsRaced[a] => Answered(a, "true", fsTree')
    <3>1. ~ \E p \in DOMAIN fsTree : p # P /\ IsPrefix(P, p) /\ fsTree[p] # "none"
      BY <1>5, <1>6
    <3> QED
      BY <1>3, <1>5, <2>2, <3>1 DEF Answered, Alone, P
  <2> QED
    BY <1>1, <2>1, <2>3, <2>4, Answers DEF AloneAfter
<1>7. CASE ~ (Reachable(P) /\ Kind(P) = kind /\ bare)
  <2>1. Answer(a, "false") /\ Quiet /\ fsTree' = fsTree
    BY <1>7 DEF Delete, Quiet
  <2> HIDE DEF P
  <2>2. ~fsRaced[a] => Answered(a, "false", fsTree')
    <3> SUFFICES ASSUME ~fsRaced[a] PROVE Answered(a, "false", fsTree')
      OBVIOUS
    <3>1. ~ bare
      BY <1>3, <1>4, <1>5, <1>7
    <3>2. \E p \in DOMAIN fsTree : p # P /\ IsPrefix(P, p) /\ fsTree[p] # "none"
      BY <1>5, <3>1
    <3> QED
      BY <1>3, <2>1, <3>2 DEF Answered, Alone, P
  <2> QED
    BY <1>1, <2>1, <2>2, Answers DEF AloneAfter
<1> QED
  BY <1>6, <1>7

LEMMA IsThereAlone ==
  ASSUME AloneInv, FsInv', NEW a \in Actors, IsThere(a) PROVE AloneAfter
<1> DEFINE P == fsCall[a].path
           pc == IF Exist(Last(fsCall[a].todo)) THEN "isFile" ELSE "missing"
<1>1. fsCall[a].pc = "isThere" /\ Quiet /\ Whole(fsTree) /\ P \in Paths /\ Goto(a, pc)
  BY WhereIs DEF IsThere, Quiet
<1>2. PICK k \in 0 .. Len(P) :
        /\ fsCall[a].todo = Todo(P, k)
        /\ ~fsRaced[a] => Phase(fsCall[a].op, "isThere", P, k, fsBefore[a], fsTree)
  BY <1>1, WhereIs
<1>3. Last(fsCall[a].todo) = Pre(P, k)
  BY <1>1, <1>2, TodoIs
<1>4. Exist(Pre(P, k)) <=> Was(fsTree, Pre(P, k)) # "none"
  BY <1>1, AttributesAre
<1> HIDE DEF P
<1>5. ~fsRaced[a] => Phase(fsCall[a].op, pc, P, k, fsBefore[a], fsTree)
  BY <1>2, <1>3, <1>4 DEF Phase
<1>6. pc # "idle"
  OBVIOUS
<1> HIDE DEF pc
<1> QED
  BY <1>1, <1>2, <1>5, <1>6, GoesOn DEF AloneAfter, P

LEMMA IsFileAlone ==
  ASSUME AloneInv, FsInv', NEW a \in Actors, IsFile(a) PROVE AloneAfter
<1> DEFINE P == fsCall[a].path
<1>1. fsCall[a].pc = "isFile" /\ Quiet /\ fsTree' = fsTree /\ Whole(fsTree) /\ P \in Paths
  BY WhereIs DEF IsFile, Quiet
<1>2. PICK k \in 0 .. Len(P) :
        /\ fsCall[a].todo = Todo(P, k)
        /\ ~fsRaced[a] => Phase(fsCall[a].op, "isFile", P, k, fsBefore[a], fsTree)
  BY <1>1, WhereIs
<1>3. Last(fsCall[a].todo) = Pre(P, k)
  BY <1>1, <1>2, TodoIs
<1>4. Was(fsTree, Pre(P, k)) \in FileKinds /\ (Directory(Pre(P, k)) <=> Was(fsTree, Pre(P, k)) = "directory")
  BY <1>1, AttributesAre
<1>5. Len(P) \in Nat \ {0} /\ Pre(P, Len(P)) = P
  BY <1>1, PathIs
<1>6. ~fsRaced[a] => /\ fsCall[a].op \in {"create", "make"} /\ fsTree = fsBefore[a]
                     /\ NoneFrom(fsBefore[a], P, k + 1)
                     /\ fsCall[a].op = "create" => k < Len(P)
                     /\ Was(fsBefore[a], Pre(P, k)) # "none"
  BY <1>2 DEF Phase
<1> HIDE DEF P
<1>7. CASE Directory(Pre(P, k))
  <2>1. Goto(a, "missing")
    BY <1>3, <1>7 DEF IsFile
  <2>2. ~fsRaced[a] => Phase(fsCall[a].op, "missing", P, k, fsBefore[a], fsTree)
    BY <1>4, <1>6, <1>7 DEF Phase
  <2> QED
    BY <1>1, <1>2, <2>1, <2>2, GoesOn DEF AloneAfter, P
<1>8. CASE ~ Directory(Pre(P, k))
  <2>1. Answer(a, "throw")
    BY <1>3, <1>8 DEF IsFile
  <2>2. ~fsRaced[a] => Answered(a, "throw", fsTree')
    <3> SUFFICES ASSUME ~fsRaced[a] PROVE Answered(a, "throw", fsTree')
      OBVIOUS
    <3>1. Was(fsTree, Pre(P, k)) = "file"
      BY <1>4, <1>6, <1>8 DEF FileKinds
    <3>2. CASE k = Len(P)
      BY <1>1, <1>5, <1>6, <3>1, <3>2 DEF Answered, Alone, P
    <3>3. CASE k # Len(P)
      <4>1. Len(P) \in k + 1 .. Len(P) /\ k \in 0 .. Len(P) - 1
        BY <1>5, <3>3
      <4>2. Was(fsTree, P) = "none"
        BY <1>5, <1>6, <4>1 DEF NoneFrom
      <4>3. Blocked(fsTree, P)
        BY <3>1, <4>1 DEF Blocked, Above, Pre
      <4> QED
        BY <1>1, <1>6, <4>2, <4>3 DEF Answered, Alone, P
    <3> QED
      BY <3>2, <3>3
  <2> QED
    BY <1>1, <2>1, <2>2, Answers DEF AloneAfter
<1> QED
  BY <1>7, <1>8

LEMMA CreateFileAlone ==
  ASSUME AloneInv, FsInv', NEW a \in Actors, CreateFile(a) PROVE AloneAfter
<1> DEFINE P == fsCall[a].path
           answer == IF Reachable(P) /\ Kind(P) = "file" THEN "false" ELSE "throw"
<1>1. fsCall[a].pc = "createFile" /\ Whole(fsTree) /\ Whole(fsBefore[a]) /\ P \in Paths
  BY WhereIs DEF CreateFile
<1>2. PICK k \in 0 .. Len(P) :
        /\ fsCall[a].todo = Todo(P, k)
        /\ ~fsRaced[a] => Phase(fsCall[a].op, "createFile", P, k, fsBefore[a], fsTree)
  BY <1>1, WhereIs
<1>3. Len(P) \in Nat \ {0} /\ Pre(P, Len(P)) = P /\ Pre(P, 0) = Drive /\ P # Drive
  BY <1>1, PathIs
<1>4. /\ Kind(P) = Was(fsTree, P) /\ Was(fsTree, P) \in FileKinds
      /\ Exist(P) <=> Was(fsTree, P) # "none"
  BY <1>1, PathAttributes
<1>5. Reachable(P) <=> \A i \in 0 .. Len(P) - 1 : Was(fsTree, Pre(P, i)) = "directory"
  <2>1. Len(P) \in 0 .. Len(P)
    BY <1>3
  <2> QED
    BY <1>1, <1>3, <2>1, AttributesAre
<1>6. ~fsRaced[a] => /\ fsCall[a].op = "create" /\ k = Len(P) /\ k \in 1 .. Len(P)
                     /\ fsTree = MadeTo(fsBefore[a], P, k) /\ NoneFrom(fsBefore[a], P, k)
                     /\ \A i \in 1 .. k - 1 : Was(fsBefore[a], Pre(P, i)) # "file"
  BY <1>2, <1>3 DEF Phase
<1> HIDE DEF P
<1>7. ASSUME ~fsRaced[a]
      PROVE  /\ Was(fsBefore[a], P) = "none" /\ ~ Blocked(fsBefore[a], P)
             /\ Reachable(P) /\ ~ Exist(P)
             /\ [fsTree EXCEPT ![P] = "file"] = MadeOf(fsBefore[a], P, "file")
  <2>1. /\ Was(fsBefore[a], P) = "none" /\ ~ Blocked(fsBefore[a], P)
        /\ \A i \in 0 .. k - 1 : Was(fsTree, Pre(P, i)) = "directory"
        /\ Was(fsTree, Pre(P, k)) = "none"
        /\ k = Len(P) => \A kind : [fsTree EXCEPT ![P] = kind] = MadeOf(fsBefore[a], P, kind)
    <3> DEFINE B == fsBefore[a]
               T == fsTree
    <3>1. /\ Whole(B) /\ P \in Paths /\ k \in 1 .. Len(P) /\ NoneFrom(B, P, k) /\ T = MadeTo(B, P, k)
          /\ \A i \in 1 .. k - 1 : Was(B, Pre(P, i)) # "file"
      BY <1>1, <1>6, <1>7
    <3> HIDE DEF B, T
    <3>2. /\ Was(B, P) = "none" /\ ~ Blocked(B, P)
          /\ \A i \in 0 .. k - 1 : Was(T, Pre(P, i)) = "directory"
          /\ Was(T, Pre(P, k)) = "none"
          /\ k # Len(P) => [T EXCEPT ![Pre(P, k)] = "directory"] = MadeTo(B, P, k + 1)
          /\ k = Len(P) => \A kind : [T EXCEPT ![P] = kind] = MadeOf(B, P, kind)
      BY <3>1, MadeIs
    <3> QED
      BY <3>2 DEF B, T
  <2> QED
    BY <1>3, <1>4, <1>5, <1>6, <1>7, <2>1
<1>8. CASE ~ Exist(P) /\ Reachable(P)
  <2>1. Answer(a, "true") /\ Change(a, P, "file")
    BY <1>8 DEF CreateFile, P
  <2>2. fsTree' = [fsTree EXCEPT ![P] = "file"]
    BY <2>1 DEF Change
  <2>3. Whole(fsTree')
    <3>1. fsTree[P] = "none"
      BY <1>3, <1>4, <1>8 DEF Was
    <3>2. \A i \in 1 .. Len(P) - 1 : fsTree[Pre(P, i)] = "directory"
      <4> TAKE i \in 1 .. Len(P) - 1
      <4>1. i \in 0 .. Len(P) - 1 /\ i \in 0 .. Len(P) /\ i # 0
        BY <1>3
      <4>2. Pre(P, i) # Drive
        BY <1>1, <4>1, PathIs
      <4> QED
        BY <1>5, <1>8, <4>1, <4>2 DEF Was
    <3>3. "file" \in FileKinds
      BY DEF FileKinds
    <3> QED
      BY <1>1, <2>2, <3>1, <3>2, <3>3, WholeMade
  <2>4. ~fsRaced[a] => Answered(a, "true", fsTree')
    BY <1>6, <1>7, <2>2 DEF Answered, Alone, P
  <2> QED
    BY <1>1, <2>1, <2>3, <2>4, Answers DEF AloneAfter
<1>9. CASE ~ (~ Exist(P) /\ Reachable(P))
  <2>1. Answer(a, answer) /\ Quiet /\ fsTree' = fsTree
    BY <1>9 DEF CreateFile, Quiet, P
  <2>2. fsRaced[a]
    BY <1>7, <1>9
  <2> HIDE DEF answer
  <2> QED
    BY <1>1, <2>1, <2>2, Answers DEF AloneAfter
<1> QED
  BY <1>8, <1>9

\* The last path of the list is there.
LEMMA DoneAlone ==
  ASSUME AloneInv, FsInv', NEW a \in Actors, fsCall[a].pc # "idle", NEW result, Done(a, result),
         Quiet \/ \E p, kind : Change(a, p, kind), Whole(fsTree'),
         NEW k \in 0 .. Len(fsCall[a].path), fsCall[a].todo = Todo(fsCall[a].path, k),
         ~fsRaced[a] =>
           /\ fsCall[a].op \in {"create", "make"} /\ (fsCall[a].op = "create" => k < Len(fsCall[a].path))
           /\ k = Len(fsCall[a].path) => Answered(a, result, fsTree')
           /\ k # Len(fsCall[a].path) =>
                /\ fsTree' = MadeTo(fsBefore[a], fsCall[a].path, k + 1)
                /\ NoneFrom(fsBefore[a], fsCall[a].path, k + 1)
                /\ \A i \in 1 .. k : Was(fsBefore[a], Pre(fsCall[a].path, i)) # "file"
  PROVE  AloneAfter
<1> DEFINE P == fsCall[a].path
           rest == Front(fsCall[a].todo)
           pc == IF fsCall[a].op = "create" /\ Len(rest) = 1 THEN "createFile" ELSE "makeDirectory"
<1>1. P \in Paths /\ Len(P) \in Nat \ {0} /\ k \in 0 .. Len(P)
  BY WhereIs, PathIs
<1>2. CASE k = Len(P)
  <2>1. rest = <<>>
    BY <1>1, <1>2, TodoIs
  <2>2. Answer(a, result)
    BY <2>1 DEF Done, Answer
  <2> QED
    BY <1>2, <2>2, Answers DEF AloneAfter
<1>3. CASE k # Len(P)
  <2>1. k + 1 \in 0 .. Len(P) /\ k + 1 # 0 /\ k + 1 - 1 = k
    BY <1>1, <1>3
  <2>2. rest = Todo(P, k + 1) /\ rest # <<>> /\ Len(rest) = Len(P) - k
    <3>1. /\ Front(Todo(P, k)) = Todo(P, k + 1) /\ Todo(P, k + 1) # <<>>
          /\ Len(Todo(P, k + 1)) = Len(P) - k
      <4> HIDE DEF P
      <4> QED
        BY <1>1, <1>3, TodoIs
    <3>2. rest = Front(Todo(P, k))
      OBVIOUS
    <3> HIDE DEF P, rest
    <3> QED
      BY <3>1, <3>2
  <2>3. fsCall' = [fsCall EXCEPT ![a].todo = rest, ![a].pc = pc]
    BY <2>2 DEF Done
  <2>4. ASSUME ~fsRaced[a] PROVE Phase(fsCall[a].op, pc, P, k + 1, fsBefore[a], fsTree')
    <3>1. pc = "createFile" => fsCall[a].op = "create" /\ Len(rest) = 1
      OBVIOUS
    <3>2. pc # "createFile" => pc = "makeDirectory" /\ (fsCall[a].op = "create" => Len(rest) # 1)
      OBVIOUS
    <3> HIDE DEF P, rest, pc
    <3> DEFINE n == Len(P)
               m == Len(rest)
    <3>3. n \in Nat /\ k \in Nat /\ k <= n /\ k # n /\ m = n - k
      BY <1>1, <1>3, <2>2
    <3> HIDE DEF n, m
    <3>4. (m = 1 <=> k + 1 = n) /\ (m # 1 => k + 1 < n)
      BY <3>3
    <3>5. (Len(rest) = 1) <=> k + 1 = Len(P)
      BY <3>4 DEF n, m
    <3>6. Len(rest) # 1 => k + 1 < Len(P)
      BY <3>4 DEF n, m
    <3> QED
      BY <1>3, <2>1, <2>4, <3>1, <3>2, <3>5, <3>6 DEF Phase, P
  <2>5. pc # "idle"
    OBVIOUS
  <2> HIDE DEF pc, rest
  <2> QED
    BY <2>1, <2>2, <2>3, <2>4, <2>5, GoesTo DEF AloneAfter
<1> QED
  BY <1>2, <1>3

LEMMA MissingAlone ==
  ASSUME AloneInv, FsInv', NEW a \in Actors, Missing(a) PROVE AloneAfter
<1> DEFINE P == fsCall[a].path
<1>1. /\ fsCall[a].pc = "missing" /\ Quiet /\ fsTree' = fsTree /\ Whole(fsTree)
      /\ Whole(fsBefore[a]) /\ P \in Paths
  BY WhereIs DEF Missing, Quiet
<1>2. PICK k \in 0 .. Len(P) :
        /\ fsCall[a].todo = Todo(P, k)
        /\ ~fsRaced[a] => Phase(fsCall[a].op, "missing", P, k, fsBefore[a], fsTree)
  BY <1>1, WhereIs
<1>3. Last(fsCall[a].todo) = Pre(P, k)
  BY <1>1, <1>2, TodoIs
<1>4. Was(fsTree, Pre(P, k)) \in FileKinds /\ (Exist(Pre(P, k)) <=> Was(fsTree, Pre(P, k)) # "none")
  BY <1>1, AttributesAre
<1>5. Len(P) \in Nat \ {0} /\ Pre(P, Len(P)) = P /\ Pre(P, 0) = Drive
  BY <1>1, PathIs
<1>6. ~fsRaced[a] => /\ fsCall[a].op \in {"create", "make"} /\ fsTree = fsBefore[a]
                     /\ NoneFrom(fsBefore[a], P, k + 1)
                     /\ fsCall[a].op = "create" => k < Len(P)
                     /\ Was(fsBefore[a], Pre(P, k)) # "file"
  BY <1>2 DEF Phase
<1> HIDE DEF P
<1>7. CASE Exist(Pre(P, k))
  <2>1. Done(a, "false")
    BY <1>3, <1>7 DEF Missing
  <2>2. ASSUME ~fsRaced[a] PROVE Was(fsBefore[a], Pre(P, k)) = "directory"
    BY <1>4, <1>6, <1>7, <2>2 DEF FileKinds
  <2>3. ASSUME ~fsRaced[a], k = Len(P) PROVE Answered(a, "false", fsTree')
    BY <1>1, <1>5, <1>6, <2>2, <2>3 DEF Answered, Alone, P
  <2>4. ASSUME ~fsRaced[a]
        PROVE  /\ fsTree' = MadeTo(fsBefore[a], P, k + 1)
               /\ \A i \in 1 .. k : Was(fsBefore[a], Pre(P, i)) # "file"
    <3>1. /\ MadeTo(fsBefore[a], P, k + 1) = fsBefore[a]
          /\ \A i \in 1 .. k : Was(fsBefore[a], Pre(P, i)) = "directory"
      BY <1>1, <2>2, <2>4, NothingMade
    <3> QED
      BY <1>1, <1>6, <2>4, <3>1
  <2> QED
    BY <1>1, <1>2, <1>6, <2>1, <2>3, <2>4, DoneAlone DEF P
<1>8. CASE ~ Exist(Pre(P, k))
  <2> DEFINE todo == Append(fsCall[a].todo, parent(Last(fsCall[a].todo)))
             j == k - 1
  <2>1. fsCall' = [fsCall EXCEPT ![a].todo = todo, ![a].pc = "isThere"]
    BY <1>3, <1>8 DEF Missing
  <2>2. Was(fsTree, Pre(P, k)) = "none" /\ k # 0
    BY <1>4, <1>5, <1>8 DEF Was
  <2>3. j \in 0 .. Len(P) /\ j < Len(P) /\ j + 1 = k
    BY <1>5, <2>2
  <2>4. todo = Todo(P, j)
    BY <1>1, <1>2, <1>3, <2>2, TodoIs
  <2>5. ASSUME ~fsRaced[a] PROVE Phase(fsCall[a].op, "isThere", P, j, fsBefore[a], fsTree)
    <3>1. NoneFrom(fsBefore[a], P, k)
      <4> SUFFICES ASSUME NEW i \in k .. Len(P) PROVE Was(fsBefore[a], Pre(P, i)) = "none"
        BY DEF NoneFrom
      <4>1. CASE i = k
        BY <1>6, <2>2, <2>5, <4>1
      <4>2. CASE i \in k + 1 .. Len(P)
        BY <1>6, <2>5, <4>2 DEF NoneFrom
      <4> QED
        BY <1>5, <4>1, <4>2
    <3> HIDE DEF j
    <3> QED
      BY <1>6, <2>3, <2>5, <3>1 DEF Phase
  <2> HIDE DEF todo, j
  <2> QED
    BY <1>1, <2>1, <2>3, <2>4, <2>5, GoesTo DEF AloneAfter, P
<1> QED
  BY <1>7, <1>8

LEMMA MakeDirectoryAlone ==
  ASSUME AloneInv, FsInv', NEW a \in Actors, MakeDirectory(a) PROVE AloneAfter
<1> DEFINE P == fsCall[a].path
<1>1. fsCall[a].pc = "makeDirectory" /\ Whole(fsTree) /\ Whole(fsBefore[a]) /\ P \in Paths
  BY WhereIs DEF MakeDirectory
<1>2. PICK k \in 0 .. Len(P) :
        /\ fsCall[a].todo = Todo(P, k)
        /\ ~fsRaced[a] => Phase(fsCall[a].op, "makeDirectory", P, k, fsBefore[a], fsTree)
  BY <1>1, WhereIs
<1>3. Last(fsCall[a].todo) = Pre(P, k)
  BY <1>1, <1>2, TodoIs
<1>4. /\ Kind(Pre(P, k)) = Was(fsTree, Pre(P, k))
      /\ Reachable(Pre(P, k)) <=> \A i \in 0 .. k - 1 : Was(fsTree, Pre(P, i)) = "directory"
  BY <1>1, AttributesAre
<1>5. Len(P) \in Nat \ {0} /\ Pre(P, Len(P)) = P /\ Pre(P, 0) = Drive
  BY <1>1, PathIs
<1>6. ~fsRaced[a] => /\ fsCall[a].op \in {"create", "make"} /\ k \in 1 .. Len(P)
                     /\ fsCall[a].op = "create" => k < Len(P)
                     /\ fsTree = MadeTo(fsBefore[a], P, k) /\ NoneFrom(fsBefore[a], P, k)
                     /\ \A i \in 1 .. k - 1 : Was(fsBefore[a], Pre(P, i)) # "file"
  BY <1>2, <1>5 DEF Phase
<1> HIDE DEF P
<1>7. ASSUME ~fsRaced[a]
      PROVE  /\ Was(fsBefore[a], P) = "none" /\ ~ Blocked(fsBefore[a], P)
             /\ Reachable(Pre(P, k)) /\ Kind(Pre(P, k)) = "none"
             /\ k # Len(P) => [fsTree EXCEPT ![Pre(P, k)] = "directory"] = MadeTo(fsBefore[a], P, k + 1)
             /\ k = Len(P) => \A kind : [fsTree EXCEPT ![P] = kind] = MadeOf(fsBefore[a], P, kind)
  <2>1. /\ Was(fsBefore[a], P) = "none" /\ ~ Blocked(fsBefore[a], P)
        /\ \A i \in 0 .. k - 1 : Was(fsTree, Pre(P, i)) = "directory"
        /\ Was(fsTree, Pre(P, k)) = "none"
        /\ k # Len(P) => [fsTree EXCEPT ![Pre(P, k)] = "directory"] = MadeTo(fsBefore[a], P, k + 1)
        /\ k = Len(P) => \A kind : [fsTree EXCEPT ![P] = kind] = MadeOf(fsBefore[a], P, kind)
    BY <1>1, <1>6, <1>7, MadeIs
  <2> QED
    BY <1>4, <2>1
<1>8. CASE Reachable(Pre(P, k)) /\ Kind(Pre(P, k)) = "none"
  <2> DEFINE q == Pre(P, k)
  <2>1. Done(a, "true") /\ Change(a, q, "directory")
    BY <1>3, <1>8 DEF MakeDirectory
  <2>2. fsTree' = [fsTree EXCEPT ![q] = "directory"]
    BY <2>1 DEF Change
  <2>3. k # 0
    BY <1>4, <1>5, <1>8 DEF Was
  <2>4. q \in Paths /\ q # Drive /\ Len(q) = k /\ \A i \in 0 .. k : Pre(q, i) = Pre(P, i)
    BY <1>1, <2>3, PathIs
  <2>5. Whole(fsTree')
    <3>1. fsTree[q] = "none"
      BY <1>4, <1>8, <2>4 DEF Was
    <3>2. \A i \in 1 .. k - 1 : fsTree[Pre(P, i)] = "directory"
      <4> TAKE i \in 1 .. k - 1
      <4>1. i \in 0 .. k - 1 /\ i \in 0 .. Len(P) /\ i # 0
        BY <1>5
      <4>2. Pre(P, i) # Drive
        BY <1>1, <4>1, PathIs
      <4> QED
        BY <1>4, <1>8, <4>1, <4>2 DEF Was
    <3>3. \A i \in 1 .. Len(q) - 1 : fsTree[Pre(q, i)] = "directory"
      <4> TAKE i \in 1 .. Len(q) - 1
      <4>1. i \in 1 .. k - 1 /\ i \in 0 .. k
        BY <2>4
      <4> HIDE DEF q
      <4> QED
        BY <2>4, <3>2, <4>1
    <3>4. "directory" \in FileKinds
      BY DEF FileKinds
    <3> HIDE DEF q
    <3> QED
      BY <1>1, <2>2, <2>4, <3>1, <3>3, <3>4, WholeMade
  <2>6. ASSUME ~fsRaced[a], k = Len(P) PROVE Answered(a, "true", fsTree')
    <3>1. fsCall[a].op = "make" /\ fsTree' = MadeOf(fsBefore[a], P, "directory")
      <4>1. fsCall[a].op = "make"
        BY <1>5, <1>6, <2>6
      <4> QED
        BY <1>5, <1>7, <2>2, <2>6, <4>1
    <3> QED
      BY <1>7, <2>6, <3>1 DEF Answered, Alone, P
  <2>7. ASSUME ~fsRaced[a], k # Len(P)
        PROVE  /\ fsTree' = MadeTo(fsBefore[a], P, k + 1) /\ NoneFrom(fsBefore[a], P, k + 1)
               /\ \A i \in 1 .. k : Was(fsBefore[a], Pre(P, i)) # "file"
    <3>1. NoneFrom(fsBefore[a], P, k + 1) /\ Was(fsBefore[a], Pre(P, k)) = "none"
      <4>1. \A i \in k .. Len(P) : Was(fsBefore[a], Pre(P, i)) = "none"
        BY <1>6, <2>7 DEF NoneFrom
      <4>2. k \in k .. Len(P) /\ \A i \in k + 1 .. Len(P) : i \in k .. Len(P)
        BY <1>5
      <4> QED
        BY <4>1, <4>2 DEF NoneFrom
    <3>2. \A i \in 1 .. k : i = k \/ i \in 1 .. k - 1
      BY <1>5
    <3> QED
      BY <1>6, <1>7, <2>2, <2>7, <3>1, <3>2
  <2> HIDE DEF q
  <2> QED
    BY <1>1, <1>2, <1>6, <2>1, <2>5, <2>6, <2>7, DoneAlone DEF P
<1>9. CASE ~ (Reachable(Pre(P, k)) /\ Kind(Pre(P, k)) = "none")
  <2>1. Answer(a, "throw") /\ Quiet /\ fsTree' = fsTree
    BY <1>3, <1>9 DEF MakeDirectory, Quiet
  <2>2. fsRaced[a]
    BY <1>7, <1>9
  <2> QED
    BY <1>1, <2>1, <2>2, Answers DEF AloneAfter
<1> QED
  BY <1>8, <1>9

LEMMA AloneInitially == FsInit => AloneInv
<1> SUFFICES ASSUME FsInit PROVE AloneInv
  OBVIOUS
<1>1. Whole(fsTree)
  BY DEF FsInit, Whole, FileKinds
<1>2. ASSUME NEW a \in Actors
      PROVE  Whole(fsBefore[a]) /\ Underway(fsCall[a], fsBefore[a], fsRaced[a], fsTree)
  BY <1>1 DEF FsInit, Underway, Idle
<1>3. DOMAIN fsBefore = Actors /\ DOMAIN fsRaced = Actors
  BY DEF FsInit
<1> QED
  BY <1>1, <1>2, <1>3, FsInitially DEF AloneInv

LEMMA AloneInductive == AloneInv /\ [FsNext]_fsVars => AloneInv' /\ [\A a \in Actors : AsAlone(a)]_fsVars
<1> SUFFICES ASSUME AloneInv, [FsNext]_fsVars PROVE AloneInv' /\ [\A a \in Actors : AsAlone(a)]_fsVars
  OBVIOUS
<1>1. CASE UNCHANGED fsVars
  <2>1. FsInv'
    BY <1>1, FsInductive DEF AloneInv
  <2> QED
    BY <1>1, <2>1 DEF fsVars, AloneInv
<1>2. CASE FsNext
  <2>1. FsInv'
    BY <1>2, FsInductive DEF AloneInv
  <2>2. PICK a \in Actors :
          \/ \E op \in FileSteps, path \in Paths : Begin(a, op, path)
          \/ IsDirectory(a) \/ Exists(a) \/ CreateFile(a)
          \/ IsThere(a) \/ IsFile(a) \/ Missing(a) \/ MakeDirectory(a)
          \/ Attributes(a) \/ Delete(a)
    BY <1>2 DEF FsNext, FileSteps
  <2>3. AloneAfter
    BY <2>1, <2>2, BeginAlone, IsDirectoryAlone, ExistsAlone, CreateFileAlone, IsThereAlone,
       IsFileAlone, MissingAlone, MakeDirectoryAlone, AttributesAlone, DeleteAlone
  <2> QED
    BY <2>3 DEF AloneAfter
<1> QED
  BY <1>1, <1>2

\* Of every reachable state: what is on disk is below directories, and a call
\* that nobody has disturbed is where its search or its making has come to.
THEOREM FilesInvariance == FsSpec => []AloneInv
  BY AloneInitially, AloneInductive, PTL DEF FsSpec

(* A call that no change of another actor came into does what its name says:   *)
(* create(), make() and remove() answer and leave the tree as one step would   *)
(* (Filesystem.cpp).                                                           *)
THEOREM CallsCorrect == FsSpec => CallsAlone
<1>1. [\A a \in Actors : AsAlone(a)]_fsVars <=>
      [\A a \in Actors :
         fsCall[a].pc # "idle" /\ fsCall'[a].pc = "idle" /\ ~fsRaced'[a]
         => LET alone == Alone(fsCall[a].op, fsBefore[a], fsCall[a].path)
            IN fsCall'[a].result = alone.result /\ fsTree' = alone.tree]_fsVars
  BY DEF AsAlone, Answered
<1> QED
  BY <1>1, AloneInitially, AloneInductive, PTL DEF FsSpec, CallsAlone

-----------------------------------------------------------------------------
(* Objects of JSON.                                                            *)

\* A set of nodes that holds the members of what it holds.
ClosedUnder(heap, S) == \A m \in S \cap DOMAIN heap : Children(heap, m) \subseteq S

\* What members are is on the heap.
Kept(heap) == /\ IsFiniteSet(DOMAIN heap)
              /\ \A m \in DOMAIN heap : Children(heap, m) \subseteq DOMAIN heap

\* A tree is the least closed set with its node: after as many levels as there are
\* nodes nothing is added.
LEMMA TreeIs ==
  ASSUME NEW H, Kept(H), NEW n \in DOMAIN H
  PROVE  /\ n \in Tree(H, n) /\ Tree(H, n) \subseteq DOMAIN H /\ ClosedUnder(H, Tree(H, n))
         /\ \A S : n \in S /\ ClosedUnder(H, S) => Tree(H, n) \subseteq S
<1> DEFINE D == DOMAIN H
           N == Cardinality(D)
           More(X) == X \cup UNION {Children(H, m) : m \in X \intersect DOMAIN H}
           step == [k \in 1 .. N |-> [X \in SUBSET D |-> More(X)]]
           Is(g) == g = [d \in 0 .. N |-> IF d = 0 THEN {n} ELSE More(g[d - 1])]
           level == CHOOSE g : Is(g)
<1>1. IsFiniteSet(D) /\ N \in Nat
  BY FS_CardinalityType DEF Kept
<1>2. \A X \in SUBSET D : More(X) \in SUBSET D
  BY DEF Kept
<1>3. step \in [1 .. N -> [SUBSET D -> SUBSET D]] /\ {n} \in SUBSET D
  BY <1>2
<1> HIDE DEF step
<1>4. PICK g \in [0 .. N -> SUBSET D] : Recurs(g, {n}, step, N)
  <2> HIDE DEF D, N
  <2> QED
    BY <1>1, <1>3, RecursionExists
<1>5. Is(g)
  <2>1. g[0] = {n}
    BY <1>4 DEF Recurs
  <2>2. \A k \in 1 .. N : g[k] = More(g[k - 1])
    <3> TAKE k \in 1 .. N
    <3>1. g[k - 1] \in SUBSET D /\ g[k] = step[k][g[k - 1]]
      BY <1>1, <1>4 DEF Recurs
    <3> HIDE DEF D, N, More
    <3> QED
      BY <3>1 DEF step
  <2>3. \A d \in 0 .. N : g[d] = IF d = 0 THEN {n} ELSE More(g[d - 1])
    <3> HIDE DEF N, More
    <3> QED
      BY <1>1, <2>1, <2>2
  <2> HIDE DEF N, More
  <2> QED
    BY <1>4, <2>3
<1>6. Is(level)
  BY <1>5
<1>7. Tree(H, n) = level[N]
  BY DEF Tree
<1> HIDE DEF level, D, More
<1>8. level[0] = {n} /\ \A d \in 0 .. N - 1 : level[d + 1] = More(level[d])
  <2> HIDE DEF N
  <2>1. \A d \in 0 .. N : level[d] = IF d = 0 THEN {n} ELSE More(level[d - 1])
    BY <1>6
  <2>2. \A d \in 0 .. N - 1 : d + 1 \in 0 .. N /\ d + 1 # 0 /\ d + 1 - 1 = d
    BY <1>1
  <2>3. 0 \in 0 .. N
    BY <1>1
  <2> QED
    BY <2>1, <2>2, <2>3
<1> HIDE DEF N
<1>9. \A d \in 0 .. N : d \in {k \in 0 .. N : level[k] \in SUBSET D /\ n \in level[k]}
  <2> DEFINE T == {k \in 0 .. N : level[k] \in SUBSET D /\ n \in level[k]}
  <2>1. 0 \in T
    BY <1>1, <1>3, <1>8
  <2>2. ASSUME NEW k \in 0 .. N - 1, k \in T PROVE k + 1 \in T
    <3>1. k + 1 \in 0 .. N /\ level[k + 1] = More(level[k]) /\ level[k] \in SUBSET D /\ n \in level[k]
      BY <1>1, <1>8, <2>2
    <3>2. n \in More(level[k])
      BY <3>1 DEF More
    <3> QED
      BY <1>2, <3>1, <3>2
  <2> HIDE DEF T
  <2> QED
    BY <1>1, <2>1, <2>2, UpTo DEF T
<1>10. \A d \in 0 .. N : d \in {k \in 0 .. N : More(level[k]) = level[k] \/ Cardinality(level[k]) >= k + 1}
  <2> DEFINE T == {k \in 0 .. N : More(level[k]) = level[k] \/ Cardinality(level[k]) >= k + 1}
  <2>1. 0 \in T
    <3>1. Cardinality(level[0]) = 1
      BY <1>8, FS_Singleton
    <3>2. 0 \in 0 .. N /\ Cardinality(level[0]) >= 0 + 1
      BY <1>1, <3>1
    <3> QED
      BY <3>2
  <2>2. ASSUME NEW k \in 0 .. N - 1, k \in T PROVE k + 1 \in T
    <3> DEFINE X == level[k]
               Y == level[k + 1]
    <3>1. k + 1 \in 0 .. N /\ k \in 0 .. N /\ Y = More(X)
      BY <1>1, <1>8
    <3>2. X \in SUBSET D /\ Y \in SUBSET D /\ X \subseteq Y
      <4>1. X \in SUBSET D /\ Y \in SUBSET D
        BY <1>9, <3>1
      <4> QED
        BY <3>1, <4>1 DEF More
    <3>3. CASE Y = X
      <4>1. More(Y) = Y
        BY <3>1, <3>3
      <4> QED
        BY <3>1, <4>1
    <3>4. CASE Y # X
      <4>1. Cardinality(X) >= k + 1
        BY <2>2, <3>1, <3>4
      <4>2. IsFiniteSet(Y) /\ IsFiniteSet(X)
        BY <1>1, <3>2, FS_Subset
      <4>3. Cardinality(X) < Cardinality(Y) /\ Cardinality(X) \in Nat /\ Cardinality(Y) \in Nat
        BY <3>2, <3>4, <4>2, FS_Subset, FS_CardinalityType
      <4>4. Cardinality(Y) >= k + 1 + 1
        <5> HIDE DEF X, Y
        <5> QED
          BY <1>1, <4>1, <4>3
      <4> QED
        BY <3>1, <4>4
    <3> QED
      BY <3>3, <3>4
  <2> HIDE DEF T
  <2> QED
    BY <1>1, <2>1, <2>2, UpTo DEF T
<1>11. N \in 0 .. N
  BY <1>1
<1>12. More(level[N]) = level[N]
  <2>1. level[N] \subseteq D
    BY <1>9, <1>11
  <2>2. Cardinality(level[N]) <= N /\ Cardinality(level[N]) \in Nat
    BY <1>1, <2>1, FS_Subset, FS_CardinalityType DEF N
  <2>3. ~ (Cardinality(level[N]) >= N + 1)
    BY <1>1, <2>2
  <2> QED
    BY <1>10, <1>11, <2>3
<1>13. ClosedUnder(H, level[N])
  BY <1>12 DEF More, ClosedUnder
<1>14. ASSUME NEW S, n \in S, ClosedUnder(H, S) PROVE level[N] \subseteq S
  <2> DEFINE T == {k \in 0 .. N : level[k] \subseteq S}
  <2>1. 0 \in T
    BY <1>1, <1>8, <1>14
  <2>2. ASSUME NEW k \in 0 .. N - 1, k \in T PROVE k + 1 \in T
    <3>1. k + 1 \in 0 .. N /\ level[k + 1] = More(level[k]) /\ level[k] \subseteq S
      BY <1>1, <1>8, <2>2
    <3>2. More(level[k]) \subseteq S
      BY <1>14, <3>1 DEF More, ClosedUnder
    <3> QED
      BY <3>1, <3>2
  <2> HIDE DEF T
  <2>3. \A k \in 0 .. N : k \in T
    BY <1>1, <2>1, <2>2, UpTo
  <2> QED
    BY <1>11, <2>3 DEF T
<1> QED
  BY <1>7, <1>9, <1>11, <1>13, <1>14 DEF D

\* The places of a heap: the i-th entry of m holds the object n.
Holds(heap, m, i, n) ==
  /\ m \in DOMAIN heap /\ HasObjects(heap[m].type)
  /\ i \in DOMAIN heap[m].content /\ heap[m].content[i].value = n

JtTypes == {"UNKNOWN", "COMPONENT", "ARRAY", "STRING", "INTEGER"}
JtKeys == {step.key : step \in JtSteps} \cup {"none"}
JtEntries == [key : JtKeys, value : Nat]
JtObjects == [type : JtTypes, content : Seq(JtEntries), readonly : BOOLEAN]
JtTyped(heap) ==
  /\ IsFiniteSet(DOMAIN heap) /\ DOMAIN heap \subseteq Nat \ {0} /\ JtRoots \subseteq DOMAIN heap
  /\ heap \in [DOMAIN heap -> JtObjects]
  /\ \A n \in DOMAIN heap : heap[n].type = "UNKNOWN" => heap[n].content = <<>>

\* What is held is no variable and is held in one place.
JtOwned(heap) ==
  \A m, i, n : Holds(heap, m, i, n) =>
    n \in DOMAIN heap \ JtRoots /\ \A k, j : Holds(heap, k, j, n) => k = m /\ j = i
Forest(heap) == JtTyped(heap) /\ JtOwned(heap)

\* What the variables reach.
Reached(heap) == UNION {Tree(heap, r) : r \in JtRoots}

LEMMA ChildrenAre ==
  ASSUME NEW H, NEW m \in DOMAIN H, NEW n
  PROVE  n \in Children(H, m) <=> \E i : Holds(H, m, i, n)
  BY DEF Children, Holds

LEMMA ForestKept ==
  ASSUME NEW H, Forest(H)
  PROVE  Kept(H)
<1>1. \A m \in DOMAIN H : Children(H, m) \subseteq DOMAIN H
  BY ChildrenAre DEF Forest, JtOwned
<1> QED
  BY <1>1 DEF Kept, Forest, JtTyped

\* Trees of two heaps.
LEMMA TreeSame ==
  ASSUME NEW H, Kept(H), NEW G, Kept(G), NEW n \in DOMAIN H,
         \A m \in Tree(H, n) : m \in DOMAIN G /\ Children(G, m) = Children(H, m)
  PROVE  Tree(G, n) = Tree(H, n)
<1>1. /\ n \in Tree(H, n) /\ Tree(H, n) \subseteq DOMAIN H /\ ClosedUnder(H, Tree(H, n))
      /\ \A S : n \in S /\ ClosedUnder(H, S) => Tree(H, n) \subseteq S
  BY TreeIs
<1>2. n \in DOMAIN G
  BY <1>1
<1>3. /\ n \in Tree(G, n) /\ Tree(G, n) \subseteq DOMAIN G /\ ClosedUnder(G, Tree(G, n))
      /\ \A S : n \in S /\ ClosedUnder(G, S) => Tree(G, n) \subseteq S
  BY <1>2, TreeIs
<1>4. Tree(G, n) \subseteq Tree(H, n)
  <2>1. ClosedUnder(G, Tree(H, n))
    BY <1>1 DEF ClosedUnder
  <2> QED
    BY <1>1, <1>3, <2>1
<1>5. Tree(H, n) \subseteq Tree(G, n)
  <2>1. ClosedUnder(H, Tree(G, n))
    <3> SUFFICES ASSUME NEW m \in Tree(G, n) PROVE Children(H, m) \subseteq Tree(G, n)
      BY DEF ClosedUnder
    <3>1. m \in Tree(H, n) /\ m \in DOMAIN G
      BY <1>3, <1>4
    <3>2. Children(G, m) = Children(H, m)
      BY <3>1
    <3> QED
      BY <1>3, <3>1, <3>2 DEF ClosedUnder
  <2> QED
    BY <1>1, <1>3, <2>1
<1> QED
  BY <1>4, <1>5

\* What is in a tree is its top, or held in it.
LEMMA HolderIn ==
  ASSUME NEW H, Forest(H), NEW n \in DOMAIN H, NEW x \in Tree(H, n), x # n
  PROVE  \E p \in Tree(H, n) : \E i : Holds(H, p, i, x)
<1> SUFFICES ASSUME ~ \E p \in Tree(H, n) : \E i : Holds(H, p, i, x) PROVE FALSE
  OBVIOUS
<1> DEFINE S == Tree(H, n) \ {x}
<1>1. /\ n \in Tree(H, n) /\ ClosedUnder(H, Tree(H, n))
      /\ \A T : n \in T /\ ClosedUnder(H, T) => Tree(H, n) \subseteq T
  BY ForestKept, TreeIs
<1>2. ClosedUnder(H, S)
  <2> SUFFICES ASSUME NEW m \in S, m \in DOMAIN H, NEW c \in Children(H, m) PROVE c \in S
    BY DEF ClosedUnder
  <2>1. c \in Tree(H, n)
    BY <1>1 DEF ClosedUnder
  <2>2. PICK i : Holds(H, m, i, c)
    BY ChildrenAre
  <2> QED
    BY <2>1, <2>2
<1>3. n \in S
  BY <1>1
<1>4. Tree(H, n) \subseteq S
  BY <1>1, <1>2, <1>3, Zenon
<1> QED
  BY <1>4

\* What holds a member of a tree is in the tree.
LEMMA HolderOf ==
  ASSUME NEW H, Forest(H), NEW n \in DOMAIN H, NEW x \in Tree(H, n), x # n,
         NEW m, NEW i, Holds(H, m, i, x)
  PROVE  m \in Tree(H, n)
  BY HolderIn DEF Forest, JtOwned

LEMMA ReachedIs ==
  ASSUME NEW H, Forest(H)
  PROVE  /\ JtRoots \subseteq Reached(H) /\ Reached(H) \subseteq DOMAIN H /\ ClosedUnder(H, Reached(H))
         /\ \A S : JtRoots \subseteq S /\ ClosedUnder(H, S) => Reached(H) \subseteq S
<1>1. \A r \in JtRoots : r \in DOMAIN H
  BY DEF Forest, JtTyped
<1>2. \A r \in JtRoots :
        /\ r \in Tree(H, r) /\ Tree(H, r) \subseteq DOMAIN H /\ ClosedUnder(H, Tree(H, r))
        /\ \A S : r \in S /\ ClosedUnder(H, S) => Tree(H, r) \subseteq S
  BY <1>1, ForestKept, TreeIs
<1>3. JtRoots \subseteq Reached(H) /\ Reached(H) \subseteq DOMAIN H
  BY <1>2 DEF Reached
<1>4. ClosedUnder(H, Reached(H))
  BY <1>2 DEF Reached, ClosedUnder
<1>5. ASSUME NEW S, JtRoots \subseteq S, ClosedUnder(H, S) PROVE Reached(H) \subseteq S
  BY <1>2, <1>5 DEF Reached
<1> QED
  BY <1>3, <1>4, <1>5

\* Variables do not share members.
LEMMA TreesApart ==
  ASSUME NEW H, Forest(H), NEW r \in JtRoots, NEW q \in JtRoots, r # q
  PROVE  Tree(H, r) \cap Tree(H, q) = {}
<1> DEFINE S == Tree(H, q) \ Tree(H, r)
<1>1. r \in DOMAIN H /\ q \in DOMAIN H
  BY DEF Forest, JtTyped
<1>2. /\ q \in Tree(H, q) /\ ClosedUnder(H, Tree(H, q))
      /\ \A T : q \in T /\ ClosedUnder(H, T) => Tree(H, q) \subseteq T
  BY <1>1, ForestKept, TreeIs
<1>3. q \notin Tree(H, r)
  <2> SUFFICES ASSUME q \in Tree(H, r) PROVE FALSE
    OBVIOUS
  <2>1. PICK p, i : Holds(H, p, i, q)
    BY <1>1, HolderIn
  <2> QED
    BY <2>1 DEF Forest, JtOwned
<1>4. ClosedUnder(H, S)
  <2> SUFFICES ASSUME NEW m \in S, m \in DOMAIN H, NEW c \in Children(H, m) PROVE c \in S
    BY DEF ClosedUnder
  <2>1. c \in Tree(H, q)
    BY <1>2 DEF ClosedUnder
  <2>2. PICK i : Holds(H, m, i, c)
    BY ChildrenAre
  <2>3. c # r
    BY <2>2 DEF Forest, JtOwned
  <2>4. c \notin Tree(H, r)
    BY <1>1, <2>2, <2>3, HolderOf
  <2> QED
    BY <2>1, <2>4
<1>5. q \in S
  BY <1>2, <1>3
<1>6. Tree(H, q) \subseteq S
  BY <1>2, <1>4, <1>5, Zenon
<1> QED
  BY <1>6

\* What the variables reach is not in a circle.
LEMMA NoCircle ==
  ASSUME NEW H, Forest(H), NEW n \in Reached(H), NEW m \in Tree(H, n), NEW i, Holds(H, m, i, n)
  PROVE  FALSE
<1> DEFINE S == Reached(H) \ Tree(H, n)
<1>1. /\ JtRoots \subseteq Reached(H) /\ Reached(H) \subseteq DOMAIN H /\ ClosedUnder(H, Reached(H))
      /\ \A T : JtRoots \subseteq T /\ ClosedUnder(H, T) => Reached(H) \subseteq T
  BY ReachedIs
<1>2. n \in DOMAIN H /\ n \in Tree(H, n)
  BY <1>1, ForestKept, TreeIs
<1>3. \A x \in Tree(H, n) : \E p \in Tree(H, n) : \E j : Holds(H, p, j, x)
  BY <1>2, HolderIn
<1>4. JtRoots \subseteq S
  BY <1>1, <1>3 DEF Forest, JtOwned
<1>5. ClosedUnder(H, S)
  <2> SUFFICES ASSUME NEW k \in S, k \in DOMAIN H, NEW c \in Children(H, k), c \in Tree(H, n) PROVE FALSE
    BY <1>1 DEF ClosedUnder
  <2>1. PICK j : Holds(H, k, j, c)
    BY ChildrenAre
  <2>2. k \in Tree(H, n)
    BY <1>3, <2>1 DEF Forest, JtOwned
  <2> QED
    BY <2>2
<1>6. Reached(H) \subseteq S
  BY <1>1, <1>4, <1>5, Zenon
<1> QED
  BY <1>2, <1>6

\* The same members in the same places.
LEMMA SameHeld ==
  ASSUME NEW H, Forest(H), NEW G, JtTyped(G), DOMAIN G = DOMAIN H,
         \A m, i, n : Holds(G, m, i, n) <=> Holds(H, m, i, n)
  PROVE  /\ Forest(G) /\ Reached(G) = Reached(H)
         /\ \A n \in DOMAIN H : Tree(G, n) = Tree(H, n)
<1>1. Forest(G)
  BY DEF Forest, JtOwned
<1>2. \A m \in DOMAIN H : Children(G, m) = Children(H, m)
  BY ChildrenAre
<1>3. \A n \in DOMAIN H : Tree(G, n) = Tree(H, n)
  <2> TAKE n \in DOMAIN H
  <2>1. Tree(H, n) \subseteq DOMAIN H
    BY ForestKept, TreeIs
  <2> QED
    BY <1>1, <1>2, <2>1, ForestKept, TreeSame
<1>4. Reached(G) = Reached(H)
  BY <1>3 DEF Reached, Forest, JtTyped
<1> QED
  BY <1>1, <1>3, <1>4

\* An object that holds some new ones more.
HoldsMore(H, G, n, N) ==
  /\ JtTyped(G) /\ DOMAIN G = DOMAIN H \cup N /\ N \cap DOMAIN H = {} /\ n \in DOMAIN H
  /\ \A m, i, x : Holds(H, m, i, x) => Holds(G, m, i, x)
  /\ \A m, i, x : Holds(G, m, i, x) => Holds(H, m, i, x) \/ (m = n /\ x \in N)
  /\ \A x \in N : \E i : Holds(G, n, i, x) /\ \A j : Holds(G, n, j, x) => j = i

LEMMA MoreHeld ==
  ASSUME NEW H, Forest(H), NEW G, NEW n, NEW N, HoldsMore(H, G, n, N)
  PROVE  /\ Forest(G) /\ Reached(H) \subseteq Reached(G) /\ (n \in Reached(H) => N \subseteq Reached(G))
         /\ \A k \in DOMAIN H : /\ Tree(H, k) \subseteq Tree(G, k)
                                /\ n \in Tree(H, k) => N \subseteq Tree(G, k)
                                /\ n \notin Tree(H, k) => Tree(G, k) = Tree(H, k)
<1>0. /\ JtTyped(G) /\ DOMAIN G = DOMAIN H \cup N /\ N \cap DOMAIN H = {} /\ n \in DOMAIN H
      /\ \A m, i, x : Holds(H, m, i, x) => Holds(G, m, i, x)
      /\ \A m, i, x : Holds(G, m, i, x) => Holds(H, m, i, x) \/ (m = n /\ x \in N)
      /\ \A x \in N : \E i : Holds(G, n, i, x) /\ \A j : Holds(G, n, j, x) => j = i
  BY DEF HoldsMore
<1> USE <1>0
<1>1. Forest(G)
  <2>1. ASSUME NEW m, NEW i, NEW x, Holds(G, m, i, x)
        PROVE  x \in DOMAIN G \ JtRoots /\ \A k, j : Holds(G, k, j, x) => k = m /\ j = i
    <3>1. CASE x \in N
      <4>1. x \notin DOMAIN H
        BY <3>1
      <4>2. \A k, j : ~ Holds(H, k, j, x)
        BY <4>1 DEF Forest, JtOwned
      <4>3. JtRoots \subseteq DOMAIN H
        BY DEF Forest, JtTyped
      <4> QED
        BY <2>1, <3>1, <4>1, <4>2, <4>3
    <3>2. CASE x \notin N
      BY <2>1, <3>2 DEF Forest, JtOwned
    <3> QED
      BY <3>1, <3>2
  <2> QED
    BY <2>1 DEF Forest, JtOwned
<1>2. \A m \in DOMAIN H : Children(H, m) \subseteq Children(G, m)
  BY ChildrenAre
<1>3. ASSUME NEW k \in DOMAIN H
      PROVE  /\ Tree(H, k) \subseteq Tree(G, k)
             /\ n \in Tree(H, k) => N \subseteq Tree(G, k)
             /\ n \notin Tree(H, k) => Tree(G, k) = Tree(H, k)
  <2>1. /\ k \in Tree(H, k) /\ Tree(H, k) \subseteq DOMAIN H
        /\ \A S : k \in S /\ ClosedUnder(H, S) => Tree(H, k) \subseteq S
    BY ForestKept, TreeIs
  <2>2. k \in Tree(G, k) /\ ClosedUnder(G, Tree(G, k))
    BY <1>1, ForestKept, TreeIs
  <2>3. Tree(H, k) \subseteq Tree(G, k)
    <3>1. ClosedUnder(H, Tree(G, k))
      BY <1>2, <2>2 DEF ClosedUnder
    <3> QED
      BY <2>1, <2>2, <3>1
  <2>4. n \in Tree(H, k) => N \subseteq Tree(G, k)
    <3>1. N \subseteq Children(G, n)
      BY ChildrenAre
    <3> QED
      BY <2>2, <2>3, <3>1 DEF ClosedUnder
  <2>5. ASSUME n \notin Tree(H, k) PROVE Tree(G, k) = Tree(H, k)
    <3>1. \A m \in Tree(H, k) : m \in DOMAIN G /\ m # n
      BY <2>1, <2>5
    <3>2. \A m \in Tree(H, k) : Children(G, m) = Children(H, m)
      <4> TAKE m \in Tree(H, k)
      <4>1. \A x : (\E i : Holds(G, m, i, x)) <=> \E i : Holds(H, m, i, x)
        BY <3>1
      <4>2. m \in DOMAIN H /\ m \in DOMAIN G
        BY <2>1, <3>1
      <4> QED
        BY <4>1, <4>2, ChildrenAre
    <3> QED
      BY <1>1, <3>1, <3>2, ForestKept, TreeSame
  <2> QED
    BY <2>3, <2>4, <2>5
<1>4. JtRoots \subseteq DOMAIN H
  BY DEF Forest, JtTyped
<1> QED
  BY <1>1, <1>3, <1>4 DEF Reached

\* A change of an object's fields.
LEMMA ObjectChanges ==
  ASSUME NEW A, NEW B, NEW C, NEW o \in [type : A, content : B, readonly : C], NEW t \in A, NEW c \in B
  PROVE  /\ [o EXCEPT !.type = t, !.content = c] \in [type : A, content : B, readonly : C]
         /\ [o EXCEPT !.type = t, !.content = c].type = t
         /\ [o EXCEPT !.type = t, !.content = c].content = c
         /\ [o EXCEPT !.type = t, !.content = c].readonly = o.readonly
  OBVIOUS

\* What is left when the members of an object have gone.
CleanedTo(H, n, G) ==
  /\ DOMAIN G = DOMAIN H \ (Tree(H, n) \ {n}) /\ n \in DOMAIN G
  /\ G[n].type = "UNKNOWN" /\ G[n].content = <<>> /\ G[n].readonly = H[n].readonly
  /\ \A m \in DOMAIN G \ {n} : G[m] = H[m]
  /\ \A m, i, x : Holds(G, m, i, x) <=> Holds(H, m, i, x) /\ m \in DOMAIN G /\ m # n
  /\ Forest(G)

LEMMA CleanedIs ==
  ASSUME NEW H, Forest(H), NEW n \in DOMAIN H, NEW G, G = cleanup(H, n)
  PROVE  CleanedTo(H, n, G)
<1> DEFINE T == Tree(H, n)
           empty == [H[n] EXCEPT !.type = "UNKNOWN", !.content = <<>>]
<1>1. n \in T /\ T \subseteq DOMAIN H /\ ClosedUnder(H, T)
  BY ForestKept, TreeIs
<1>2. G = [m \in (DOMAIN H) \ (T \ {n}) |-> IF m = n THEN empty ELSE H[m]]
  BY DEF cleanup, Below
<1>3. H[n] \in JtObjects
  BY DEF Forest, JtTyped
<1>4. empty \in JtObjects /\ empty.type = "UNKNOWN" /\ empty.content = <<>> /\ empty.readonly = H[n].readonly
  <2>1. "UNKNOWN" \in JtTypes /\ <<>> \in Seq(JtEntries)
    BY DEF JtTypes
  <2> QED
    BY <1>3, <2>1, ObjectChanges, Zenon DEF JtObjects
<1> HIDE DEF empty, T
<1>5. /\ DOMAIN G = DOMAIN H \ (T \ {n}) /\ n \in DOMAIN G
      /\ G[n] = empty /\ \A m \in DOMAIN G \ {n} : G[m] = H[m]
  BY <1>1, <1>2
<1>6. \A m, i, x : Holds(G, m, i, x) <=> Holds(H, m, i, x) /\ m \in DOMAIN G /\ m # n
  <2>1. ~ HasObjects(G[n].type)
    BY <1>4, <1>5 DEF HasObjects
  <2> QED
    BY <1>5, <2>1 DEF Holds
<1>7. JtRoots \subseteq DOMAIN G
  <2> SUFFICES ASSUME NEW r \in JtRoots, r \in T \ {n} PROVE FALSE
    BY <1>5 DEF Forest, JtTyped
  <2>1. PICK p, i : Holds(H, p, i, r)
    BY HolderIn DEF T
  <2> QED
    BY <2>1 DEF Forest, JtOwned
<1>8. JtTyped(G)
  <2>1. IsFiniteSet(DOMAIN G)
    BY <1>5, FS_Subset DEF Forest, JtTyped
  <2>2. G \in [DOMAIN G -> JtObjects]
    <3>1. \A m \in DOMAIN G : G[m] \in JtObjects
      BY <1>4, <1>5 DEF Forest, JtTyped
    <3>2. G = [m \in DOMAIN G |-> G[m]]
      BY <1>2
    <3> QED
      BY <3>1, <3>2
  <2>3. \A m \in DOMAIN G : G[m].type = "UNKNOWN" => G[m].content = <<>>
    BY <1>4, <1>5 DEF Forest, JtTyped
  <2>4. DOMAIN G \subseteq Nat \ {0}
    BY <1>5 DEF Forest, JtTyped
  <2> QED
    BY <1>7, <2>1, <2>2, <2>3, <2>4 DEF JtTyped
<1>9. ASSUME NEW m, NEW i, NEW x, Holds(G, m, i, x)
      PROVE  x \in DOMAIN G \ JtRoots /\ \A k, j : Holds(G, k, j, x) => k = m /\ j = i
  <2>1. Holds(H, m, i, x) /\ m \in DOMAIN G /\ m # n
    BY <1>6, <1>9
  <2>2. x \in DOMAIN H \ JtRoots /\ \A k, j : Holds(H, k, j, x) => k = m /\ j = i
    BY <2>1 DEF Forest, JtOwned
  <2>3. x \notin T \ {n}
    <3> SUFFICES ASSUME x \in T \ {n} PROVE FALSE
      OBVIOUS
    <3>1. m \in T
      BY <2>1, HolderOf DEF T
    <3> QED
      BY <1>5, <2>1, <3>1
  <2> QED
    BY <1>5, <1>6, <2>2, <2>3
<1>10. Forest(G)
  BY <1>8, <1>9 DEF Forest, JtOwned
<1> QED
  BY <1>4, <1>5, <1>6, <1>10 DEF T, CleanedTo

\* Nothing else is lost.
LEMMA CleanedReached ==
  ASSUME NEW H, Forest(H), NEW n \in Reached(H), NEW G, G = cleanup(H, n), Reached(H) = DOMAIN H
  PROVE  Reached(G) = DOMAIN G
<1> DEFINE K == Tree(H, n) \ {n}
           S == Reached(G) \cup K
<1>1. n \in DOMAIN H /\ n \in Tree(H, n) /\ ClosedUnder(H, Tree(H, n))
  <2>1. n \in DOMAIN H
    OBVIOUS
  <2> QED
    BY <2>1, ForestKept, TreeIs
<1>2. /\ DOMAIN G = DOMAIN H \ K /\ Forest(G)
      /\ \A m, i, x : Holds(G, m, i, x) <=> Holds(H, m, i, x) /\ m \in DOMAIN G /\ m # n
  BY <1>1, CleanedIs DEF CleanedTo
<1>3. JtRoots \subseteq Reached(G) /\ Reached(G) \subseteq DOMAIN G /\ ClosedUnder(G, Reached(G))
  BY <1>2, ReachedIs
<1>4. ClosedUnder(H, S)
  <2> SUFFICES ASSUME NEW m \in S, m \in DOMAIN H, NEW x \in Children(H, m) PROVE x \in S
    BY DEF ClosedUnder
  <2>1. PICK i : Holds(H, m, i, x)
    BY ChildrenAre
  <2>2. CASE m \in Tree(H, n)
    <3>1. x \in Tree(H, n)
      BY <1>1, <2>2 DEF ClosedUnder
    <3>2. x # n
      BY <2>1, <2>2, NoCircle
    <3> QED
      BY <3>1, <3>2
  <2>3. CASE m \notin Tree(H, n)
    <3>1. m \in Reached(G) /\ m \in DOMAIN G /\ m # n
      BY <1>1, <1>3, <2>3
    <3>2. Holds(G, m, i, x)
      BY <1>2, <2>1, <3>1
    <3>3. x \in Children(G, m)
      BY <3>1, <3>2, ChildrenAre
    <3> QED
      BY <1>3, <3>1, <3>3 DEF ClosedUnder
  <2> QED
    BY <2>2, <2>3
<1>5. Reached(H) \subseteq S
  <2>1. JtRoots \subseteq S
    BY <1>3
  <2>2. \A T : JtRoots \subseteq T /\ ClosedUnder(H, T) => Reached(H) \subseteq T
    BY ReachedIs
  <2> QED
    BY <1>4, <2>1, <2>2, Zenon
<1> QED
  BY <1>2, <1>3, <1>5

\* The numbers of a set in order.
LEMMA NthIs ==
  ASSUME NEW S \in SUBSET Nat, IsFiniteSet(S), NEW k \in 1 .. Cardinality(S)
  PROVE  Nth(S, k) \in S /\ Rank(S, Nth(S, k)) = k
<1> DEFINE c == Cardinality(S)
           T == {i \in Nat : i # 0 /\ i <= c => \E x \in S : Rank(S, x) = i}
<1>1. c \in Nat
  BY FS_CardinalityType
<1> HIDE DEF c
<1>2. 0 \in T
  OBVIOUS
<1>3. ASSUME NEW i \in Nat, i \in T PROVE i + 1 \in T
  <2> SUFFICES ASSUME i + 1 <= c PROVE \E x \in S : Rank(S, x) = i + 1
    OBVIOUS
  <2>1. CASE i = 0
    <3>1. S # {}
      BY <1>1, <2>1, FS_EmptySet DEF c
    <3>2. PICK x \in S : \A y \in S : x <= y
      BY <3>1, LeastNumber
    <3>3. {y \in S : y <= x} = {x}
      <4>1. \A y \in S : y \in Nat /\ x \in Nat
        OBVIOUS
      <4>2. \A y \in S : y <= x <=> y = x
        BY <3>2, <4>1
      <4> QED
        BY <4>2
    <3> QED
      BY <2>1, <3>3, FS_Singleton DEF Rank
  <2>2. CASE i # 0
    <3>1. PICK x \in S : Rank(S, x) = i
      BY <1>1, <1>3, <2>2
    <3> DEFINE A == {y \in S : y <= x}
    <3>2. Cardinality(A) = i /\ IsFiniteSet(A) /\ A \subseteq S
      BY <3>1, FS_Subset DEF Rank
    <3>3. S \ A # {}
      <4>1. A # S
        BY <1>1, <3>2 DEF c
      <4> QED
        BY <3>2, <4>1
    <3>4. PICK z \in S \ A : \A y \in S \ A : z <= y
      BY <3>3, LeastNumber
    <3>5. {y \in S : y <= z} = A \cup {z}
      <4>1. \A y \in S : y \in Nat /\ x \in Nat /\ z \in Nat
        BY <3>4
      <4>2. ~ (z <= x)
        BY <3>4
      <4>3. \A y \in S : y <= z <=> (y <= x \/ y = z)
        <5> TAKE y \in S
        <5>1. CASE y <= x
          BY <4>1, <4>2, <5>1
        <5>2. CASE ~ (y <= x)
          <6>1. z <= y
            BY <3>4, <5>2
          <6> QED
            BY <4>1, <5>2, <6>1
        <5> QED
          BY <5>1, <5>2
      <4> QED
        BY <3>4, <4>3
    <3>6. Cardinality(A \cup {z}) = i + 1
      <4>1. z \notin A
        BY <3>4
      <4> HIDE DEF A
      <4> QED
        BY <3>2, <4>1, FS_AddElement
    <3> QED
      BY <3>4, <3>5, <3>6 DEF Rank
  <2> QED
    BY <2>1, <2>2
<1> HIDE DEF T
<1>4. k \in T
  BY <1>2, <1>3, NumberInduction
<1>5. \E x \in S : Rank(S, x) = k
  BY <1>1, <1>4 DEF T, c
<1> QED
  BY <1>5 DEF Nth

\* Places that are free: as many as are asked for.
LEMMA FreeAre ==
  ASSUME NEW H, JtTyped(H), NEW count \in Nat
  PROVE  /\ FreeNodes(H, count) \subseteq Nat \ {0} /\ FreeNodes(H, count) \cap DOMAIN H = {}
         /\ IsFiniteSet(FreeNodes(H, count)) /\ count <= Cardinality(FreeNodes(H, count))
         /\ Cardinality(FreeNodes(H, count)) \in Nat
<1> DEFINE D == DOMAIN H
           c == Cardinality(D)
           A == 1 .. c + count
<1>1. IsFiniteSet(D) /\ D \subseteq Nat \ {0} /\ c \in Nat
  BY FS_CardinalityType DEF JtTyped
<1>2. FreeNodes(H, count) = A \ D
  BY DEF FreeNodes
<1> HIDE DEF c, D
<1>3. IsFiniteSet(A) /\ Cardinality(A) = c + count
  <2>1. c + count \in Nat
    BY <1>1
  <2> HIDE DEF A
  <2>2. A = 1 .. c + count
    BY DEF A
  <2> DEFINE n == c + count
  <2> HIDE DEF n
  <2>3. n \in Nat /\ 1 \in Int /\ n \in Int /\ A = 1 .. n
    BY <2>1, <2>2 DEF n
  <2>4. IsFiniteSet(1 .. n) /\ Cardinality(1 .. n) = IF 1 > n THEN 0 ELSE n - 1 + 1
    BY <2>3, FS_Interval
  <2> QED
    BY <2>3, <2>4 DEF n
<1>4. A \subseteq Nat \ {0}
  BY <1>1
<1> HIDE DEF A
<1>5. /\ IsFiniteSet(A \ D) /\ Cardinality(A \ D) = Cardinality(A) - Cardinality(A \cap D)
      /\ Cardinality(A \ D) \in Nat
  BY <1>1, <1>3, FS_Difference, FS_CardinalityType
<1>6. Cardinality(A \cap D) <= c /\ Cardinality(A \cap D) \in Nat
  <2>1. A \cap D \subseteq D
    OBVIOUS
  <2> QED
    BY <1>1, <2>1, FS_Subset, FS_CardinalityType DEF c
<1>7. count <= Cardinality(A \ D)
  BY <1>1, <1>3, <1>5, <1>6
<1> QED
  BY <1>2, <1>4, <1>5, <1>7 DEF D

\* So many new places, all different.
LEMMA FreshNodes ==
  ASSUME NEW H, JtTyped(H), NEW count \in Nat
  PROVE  /\ \A i \in 1 .. count : Nth(FreeNodes(H, count), i) \in Nat \ {0}
                                  /\ Nth(FreeNodes(H, count), i) \notin DOMAIN H
         /\ \A i, j \in 1 .. count : Nth(FreeNodes(H, count), i) = Nth(FreeNodes(H, count), j) => i = j
<1> DEFINE F == FreeNodes(H, count)
<1>1. /\ F \subseteq Nat \ {0} /\ F \cap DOMAIN H = {} /\ IsFiniteSet(F)
      /\ count <= Cardinality(F) /\ Cardinality(F) \in Nat
  BY FreeAre
<1> HIDE DEF F
<1>2. \A i \in 1 .. count : Nth(F, i) \in F /\ Rank(F, Nth(F, i)) = i
  <2> TAKE i \in 1 .. count
  <2>1. i \in 1 .. Cardinality(F) /\ F \in SUBSET Nat
    BY <1>1
  <2> QED
    BY <1>1, <2>1, NthIs
<1>3. \A i, j \in 1 .. count : Nth(F, i) = Nth(F, j) => i = j
  BY <1>2
<1>4. \A i \in 1 .. count : Nth(F, i) \in Nat \ {0} /\ Nth(F, i) \notin DOMAIN H
  BY <1>1, <1>2
<1> QED
  BY <1>3, <1>4 DEF F

LEMMA NewNodeIs ==
  ASSUME NEW H, JtTyped(H)
  PROVE  NewNode(H) \in Nat \ {0} /\ NewNode(H) \notin DOMAIN H
<1> DEFINE F == FreeNodes(H, 1)
<1>1. /\ F \subseteq Nat \ {0} /\ F \cap DOMAIN H = {} /\ IsFiniteSet(F)
      /\ 1 <= Cardinality(F) /\ Cardinality(F) \in Nat
  BY FreeAre
<1>2. NewNode(H) = CHOOSE x \in F : \A y \in F : x <= y
  BY DEF NewNode, Min
<1> HIDE DEF F
<1>3. F # {}
  BY <1>1, FS_EmptySet
<1>4. \E x \in F : \A y \in F : x <= y
  BY <1>1, <1>3, LeastNumber
<1>5. NewNode(H) \in F
  BY <1>2, <1>4
<1> QED
  BY <1>1, <1>5

\* Ranks in a set: up to its size, and different for different numbers.
LEMMA RanksAre ==
  ASSUME NEW S \in SUBSET Nat, IsFiniteSet(S)
  PROVE  /\ \A x \in S : Rank(S, x) \in 1 .. Cardinality(S)
         /\ \A x, y \in S : Rank(S, x) = Rank(S, y) => x = y
<1>1. ASSUME NEW x \in S
      PROVE  /\ IsFiniteSet({y \in S : y <= x}) /\ Cardinality({y \in S : y <= x}) = Rank(S, x)
             /\ Rank(S, x) \in Nat
  <2>1. {y \in S : y <= x} \subseteq S
    OBVIOUS
  <2> QED
    BY <2>1, FS_Subset, FS_CardinalityType DEF Rank
<1>2. ASSUME NEW x \in S PROVE Rank(S, x) \in 1 .. Cardinality(S)
  <2> DEFINE A == {y \in S : y <= x}
  <2>1. x \in A /\ A \subseteq S
    OBVIOUS
  <2>2. IsFiniteSet(A) /\ Cardinality(A) = Rank(S, x) /\ Rank(S, x) \in Nat
    BY <1>1
  <2> HIDE DEF A
  <2>3. Cardinality(A) # 0 /\ Cardinality(A) <= Cardinality(S) /\ Cardinality(S) \in Nat
    BY <2>1, <2>2, FS_EmptySet, FS_Subset, FS_CardinalityType
  <2> QED
    BY <2>2, <2>3
<1>3. ASSUME NEW x \in S, NEW y \in S, x < y PROVE Rank(S, x) < Rank(S, y)
  <2> DEFINE A == {z \in S : z <= x}
             B == {z \in S : z <= y}
  <2>1. A \subseteq B /\ y \in B /\ y \notin A
    <3>1. \A z \in S : z \in Nat
      OBVIOUS
    <3>2. \A z \in S : z <= x => z <= y
      BY <1>3, <3>1
    <3>3. y <= y /\ ~ (y <= x)
      BY <1>3, <3>1
    <3> QED
      BY <3>2, <3>3
  <2>2. /\ IsFiniteSet(A) /\ Cardinality(A) = Rank(S, x)
        /\ IsFiniteSet(B) /\ Cardinality(B) = Rank(S, y)
    BY <1>1
  <2> HIDE DEF A, B
  <2>3. A # B
    BY <2>1
  <2>4. Cardinality(A) <= Cardinality(B) /\ Cardinality(A) # Cardinality(B)
    BY <2>1, <2>2, <2>3, FS_Subset
  <2>5. Cardinality(A) \in Nat /\ Cardinality(B) \in Nat
    BY <2>2, FS_CardinalityType
  <2> QED
    BY <2>2, <2>4, <2>5
<1>4. ASSUME NEW x \in S, NEW y \in S, Rank(S, x) = Rank(S, y) PROVE x = y
  <2>1. Rank(S, x) \in Nat /\ Rank(S, y) \in Nat
    BY <1>1
  <2>2. x < y \/ y < x \/ x = y
    OBVIOUS
  <2>3. ~ (x < y)
    BY <1>3, <1>4, <2>1
  <2>4. ~ (y < x)
    BY <1>3, <1>4, <2>1
  <2> QED
    BY <2>2, <2>3, <2>4
<1> QED
  BY <1>2, <1>4

\* A statement that goes through one variable leaves what the others hold.
Leads(H, G, root) ==
  /\ Forest(G) /\ DOMAIN H \subseteq DOMAIN G
  /\ \A q \in JtRoots : Tree(H, q) \subseteq Tree(G, q)
  /\ Reached(H) = DOMAIN H => Reached(G) = DOMAIN G
  /\ \A q \in JtRoots \ {root} : Tree(G, q) = Tree(H, q) /\ \A m \in Tree(H, q) : G[m] = H[m]

\* Nor does it change anything but marks.
Alike(H, G) ==
  DOMAIN G = DOMAIN H /\ \A m \in DOMAIN H : G[m].type = H[m].type /\ G[m].content = H[m].content

LEMMA LeadsOn ==
  ASSUME NEW H, NEW G, NEW F, NEW root, Leads(H, G, root), Leads(G, F, root)
  PROVE  Leads(H, F, root)
  BY DEF Leads

\* One object of the variable changes and holds what it held.
LEMMA ChangedLeads ==
  ASSUME NEW H, Forest(H), NEW root \in JtRoots, NEW n \in Tree(H, root), NEW object \in JtObjects,
         object.type = "UNKNOWN" => object.content = <<>>,
         object.content = H[n].content,
         object.type = H[n].type \/ object.content = <<>>,
         NEW G, G \in [DOMAIN H -> JtObjects], G[n] = object, \A m \in DOMAIN H \ {n} : G[m] = H[m]
  PROVE  /\ Leads(H, G, root)
         /\ \A k \in DOMAIN H : Tree(G, k) = Tree(H, k)
<1>1. root \in DOMAIN H
  BY DEF Forest, JtTyped
<1>2. n \in DOMAIN H
  BY <1>1, ForestKept, TreeIs
<1>3. DOMAIN G = DOMAIN H /\ G[n] = object /\ \A m \in DOMAIN H \ {n} : G[m] = H[m]
  BY <1>2
<1>4. JtTyped(G)
  <2>1. \A m \in DOMAIN H : G[m].type = "UNKNOWN" => G[m].content = <<>>
    BY <1>3 DEF Forest, JtTyped
  <2> QED
    BY <1>3, <2>1 DEF Forest, JtTyped
<1>5. \A m, i, x : Holds(G, m, i, x) <=> Holds(H, m, i, x)
  <2> SUFFICES ASSUME NEW m, NEW i, NEW x PROVE Holds(G, m, i, x) <=> Holds(H, m, i, x)
    OBVIOUS
  <2>1. CASE m # n
    BY <1>3, <2>1 DEF Holds
  <2>2. CASE m = n /\ object.type = H[n].type
    BY <1>2, <1>3, <2>2 DEF Holds
  <2>3. CASE m = n /\ object.content = <<>>
    BY <1>2, <1>3, <2>3 DEF Holds
  <2> QED
    BY <2>1, <2>2, <2>3
<1>6. Forest(G) /\ Reached(G) = Reached(H) /\ \A k \in DOMAIN H : Tree(G, k) = Tree(H, k)
  BY <1>3, <1>4, <1>5, SameHeld
<1>7. ASSUME NEW q \in JtRoots \ {root}
      PROVE  Tree(G, q) = Tree(H, q) /\ \A m \in Tree(H, q) : G[m] = H[m]
  <2>1. q \in DOMAIN H
    BY DEF Forest, JtTyped
  <2>2. Tree(H, q) \subseteq DOMAIN H /\ n \notin Tree(H, q)
    BY <2>1, ForestKept, TreeIs, TreesApart
  <2> QED
    BY <1>3, <1>6, <2>1, <2>2
<1>8. JtRoots \subseteq DOMAIN H
  BY DEF Forest, JtTyped
<1> QED
  BY <1>3, <1>6, <1>7, <1>8 DEF Leads

\* G is H with the new objects N, which n holds at the end of its content.
Grows(H, G, n, N, content) ==
  /\ IsFiniteSet(N) /\ N \subseteq Nat \ {0} /\ N \cap DOMAIN H = {}
  /\ content \in Seq(JtEntries) /\ Len(H[n].content) <= Len(content)
  /\ \A i \in 1 .. Len(H[n].content) : content[i] = H[n].content[i]
  /\ \A i \in Len(H[n].content) + 1 .. Len(content) : content[i].value \in N
  /\ \A x \in N : \E i \in Len(H[n].content) + 1 .. Len(content) :
       /\ content[i].value = x
       /\ \A j \in Len(H[n].content) + 1 .. Len(content) : content[j].value = x => j = i
  /\ G \in [DOMAIN H \cup N -> JtObjects] /\ G[n].type = H[n].type /\ G[n].content = content
  /\ \A m \in DOMAIN H \ {n} : G[m] = H[m]
  /\ \A x \in N : G[x] = FreshObject

\* New members are added to an object of the variable.
LEMMA GrownLeads ==
  ASSUME NEW H, Forest(H), NEW root \in JtRoots, NEW n \in Tree(H, root), HasObjects(H[n].type),
         NEW G, NEW N, NEW content, Grows(H, G, n, N, content)
  PROVE  /\ Leads(H, G, root) /\ n \in Tree(G, root)
         /\ \A i \in 1 .. Len(content) : Holds(G, n, i, content[i].value)
<1> USE DEF Grows
<1> DEFINE old == H[n].content
           h == Len(old)
           l == Len(content)
<1>1. root \in DOMAIN H /\ JtRoots \subseteq DOMAIN H
  BY DEF Forest, JtTyped
<1>2. n \in DOMAIN H /\ n \in DOMAIN G /\ DOMAIN G = DOMAIN H \cup N
  BY <1>1, ForestKept, TreeIs
<1>3. old \in Seq(JtEntries) /\ H[n].type # "UNKNOWN"
  BY <1>2 DEF Forest, JtTyped, JtObjects, HasObjects
<1>4. h \in Nat /\ l \in Nat /\ DOMAIN old = 1 .. h /\ DOMAIN content = 1 .. l
  BY <1>3
<1>5. JtTyped(G)
  <2>1. IsFiniteSet(DOMAIN G) /\ DOMAIN G \subseteq Nat \ {0}
    <3>1. IsFiniteSet(DOMAIN H) /\ DOMAIN H \subseteq Nat \ {0}
      BY DEF Forest, JtTyped
    <3>2. IsFiniteSet(DOMAIN H \cup N)
      BY <3>1, FS_Union
    <3> QED
      BY <1>2, <3>1, <3>2
  <2>2. \A m \in DOMAIN G : G[m].type = "UNKNOWN" => G[m].content = <<>>
    BY <1>2, <1>3 DEF Forest, JtTyped, FreshObject
  <2> QED
    BY <1>1, <1>2, <2>1, <2>2 DEF JtTyped
<1> HIDE DEF h, l, old
<1>6. \A m, i, x : Holds(H, m, i, x) => Holds(G, m, i, x)
  <2> SUFFICES ASSUME NEW m, NEW i, NEW x, Holds(H, m, i, x) PROVE Holds(G, m, i, x)
    OBVIOUS
  <2>1. CASE m # n
    BY <1>2, <2>1 DEF Holds
  <2>2. CASE m = n
    <3>1. i \in 1 .. h /\ old[i].value = x
      BY <1>4, <2>2 DEF Holds, old
    <3>2. i \in 1 .. l /\ content[i] = old[i]
      BY <1>4, <3>1 DEF old, h, l
    <3> QED
      BY <1>2, <1>4, <2>2, <3>1, <3>2 DEF Holds
  <2> QED
    BY <2>1, <2>2
<1>7. \A m, i, x : Holds(G, m, i, x) => Holds(H, m, i, x) \/ (m = n /\ x \in N /\ i \in h + 1 .. l)
  <2> SUFFICES ASSUME NEW m, NEW i, NEW x, Holds(G, m, i, x)
               PROVE  Holds(H, m, i, x) \/ (m = n /\ x \in N /\ i \in h + 1 .. l)
    OBVIOUS
  <2>1. CASE m \in N
    <3>1. G[m] = FreshObject /\ ~HasObjects(FreshObject.type)
      BY <2>1 DEF HasObjects, FreshObject
    <3> QED
      BY <3>1 DEF Holds
  <2>2. CASE m \in DOMAIN H \ {n}
    BY <2>2 DEF Holds
  <2>3. CASE m = n
    <3>1. i \in 1 .. l /\ content[i].value = x
      BY <1>4, <2>3 DEF Holds
    <3>2. CASE i \in 1 .. h
      <4>1. content[i] = old[i]
        BY <3>2 DEF old, h
      <4> QED
        BY <1>2, <1>4, <2>3, <3>1, <3>2, <4>1 DEF Holds, old
    <3>3. CASE i \in h + 1 .. l
      BY <2>3, <3>1, <3>3 DEF h, l, old
    <3> QED
      BY <1>4, <3>1, <3>2, <3>3
  <2> QED
    BY <1>2, <2>1, <2>2, <2>3 DEF Holds
<1>8. \A i \in 1 .. l : Holds(G, n, i, content[i].value)
  BY <1>2, <1>4 DEF Holds
<1>9. ASSUME NEW x \in N PROVE \E i : Holds(G, n, i, x) /\ \A j : Holds(G, n, j, x) => j = i
  <2>1. PICK i \in h + 1 .. l : content[i].value = x /\ \A j \in h + 1 .. l : content[j].value = x => j = i
    BY DEF h, l, old
  <2>2. Holds(G, n, i, x)
    BY <1>4, <1>8, <2>1
  <2>3. ASSUME NEW j, Holds(G, n, j, x) PROVE j = i
    <3>1. ~ Holds(H, n, j, x)
      BY DEF Forest, JtOwned
    <3>2. j \in h + 1 .. l
      BY <1>7, <2>3, <3>1
    <3>3. content[j].value = x
      BY <2>3 DEF Holds
    <3> QED
      BY <2>1, <3>2, <3>3
  <2> QED
    BY <2>2, <2>3
<1>10. /\ Forest(G)
       /\ \A k \in DOMAIN H : /\ Tree(H, k) \subseteq Tree(G, k)
                              /\ n \in Tree(H, k) => N \subseteq Tree(G, k)
                              /\ n \notin Tree(H, k) => Tree(G, k) = Tree(H, k)
  <2>1. \A m, i, x : Holds(G, m, i, x) => Holds(H, m, i, x) \/ (m = n /\ x \in N)
    BY <1>7
  <2>2. DOMAIN G = DOMAIN H \cup N /\ N \cap DOMAIN H = {} /\ JtTyped(G) /\ n \in DOMAIN H
    BY <1>2, <1>5
  <2>3. \A m, i, x : Holds(H, m, i, x) => Holds(G, m, i, x)
    BY <1>6
  <2>4. \A x \in N : \E i : Holds(G, n, i, x) /\ \A j : Holds(G, n, j, x) => j = i
    BY <1>9
  <2>5. HoldsMore(H, G, n, N)
    BY <2>1, <2>2, <2>3, <2>4 DEF HoldsMore
  <2> QED
    BY <2>5, MoreHeld
<1>11. ASSUME NEW q \in JtRoots \ {root}
       PROVE  Tree(G, q) = Tree(H, q) /\ \A m \in Tree(H, q) : G[m] = H[m]
  <2>1. q \in DOMAIN H
    BY <1>1
  <2>2. Tree(H, q) \subseteq DOMAIN H /\ n \notin Tree(H, q)
    BY <2>1, ForestKept, TreeIs, TreesApart
  <2> QED
    BY <1>10, <2>1, <2>2
<1>12. ASSUME Reached(H) = DOMAIN H PROVE Reached(G) = DOMAIN G
  <2>1. Reached(H) \subseteq Reached(G)
    BY <1>1, <1>10 DEF Reached
  <2>2. N \subseteq Reached(G)
    BY <1>1, <1>10 DEF Reached
  <2>3. Reached(G) \subseteq DOMAIN G
    BY <1>10, ReachedIs
  <2> QED
    BY <1>2, <1>12, <2>1, <2>2, <2>3
<1>13. n \in Tree(G, root)
  BY <1>1, <1>10
<1> QED
  BY <1>1, <1>2, <1>8, <1>10, <1>11, <1>12, <1>13 DEF Leads, l

LEMMA ObjectMarks ==
  ASSUME NEW A, NEW B, NEW C, NEW o \in [type : A, content : B, readonly : C], NEW b \in C
  PROVE  /\ [o EXCEPT !.readonly = b] \in [type : A, content : B, readonly : C]
         /\ [o EXCEPT !.readonly = b].type = o.type
         /\ [o EXCEPT !.readonly = b].content = o.content
         /\ [o EXCEPT !.readonly = b].readonly = b
  OBVIOUS

LEMMA ObjectTypes ==
  ASSUME NEW A, NEW B, NEW C, NEW o \in [type : A, content : B, readonly : C], NEW t \in A
  PROVE  /\ [o EXCEPT !.type = t] \in [type : A, content : B, readonly : C]
         /\ [o EXCEPT !.type = t].type = t
         /\ [o EXCEPT !.type = t].content = o.content
         /\ [o EXCEPT !.type = t].readonly = o.readonly
  OBVIOUS

LEMMA ObjectFills ==
  ASSUME NEW A, NEW B, NEW C, NEW o \in [type : A, content : B, readonly : C], NEW c \in B
  PROVE  /\ [o EXCEPT !.content = c] \in [type : A, content : B, readonly : C]
         /\ [o EXCEPT !.content = c].type = o.type
         /\ [o EXCEPT !.content = c].content = c
         /\ [o EXCEPT !.content = c].readonly = o.readonly
  OBVIOUS

\* The objects of a heap.
LEMMA ObjectIs ==
  ASSUME NEW H, Forest(H), NEW n \in DOMAIN H
  PROVE  /\ H[n] \in [type : JtTypes, content : Seq(JtEntries), readonly : BOOLEAN]
         /\ H[n].type \in JtTypes /\ H[n].content \in Seq(JtEntries) /\ H[n].readonly \in BOOLEAN
         /\ H[n].type = "UNKNOWN" => H[n].content = <<>>
         /\ Len(H[n].content) \in Nat /\ DOMAIN H[n].content = 1 .. Len(H[n].content)
<1>1. H[n] \in JtObjects /\ (H[n].type = "UNKNOWN" => H[n].content = <<>>)
  BY DEF Forest, JtTyped
<1>2. H[n] \in [type : JtTypes, content : Seq(JtEntries), readonly : BOOLEAN]
  BY <1>1 DEF JtObjects
<1> QED
  BY <1>1, <1>2

\* What a step of a path may do.
Led(H, n, R, root) ==
  /\ Leads(H, R.heap, root) /\ R.node \in Tree(R.heap, root)
  /\ H[n].readonly => Alike(H, R.heap) /\ (R.thrown = "none" => R.heap[R.node].readonly)

LEMMA LeadsSelf ==
  ASSUME NEW H, Forest(H), NEW root
  PROVE  Leads(H, H, root)
  BY DEF Leads

LEMMA ReachLeads ==
  ASSUME NEW H, Forest(H), NEW root \in JtRoots, NEW n \in Tree(H, root), HasObjects(H[n].type),
         NEW i \in DOMAIN H[n].content
  PROVE  Led(H, n, Reach(H, n, i), root)
<1> DEFINE child == H[n].content[i].value
           object == [H[child] EXCEPT !.readonly = H[n].readonly]
           G == [H EXCEPT ![child] = object]
           R == Reach(H, n, i)
<1>1. root \in DOMAIN H
  BY DEF Forest, JtTyped
<1>2. n \in DOMAIN H /\ ClosedUnder(H, Tree(H, root))
  BY <1>1, ForestKept, TreeIs
<1>3. Holds(H, n, i, child)
  BY <1>2 DEF Holds
<1>4. child \in Tree(H, root) /\ child \in DOMAIN H
  <2>1. child \in Children(H, n)
    BY <1>2, <1>3, ChildrenAre
  <2>2. child \in DOMAIN H
    BY <1>3 DEF Forest, JtOwned
  <2> QED
    BY <1>2, <2>1, <2>2 DEF ClosedUnder
<1>5. R.heap = G /\ R.node = child /\ R.thrown = "none"
  BY DEF Reach
<1> HIDE DEF R
<1>6. H[child] \in [type : JtTypes, content : Seq(JtEntries), readonly : BOOLEAN] /\ H[n].readonly \in BOOLEAN
      /\ (H[child].type = "UNKNOWN" => H[child].content = <<>>)
  BY <1>2, <1>4, ObjectIs
<1> HIDE DEF child
<1>7. /\ object \in JtObjects /\ object.type = H[child].type
      /\ object.content = H[child].content /\ object.readonly = H[n].readonly
  BY <1>6, ObjectMarks DEF JtObjects
<1> HIDE DEF object
<1>8. /\ Leads(H, G, root) /\ DOMAIN G = DOMAIN H /\ G[child] = object
      /\ \A m \in DOMAIN H \ {child} : G[m] = H[m]
      /\ \A k \in DOMAIN H : Tree(G, k) = Tree(H, k)
  <2>1. /\ DOMAIN G = DOMAIN H /\ G[child] = object
        /\ \A m \in DOMAIN H \ {child} : G[m] = H[m]
        /\ G \in [DOMAIN H -> JtObjects]
    <3>1. H \in [DOMAIN H -> JtObjects]
      BY DEF Forest, JtTyped
    <3> QED
      BY <1>4, <1>7, <3>1
  <2> HIDE DEF G
  <2>2. /\ object.type = "UNKNOWN" => object.content = <<>>
        /\ object.content = H[child].content
        /\ object.type = H[child].type \/ object.content = <<>>
    BY <1>6, <1>7
  <2>3. child \in Tree(H, root) /\ object \in JtObjects
    BY <1>4, <1>7
  <2>4. Leads(H, G, root) /\ \A k \in DOMAIN H : Tree(G, k) = Tree(H, k)
    BY <2>1, <2>2, <2>3, ChangedLeads
  <2> QED
    BY <2>1, <2>4
<1> HIDE DEF G
<1>9. child \in Tree(G, root)
  BY <1>1, <1>4, <1>8
<1>10. Alike(H, G)
  BY <1>7, <1>8 DEF Alike
<1>11. H[n].readonly => G[child].readonly
  BY <1>7, <1>8
<1> QED
  BY <1>5, <1>8, <1>9, <1>10, <1>11, Zenon DEF Led, R

Retyped(H, n, t) == [H EXCEPT ![n].type = t]

LEMMA TypedLeads ==
  ASSUME NEW H, Forest(H), NEW root \in JtRoots, NEW n \in Tree(H, root),
         NEW t \in {"COMPONENT", "ARRAY"}, H[n].type \in {t, "UNKNOWN"}
  PROVE  LET G == Retyped(H, n, t) IN
         /\ Leads(H, G, root) /\ DOMAIN G = DOMAIN H /\ n \in DOMAIN H /\ n \in Tree(G, root)
         /\ G[n].type = t /\ G[n].content = H[n].content /\ G[n].readonly = H[n].readonly
         /\ G[n] \in JtObjects /\ G \in [DOMAIN H -> JtObjects]
         /\ H[n].type = t => Alike(H, G)
<1> DEFINE object == [H[n] EXCEPT !.type = t]
           G == Retyped(H, n, t)
<1>1. root \in DOMAIN H
  BY DEF Forest, JtTyped
<1>2. n \in DOMAIN H
  BY <1>1, ForestKept, TreeIs
<1>3. H[n] \in [type : JtTypes, content : Seq(JtEntries), readonly : BOOLEAN] /\ t \in JtTypes
      /\ (H[n].type = "UNKNOWN" => H[n].content = <<>>)
  BY <1>2, ObjectIs DEF JtTypes
<1>4. /\ object \in JtObjects /\ object.type = t
      /\ object.content = H[n].content /\ object.readonly = H[n].readonly
  BY <1>3, ObjectTypes DEF JtObjects
<1>5. G = [H EXCEPT ![n] = object]
  BY DEF Retyped
<1> HIDE DEF object
<1>6. /\ DOMAIN G = DOMAIN H /\ G[n] = object /\ \A m \in DOMAIN H \ {n} : G[m] = H[m]
      /\ G \in [DOMAIN H -> JtObjects]
  <2>1. H \in [DOMAIN H -> JtObjects]
    BY DEF Forest, JtTyped
  <2> QED
    BY <1>2, <1>4, <1>5, <2>1
<1> HIDE DEF G
<1>7. /\ object.type = "UNKNOWN" => object.content = <<>>
      /\ object.type = H[n].type \/ object.content = <<>>
  BY <1>3, <1>4
<1>8. Leads(H, G, root) /\ \A k \in DOMAIN H : Tree(G, k) = Tree(H, k)
  BY <1>4, <1>6, <1>7, ChangedLeads
<1>9. H[n].type = t => Alike(H, G)
  BY <1>4, <1>6 DEF Alike
<1> QED
  BY <1>1, <1>2, <1>4, <1>6, <1>8, <1>9 DEF G

LEMMA LedOn ==
  ASSUME NEW H, NEW G, NEW n, NEW R, NEW root, Leads(H, G, root), Led(G, n, R, root),
         H[n].readonly => Alike(H, G) /\ G[n].readonly
  PROVE  Led(H, n, R, root)
<1>1. Leads(H, R.heap, root) /\ R.node \in Tree(R.heap, root)
  BY LeadsOn DEF Led
<1>2. ASSUME H[n].readonly PROVE Alike(H, R.heap) /\ (R.thrown = "none" => R.heap[R.node].readonly)
  BY <1>2 DEF Led, Alike
<1> QED
  BY <1>1, <1>2 DEF Led

\* A step that throws leaves the path where it was.
LEMMA ThrowLeads ==
  ASSUME NEW H, NEW G, NEW n, NEW root, NEW what, what # "none",
         Leads(H, G, root), n \in Tree(G, root), H[n].readonly => Alike(H, G)
  PROVE  Led(H, n, Throws(G, n, what), root)
  BY DEF Led, Throws

LEMMA MemberLeads ==
  ASSUME NEW H, Forest(H), NEW root \in JtRoots, NEW n \in Tree(H, root), NEW key \in JtKeys
  PROVE  Led(H, n, Member(H, n, key), root)
<1> DEFINE object == H[n]
           found == {i \in DOMAIN object.content : object.content[i].key = key}
           typed == [H EXCEPT ![n].type = "COMPONENT"]
           new == NewNode(H)
           content == Append(object.content, [key |-> key, value |-> new])
           G == [WithObject(typed, new, FreshObject) EXCEPT
                   ![n].content = Append(@, [key |-> key, value |-> new])]
           R == Member(H, n, key)
<1>1. root \in DOMAIN H
  BY DEF Forest, JtTyped
<1>2. n \in DOMAIN H
  BY <1>1, ForestKept, TreeIs
<1>3. /\ H[n].type \in JtTypes /\ H[n].content \in Seq(JtEntries) /\ H[n].readonly \in BOOLEAN
      /\ H[n].type = "UNKNOWN" => H[n].content = <<>>
      /\ Len(H[n].content) \in Nat /\ DOMAIN H[n].content = 1 .. Len(H[n].content)
  BY <1>2, ObjectIs
<1>4. R = IF object.type \notin {"COMPONENT", "UNKNOWN"} THEN Throws(H, n, "WRONG_OBJECT_TYPE")
          ELSE IF object.readonly /\ object.type = "UNKNOWN" THEN Throws(H, n, "ACCESS_VIOLATION")
          ELSE IF found # {} THEN Reach(typed, n, Min(found))
          ELSE IF object.readonly THEN Throws(typed, n, "OBJECT_NOT_FOUND")
          ELSE Reach(G, n, Len(object.content) + 1)
  BY DEF Member
<1> HIDE DEF R
<1>5. CASE object.type \notin {"COMPONENT", "UNKNOWN"} \/ (object.readonly /\ object.type = "UNKNOWN")
  <2>1. PICK what : what # "none" /\ R = Throws(H, n, what)
    BY <1>4, <1>5
  <2>2. Leads(H, H, root) /\ Alike(H, H)
    BY LeadsSelf DEF Alike
  <2>3. Led(H, n, Throws(H, n, what), root)
    BY <2>1, <2>2, ThrowLeads
  <2> QED
    BY <2>1, <2>3 DEF R
<1>6. CASE ~ (object.type \notin {"COMPONENT", "UNKNOWN"} \/ (object.readonly /\ object.type = "UNKNOWN"))
  <2>1. H[n].type \in {"COMPONENT", "UNKNOWN"} /\ (H[n].readonly => H[n].type = "COMPONENT")
    BY <1>6
  <2>2. /\ Leads(H, typed, root) /\ DOMAIN typed = DOMAIN H /\ n \in Tree(typed, root)
        /\ typed[n].type = "COMPONENT" /\ typed[n].content = H[n].content /\ typed[n].readonly = H[n].readonly
        /\ typed[n] \in JtObjects /\ typed \in [DOMAIN H -> JtObjects]
        /\ H[n].readonly => Alike(H, typed)
    <3> DEFINE t == "COMPONENT"
               TG == Retyped(H, n, t)
    <3>1. t \in {"COMPONENT", "ARRAY"} /\ H[n].type \in {t, "UNKNOWN"}
      BY <2>1
    <3> HIDE DEF t
    <3>2. /\ Leads(H, TG, root) /\ DOMAIN TG = DOMAIN H /\ n \in DOMAIN H /\ n \in Tree(TG, root)
          /\ TG[n].type = t /\ TG[n].content = H[n].content /\ TG[n].readonly = H[n].readonly
          /\ TG[n] \in JtObjects /\ TG \in [DOMAIN H -> JtObjects]
          /\ H[n].type = t => Alike(H, TG)
      BY <3>1, TypedLeads
    <3>3. typed = TG /\ t = "COMPONENT"
      BY DEF t, Retyped
    <3> HIDE DEF typed, TG
    <3> QED
      BY <2>1, <3>2, <3>3
  <2>3. Forest(typed) /\ HasObjects(typed[n].type)
    BY <2>2 DEF Leads, HasObjects
  <2> HIDE DEF typed
  <2>4. CASE found # {}
    <3>1. R = Reach(typed, n, Min(found))
      BY <1>4, <1>6, <2>4
    <3>2. Min(found) \in DOMAIN typed[n].content
      <4>1. found \subseteq 1 .. Len(object.content)
        BY <1>3
      <4>2. found \subseteq Nat
        BY <1>3, <4>1
      <4> HIDE DEF found
      <4>3. Min(found) = CHOOSE x \in found : \A y \in found : x <= y
        BY DEF Min
      <4>4. \E x \in found : \A y \in found : x <= y
        BY <2>4, <4>2, LeastNumber
      <4>5. Min(found) \in found
        BY <4>3, <4>4
      <4> QED
        BY <1>3, <2>2, <4>1, <4>5
    <3> HIDE DEF found
    <3>3. Led(typed, n, Reach(typed, n, Min(found)), root)
      BY <2>2, <2>3, <3>2, ReachLeads
    <3>4. Led(H, n, Reach(typed, n, Min(found)), root)
      BY <2>2, <3>3, LedOn
    <3> QED
      BY <3>1, <3>4 DEF R
  <2>5. CASE found = {} /\ object.readonly
    <3>1. R = Throws(typed, n, "OBJECT_NOT_FOUND")
      BY <1>4, <1>6, <2>5
    <3>2. Led(H, n, Throws(typed, n, "OBJECT_NOT_FOUND"), root)
      BY <2>2, ThrowLeads
    <3> QED
      BY <3>1, <3>2 DEF R
  <2>6. CASE found = {} /\ ~object.readonly
    <3> DEFINE h == Len(object.content)
    <3>1. R = Reach(G, n, h + 1)
      BY <1>4, <1>6, <2>6
    <3>2. new \in Nat \ {0} /\ new \notin DOMAIN H
      BY NewNodeIs DEF Forest
    <3> HIDE DEF new
    <3>3. [key |-> key, value |-> new] \in JtEntries
      BY <3>2 DEF JtEntries
    <3>4. /\ content \in Seq(JtEntries) /\ Len(content) = h + 1 /\ content[h + 1] = [key |-> key, value |-> new]
          /\ \A i \in 1 .. h : content[i] = H[n].content[i]
      BY <1>3, <3>3
    <3> DEFINE top == [typed[n] EXCEPT !.content = content]
    <3>5. top \in JtObjects /\ top.type = "COMPONENT" /\ top.content = content /\ top.readonly = H[n].readonly
      <4>1. typed[n] \in [type : JtTypes, content : Seq(JtEntries), readonly : BOOLEAN]
        BY <2>2 DEF JtObjects
      <4> HIDE DEF content
      <4> QED
        BY <2>2, <3>4, <4>1, ObjectFills DEF JtObjects
    <3>6. FreshObject \in JtObjects
      BY DEF FreshObject, JtObjects, JtTypes
    <3>7. WithObject(typed, new, FreshObject) = [m \in DOMAIN H \cup {new} |-> IF m = new THEN FreshObject ELSE typed[m]]
      BY <2>2 DEF WithObject
    <3>8. G = [m \in DOMAIN H \cup {new} |-> IF m = n THEN top ELSE IF m = new THEN FreshObject ELSE typed[m]]
      <4>1. WithObject(typed, new, FreshObject)[n] = typed[n]
        BY <1>2, <3>2, <3>7
      <4>2. Append(WithObject(typed, new, FreshObject)[n].content, [key |-> key, value |-> new]) = content
        BY <2>2, <4>1
      <4>3. G = [WithObject(typed, new, FreshObject) EXCEPT ![n] = top]
        BY <4>1, <4>2
      <4> HIDE DEF top, G
      <4> QED
        BY <1>2, <3>7, <4>3
    <3> HIDE DEF content, top, G
    <3>9. /\ G \in [DOMAIN H \cup {new} -> JtObjects] /\ G[n] = top /\ G[new] = FreshObject
          /\ \A m \in DOMAIN H \ {n} : G[m] = typed[m]
      BY <1>2, <2>2, <3>2, <3>5, <3>6, <3>8
    <3>10. /\ \A i \in h + 1 .. h + 1 : content[i].value \in {new}
           /\ \A x \in {new} : \E i \in h + 1 .. h + 1 : content[i].value = x
                /\ \A j \in h + 1 .. h + 1 : content[j].value = x => j = i
           /\ IsFiniteSet({new}) /\ {new} \subseteq Nat \ {0} /\ {new} \cap DOMAIN typed = {}
           /\ h <= Len(content) /\ Len(typed[n].content) = h
      <4>1. h + 1 .. h + 1 = {h + 1} /\ h <= h + 1
        BY <1>3
      <4> HIDE DEF h
      <4>2. content[h + 1].value = new /\ Len(content) = h + 1
        BY <3>4
      <4>3. {new} \subseteq Nat \ {0} /\ {new} \cap DOMAIN typed = {} /\ IsFiniteSet({new})
        BY <2>2, <3>2, FS_Singleton
      <4>4. Len(typed[n].content) = h
        BY <2>2 DEF h
      <4>5. \A i \in h + 1 .. h + 1 : content[i].value \in {new}
        BY <4>1, <4>2
      <4>6. \A x \in {new} : \E i \in h + 1 .. h + 1 : content[i].value = x
                /\ \A j \in h + 1 .. h + 1 : content[j].value = x => j = i
        BY <4>1, <4>2
      <4> QED
        BY <4>1, <4>2, <4>3, <4>4, <4>5, <4>6
    <3>11. /\ Leads(typed, G, root) /\ n \in Tree(G, root)
           /\ \A i \in 1 .. Len(content) : Holds(G, n, i, content[i].value)
      <4> DEFINE N == {new}
                 l == Len(content)
      <4>1. /\ IsFiniteSet(N) /\ N \subseteq Nat \ {0} /\ N \cap DOMAIN typed = {} /\ Len(typed[n].content) = h
            /\ content \in Seq(JtEntries) /\ h <= l /\ l = h + 1
            /\ \A i \in 1 .. h : content[i] = typed[n].content[i]
            /\ \A i \in h + 1 .. l : content[i].value \in N
            /\ \A x \in N : \E i \in h + 1 .. l : content[i].value = x
                                 /\ \A j \in h + 1 .. l : content[j].value = x => j = i
            /\ G \in [DOMAIN typed \cup N -> JtObjects] /\ G[n].type = typed[n].type /\ G[n].content = content
            /\ \A m \in DOMAIN typed \ {n} : G[m] = typed[m]
            /\ \A x \in N : G[x] = FreshObject
        BY <2>2, <3>4, <3>5, <3>9, <3>10
      <4> HIDE DEF N
      <4>2. /\ Len(typed[n].content) <= Len(content)
            /\ \A i \in 1 .. Len(typed[n].content) : content[i] = typed[n].content[i]
            /\ \A i \in Len(typed[n].content) + 1 .. Len(content) : content[i].value \in N
            /\ \A x \in N : \E i \in Len(typed[n].content) + 1 .. Len(content) : content[i].value = x
                 /\ \A j \in Len(typed[n].content) + 1 .. Len(content) : content[j].value = x => j = i
        BY <4>1
      <4>3. /\ IsFiniteSet(N) /\ N \subseteq Nat \ {0} /\ N \cap DOMAIN typed = {}
            /\ content \in Seq(JtEntries) /\ n \in Tree(typed, root) /\ Forest(typed) /\ HasObjects(typed[n].type)
            /\ G \in [DOMAIN typed \cup N -> JtObjects] /\ G[n].type = typed[n].type /\ G[n].content = content
            /\ \A m \in DOMAIN typed \ {n} : G[m] = typed[m]
            /\ \A x \in N : G[x] = FreshObject
        BY <2>2, <2>3, <4>1
      <4>4. Grows(typed, G, n, N, content)
        BY <4>2, <4>3 DEF Grows
      <4> QED
        BY <2>2, <2>3, <4>4, GrownLeads
    <3>12. Forest(G) /\ HasObjects(G[n].type) /\ h + 1 \in DOMAIN G[n].content
      <4>1. h + 1 \in 1 .. Len(content)
        BY <1>3, <3>4
      <4> QED
        BY <3>11, <4>1 DEF Leads, Holds
    <3>13. Led(G, n, Reach(G, n, h + 1), root)
      BY <3>11, <3>12, ReachLeads
    <3>14. Leads(H, G, root)
      BY <2>2, <3>11, LeadsOn
    <3>15. Led(H, n, Reach(G, n, h + 1), root)
      BY <2>6, <3>13, <3>14, LedOn
    <3> QED
      BY <3>1, <3>15 DEF R
  <2> QED
    BY <1>3, <2>4, <2>5, <2>6
<1> QED
  BY <1>5, <1>6

LEMMA ImageFinite ==
  ASSUME NEW S, IsFiniteSet(S), NEW T, NEW f \in [S -> T]
  PROVE  IsFiniteSet({f[x] : x \in S})
<1> DEFINE N == {f[x] : x \in S}
<1>1. f \in Surjection(S, N)
  BY DEF Surjection
<1> QED
  BY <1>1, FS_Surjection

LEMMA ConcatIs ==
  ASSUME NEW S, NEW s \in Seq(S), NEW t \in Seq(S)
  PROVE  /\ s \o t \in Seq(S) /\ Len(s \o t) = Len(s) + Len(t)
         /\ \A i \in 1 .. Len(s) : (s \o t)[i] = s[i]
         /\ \A i \in Len(s) + 1 .. Len(s) + Len(t) : (s \o t)[i] = t[i - Len(s)]
  OBVIOUS

LEMMA ElementLeads ==
  ASSUME NEW H, Forest(H), NEW root \in JtRoots, NEW n \in Tree(H, root), NEW index \in Nat
  PROVE  Led(H, n, Element(H, n, index), root)
<1> DEFINE object == H[n]
           size == Len(object.content)
           typed == [H EXCEPT ![n].type = "ARRAY"]
           new == [i \in 1 .. (index + 1 - size) |-> Nth(FreeNodes(H, index + 1 - size), i)]
           entries == [i \in DOMAIN new |-> [key |-> "none", value |-> new[i]]]
           content == H[n].content \o entries
           G == [m \in DOMAIN H \cup ToSet(new) |->
                  IF m = n THEN [typed[n] EXCEPT !.content =
                    @ \o [i \in DOMAIN new |-> [key |-> "none", value |-> new[i]]]]
                  ELSE IF m \in DOMAIN H THEN H[m] ELSE FreshObject]
           R == Element(H, n, index)
<1>1. root \in DOMAIN H
  BY DEF Forest, JtTyped
<1>2. n \in DOMAIN H
  BY <1>1, ForestKept, TreeIs
<1>3. /\ H[n].type \in JtTypes /\ H[n].content \in Seq(JtEntries) /\ H[n].readonly \in BOOLEAN
      /\ H[n].type = "UNKNOWN" => H[n].content = <<>>
      /\ Len(H[n].content) \in Nat /\ DOMAIN H[n].content = 1 .. Len(H[n].content)
  BY <1>2, ObjectIs
<1>4. R = IF object.type \notin {"ARRAY", "UNKNOWN"} THEN Throws(H, n, "WRONG_OBJECT_TYPE")
          ELSE IF object.readonly /\ object.type = "UNKNOWN" THEN Throws(H, n, "ACCESS_VIOLATION")
          ELSE IF index < size THEN Reach(typed, n, index + 1)
          ELSE IF object.readonly THEN Throws(typed, n, "OBJECT_NOT_FOUND")
          ELSE Reach(G, n, index + 1)
  BY DEF Element
<1> HIDE DEF R
<1>5. CASE object.type \notin {"ARRAY", "UNKNOWN"} \/ (object.readonly /\ object.type = "UNKNOWN")
  <2>1. PICK what : what # "none" /\ R = Throws(H, n, what)
    BY <1>4, <1>5
  <2>2. Leads(H, H, root) /\ Alike(H, H)
    BY LeadsSelf DEF Alike
  <2>3. Led(H, n, Throws(H, n, what), root)
    BY <2>1, <2>2, ThrowLeads
  <2> QED
    BY <2>1, <2>3 DEF R
<1>6. CASE ~ (object.type \notin {"ARRAY", "UNKNOWN"} \/ (object.readonly /\ object.type = "UNKNOWN"))
  <2>1. H[n].type \in {"ARRAY", "UNKNOWN"} /\ (H[n].readonly => H[n].type = "ARRAY")
    BY <1>6
  <2>2. /\ Leads(H, typed, root) /\ DOMAIN typed = DOMAIN H /\ n \in Tree(typed, root)
        /\ typed[n].type = "ARRAY" /\ typed[n].content = H[n].content /\ typed[n].readonly = H[n].readonly
        /\ typed[n] \in JtObjects /\ typed \in [DOMAIN H -> JtObjects]
        /\ H[n].readonly => Alike(H, typed)
    <3> DEFINE t == "ARRAY"
               TG == Retyped(H, n, t)
    <3>1. t \in {"COMPONENT", "ARRAY"} /\ H[n].type \in {t, "UNKNOWN"}
      BY <2>1
    <3> HIDE DEF t
    <3>2. /\ Leads(H, TG, root) /\ DOMAIN TG = DOMAIN H /\ n \in DOMAIN H /\ n \in Tree(TG, root)
          /\ TG[n].type = t /\ TG[n].content = H[n].content /\ TG[n].readonly = H[n].readonly
          /\ TG[n] \in JtObjects /\ TG \in [DOMAIN H -> JtObjects]
          /\ H[n].type = t => Alike(H, TG)
      BY <3>1, TypedLeads
    <3>3. typed = TG /\ t = "ARRAY"
      BY DEF t, Retyped
    <3> HIDE DEF typed, TG
    <3> QED
      BY <2>1, <3>2, <3>3
  <2>3. Forest(typed) /\ HasObjects(typed[n].type)
    BY <2>2 DEF Leads, HasObjects
  <2>0. \A m \in DOMAIN H \ {n} : typed[m] = H[m]
    OBVIOUS
  <2> HIDE DEF typed
  <2>4. CASE index < size
    <3>1. R = Reach(typed, n, index + 1)
      BY <1>4, <1>6, <2>4
    <3>2. index + 1 \in DOMAIN typed[n].content
      <4>1. index + 1 \in 1 .. size
        BY <1>3, <2>4
      <4> QED
        BY <1>3, <2>2, <4>1
    <3>3. Led(typed, n, Reach(typed, n, index + 1), root)
      BY <2>2, <2>3, <3>2, ReachLeads
    <3>4. Led(H, n, Reach(typed, n, index + 1), root)
      BY <2>2, <3>3, LedOn
    <3> QED
      BY <3>1, <3>4 DEF R
  <2>5. CASE ~ (index < size) /\ object.readonly
    <3>1. R = Throws(typed, n, "OBJECT_NOT_FOUND")
      BY <1>4, <1>6, <2>5
    <3>2. Led(H, n, Throws(typed, n, "OBJECT_NOT_FOUND"), root)
      BY <2>2, ThrowLeads
    <3> QED
      BY <3>1, <3>2 DEF R
  <2>6. CASE ~ (index < size) /\ ~object.readonly
    <3> DEFINE c == index + 1 - size
               N == ToSet(new)
    <3>1. R = Reach(G, n, index + 1)
      BY <1>4, <1>6, <2>6
    <3>2. c \in Nat /\ c # 0 /\ size + c = index + 1 /\ size \in Nat
      BY <1>3, <2>6
    <3> HIDE DEF c
    <3>3. /\ \A i \in 1 .. c : new[i] \in Nat \ {0} /\ new[i] \notin DOMAIN H
          /\ \A i, j \in 1 .. c : new[i] = new[j] => i = j
          /\ DOMAIN new = 1 .. c /\ new \in [1 .. c -> Nat]
      <4>1. new = [i \in 1 .. c |-> Nth(FreeNodes(H, c), i)]
        BY DEF c
      <4> HIDE DEF new
      <4>2. JtTyped(H)
        BY DEF Forest
      <4>3. /\ \A i \in 1 .. c : Nth(FreeNodes(H, c), i) \in Nat \ {0} /\ Nth(FreeNodes(H, c), i) \notin DOMAIN H
            /\ \A i, j \in 1 .. c : Nth(FreeNodes(H, c), i) = Nth(FreeNodes(H, c), j) => i = j
        BY <3>2, <4>2, FreshNodes
      <4>4. new \in [1 .. c -> Nat]
        BY <4>1, <4>3
      <4> QED
        BY <4>1, <4>3, <4>4, Zenon
    <3> HIDE DEF new
    <3>4. N = {new[i] : i \in 1 .. c}
      BY <3>3 DEF ToSet
    <3>5. IsFiniteSet(N) /\ N \subseteq Nat \ {0} /\ N \cap DOMAIN H = {}
      <4>1. IsFiniteSet(1 .. c)
        <5>1. 1 \in Int /\ c \in Int
          BY <3>2
        <5> QED
          BY <5>1, FS_Interval
      <4>2. IsFiniteSet({new[i] : i \in 1 .. c})
        <5>1. new \in [1 .. c -> Nat]
          BY <3>3
        <5> QED
          BY <4>1, <5>1, ImageFinite
      <4> QED
        BY <3>3, <3>4, <4>2
    <3> HIDE DEF N
    <3>6. /\ entries \in Seq(JtEntries) /\ Len(entries) = c
          /\ \A i \in 1 .. c : entries[i].value = new[i]
      <4>1. entries = [i \in 1 .. c |-> [key |-> "none", value |-> new[i]]]
        BY <3>3
      <4>2. \A i \in 1 .. c : [key |-> "none", value |-> new[i]] \in JtEntries
        BY <3>3 DEF JtEntries, JtKeys
      <4> HIDE DEF entries
      <4> QED
        BY <3>2, <4>1, <4>2
    <3> DEFINE top == [typed[n] EXCEPT !.content = content]
    <3>7. G = [m \in DOMAIN H \cup N |-> IF m = n THEN top ELSE IF m \in DOMAIN H THEN H[m] ELSE FreshObject]
      <4>1. typed[n].content \o [i \in DOMAIN new |-> [key |-> "none", value |-> new[i]]] = content
        BY <2>2
      <4> HIDE DEF content
      <4> QED
        BY <4>1 DEF N
    <3> HIDE DEF entries
    <3>8. /\ content \in Seq(JtEntries) /\ Len(content) = size + c
          /\ \A i \in 1 .. size : content[i] = H[n].content[i]
          /\ \A i \in size + 1 .. size + c : content[i] = entries[i - size]
      <4>1. H[n].content \in Seq(JtEntries) /\ entries \in Seq(JtEntries)
        BY <1>3, <3>6
      <4>2. /\ content \in Seq(JtEntries) /\ Len(content) = size + Len(entries)
            /\ \A i \in 1 .. size : content[i] = H[n].content[i]
            /\ \A i \in size + 1 .. size + Len(entries) : content[i] = entries[i - size]
        BY <4>1, ConcatIs
      <4> HIDE DEF content, size
      <4> QED
        BY <3>6, <4>2
    <3> HIDE DEF content
    <3>9. top \in JtObjects /\ top.type = "ARRAY" /\ top.content = content /\ top.readonly = H[n].readonly
      <4>1. typed[n] \in [type : JtTypes, content : Seq(JtEntries), readonly : BOOLEAN]
        BY <2>2 DEF JtObjects
      <4> QED
        BY <2>2, <3>8, <4>1, ObjectFills DEF JtObjects
    <3>10. FreshObject \in JtObjects
      BY DEF FreshObject, JtObjects, JtTypes
    <3> HIDE DEF top, G
    <3>11. /\ G \in [DOMAIN H \cup N -> JtObjects] /\ G[n] = top
           /\ \A x \in N : G[x] = FreshObject
           /\ \A m \in DOMAIN H \ {n} : G[m] = typed[m]
      <4>1. \A m \in DOMAIN H : H[m] \in JtObjects
        BY DEF Forest, JtTyped
      <4> QED
        BY <1>2, <2>0, <2>2, <3>5, <3>7, <3>9, <3>10, <4>1
    <3> HIDE DEF size
    <3>12. \A i \in size + 1 .. size + c : i - size \in 1 .. c /\ content[i].value = new[i - size]
      <4> TAKE i \in size + 1 .. size + c
      <4>1. i - size \in 1 .. c
        BY <3>2
      <4> QED
        BY <3>6, <3>8, <4>1
    <3>13. \A i \in size + 1 .. size + c : content[i].value \in N
      BY <3>4, <3>12
    <3>14. ASSUME NEW x \in N
           PROVE  \E i \in size + 1 .. size + c :
                     content[i].value = x /\ \A j \in size + 1 .. size + c : content[j].value = x => j = i
      <4>1. PICK k \in 1 .. c : new[k] = x
        BY <3>4
      <4>2. size + k \in size + 1 .. size + c /\ (size + k) - size = k
        BY <3>2
      <4>3. content[size + k].value = x
        BY <3>12, <4>1, <4>2
      <4>4. ASSUME NEW j \in size + 1 .. size + c, content[j].value = x PROVE j = size + k
        <5>1. j - size \in 1 .. c /\ new[j - size] = x
          BY <3>12, <4>4
        <5>2. j - size = k
          BY <3>3, <4>1, <5>1
        <5> QED
          BY <3>2, <5>2
      <4> QED
        BY <4>2, <4>3, <4>4
    <3>15. Grows(typed, G, n, N, content)
      <4>1. size <= size + c /\ Len(typed[n].content) = size
        BY <2>2, <3>2 DEF size
      <4>2. /\ Len(typed[n].content) <= Len(content)
            /\ \A i \in 1 .. Len(typed[n].content) : content[i] = typed[n].content[i]
            /\ \A i \in Len(typed[n].content) + 1 .. Len(content) : content[i].value \in N
            /\ \A x \in N : \E i \in Len(typed[n].content) + 1 .. Len(content) : content[i].value = x
                 /\ \A j \in Len(typed[n].content) + 1 .. Len(content) : content[j].value = x => j = i
        BY <2>2, <3>8, <3>13, <3>14, <4>1
      <4> QED
        BY <2>2, <3>5, <3>8, <3>9, <3>11, <4>2 DEF Grows
    <3>16. /\ Leads(typed, G, root) /\ n \in Tree(G, root)
           /\ \A i \in 1 .. Len(content) : Holds(G, n, i, content[i].value)
      BY <2>2, <2>3, <3>15, GrownLeads
    <3>17. Forest(G) /\ HasObjects(G[n].type) /\ index + 1 \in DOMAIN G[n].content
      <4>1. index + 1 \in 1 .. Len(content)
        BY <3>2, <3>8
      <4> QED
        BY <3>16, <4>1 DEF Leads, Holds
    <3>18. Led(G, n, Reach(G, n, index + 1), root)
      BY <3>16, <3>17, ReachLeads
    <3>19. Leads(H, G, root)
      BY <2>2, <3>16, LeadsOn
    <3>20. Led(H, n, Reach(G, n, index + 1), root)
      BY <2>6, <3>18, <3>19, LedOn
    <3> QED
      BY <3>1, <3>20 DEF R
  <2> QED
    BY <1>3, <2>4, <2>5, <2>6
<1> QED
  BY <1>5, <1>6

JtThrows == {"none", "WRONG_OBJECT_TYPE", "ACCESS_VIOLATION", "OBJECT_NOT_FOUND"}
JtResults == [heap : UNION {[D -> JtObjects] : D \in SUBSET Nat}, node : Nat, thrown : JtThrows]

LEMMA ReachIs ==
  ASSUME NEW H, NEW n, NEW i
  PROVE  \E F, m : \E w \in JtThrows : Reach(H, n, i) = [heap |-> F, node |-> m, thrown |-> w]
<1> DEFINE F == [H EXCEPT ![H[n].content[i].value].readonly = H[n].readonly]
           c == H[n].content[i].value
<1>1. Reach(H, n, i) = [heap |-> F, node |-> c, thrown |-> "none"] /\ "none" \in JtThrows
  BY DEF Reach, JtThrows
<1> HIDE DEF F, c
<1> QED
  BY <1>1, Zenon

LEMMA MemberIs ==
  ASSUME NEW H, NEW n, NEW key
  PROVE  \E F, m : \E w \in JtThrows : Member(H, n, key) = [heap |-> F, node |-> m, thrown |-> w]
<1>1. {"WRONG_OBJECT_TYPE", "ACCESS_VIOLATION", "OBJECT_NOT_FOUND"} \subseteq JtThrows
  BY DEF JtThrows
<1>2. CASE \E G, what : what \in JtThrows /\ Member(H, n, key) = Throws(G, n, what)
  BY <1>2, Zenon DEF Throws
<1>3. CASE \E G, i : Member(H, n, key) = Reach(G, n, i)
  <2>1. PICK G, i : Member(H, n, key) = Reach(G, n, i)
    BY <1>3
  <2> QED
    BY <2>1, ReachIs, Zenon
<1> QED
  BY <1>1, <1>2, <1>3, Zenon DEF Member

LEMMA ElementIs ==
  ASSUME NEW H, NEW n, NEW index
  PROVE  \E F, m : \E w \in JtThrows : Element(H, n, index) = [heap |-> F, node |-> m, thrown |-> w]
<1>1. {"WRONG_OBJECT_TYPE", "ACCESS_VIOLATION", "OBJECT_NOT_FOUND"} \subseteq JtThrows
  BY DEF JtThrows
<1>2. CASE \E G, what : what \in JtThrows /\ Element(H, n, index) = Throws(G, n, what)
  BY <1>2, Zenon DEF Throws
<1>3. CASE \E G, i : Element(H, n, index) = Reach(G, n, i)
  <2>1. PICK G, i : Element(H, n, index) = Reach(G, n, i)
    BY <1>3
  <2> QED
    BY <2>1, ReachIs, Zenon
<1> QED
  BY <1>1, <1>2, <1>3, Zenon DEF Element

LEMMA LedThen ==
  ASSUME NEW H, NEW n, NEW r, NEW R, NEW root, r.thrown = "none",
         Led(H, n, r, root), Led(r.heap, r.node, R, root)
  PROVE  Led(H, n, R, root)
<1>1. Leads(H, R.heap, root) /\ R.node \in Tree(R.heap, root)
  BY LeadsOn DEF Led
<1>2. ASSUME H[n].readonly PROVE Alike(H, R.heap) /\ (R.thrown = "none" => R.heap[R.node].readonly)
  <2>1. Alike(H, r.heap) /\ r.heap[r.node].readonly
    BY <1>2 DEF Led
  <2>2. Alike(r.heap, R.heap) /\ (R.thrown = "none" => R.heap[R.node].readonly)
    BY <2>1 DEF Led
  <2> QED
    BY <2>1, <2>2 DEF Alike
<1> QED
  BY <1>1, <1>2 DEF Led

\* Forests and places in a variable's tree make results.
LEMMA ResultIs ==
  ASSUME NEW H, NEW n, NEW root \in JtRoots, NEW F, NEW m, NEW w \in JtThrows,
         NEW R, R = [heap |-> F, node |-> m, thrown |-> w], Led(H, n, R, root)
  PROVE  R \in JtResults
<1>1. R.heap = F /\ R.node = m
  OBVIOUS
<1>2. Forest(F) /\ m \in Tree(F, root)
  BY <1>1, Zenon DEF Led, Leads
<1>3. root \in DOMAIN F /\ F \in [DOMAIN F -> JtObjects] /\ DOMAIN F \subseteq Nat
  BY <1>2 DEF Forest, JtTyped
<1>4. m \in Nat
  BY <1>2, <1>3, ForestKept, TreeIs
<1>5. F \in UNION {[D -> JtObjects] : D \in SUBSET Nat}
  BY <1>3
<1> QED
  BY <1>4, <1>5 DEF JtResults

LEMMA AccessPathIs ==
  ASSUME NEW path \in MemberPaths
  PROVE  Len(path) \in Nat /\ \A d \in 1 .. Len(path) : path[d].key \in JtKeys /\ path[d].index \in Nat
<1>1. PICK d \in Nat : path \in [1 .. d -> JtSteps]
  BY JsonTreeAssumption DEF MemberPaths
<1>2. Len(path) = d
  BY <1>1
<1> QED
  BY <1>1, <1>2, JsonTreeAssumption DEF JtKeys

\* A path leads to an object of its variable.
LEMMA AccessLeads ==
  ASSUME NEW H, Forest(H), NEW root \in JtRoots, NEW path \in MemberPaths
  PROVE  Access(H, root, path) \in JtResults /\ Led(H, root, Access(H, root, path), root)
<1> DEFINE N == Len(path)
           V == {R \in JtResults : Led(H, root, R, root)}
           first == [heap |-> H, node |-> root, thrown |-> "none"]
           next(d, r) == IF r.thrown # "none" THEN r
                         ELSE IF path[d].key # "none" THEN Member(r.heap, r.node, path[d].key)
                         ELSE Element(r.heap, r.node, path[d].index)
           step == [d \in 1 .. N |-> [r \in V |-> next(d, r)]]
           Is(g) == g = [d \in 0 .. N |->
                          IF d = 0 THEN [heap |-> H, node |-> root, thrown |-> "none"]
                          ELSE LET r == g[d - 1]
                               IN IF r.thrown # "none" THEN r
                                  ELSE IF path[d].key # "none" THEN Member(r.heap, r.node, path[d].key)
                                  ELSE Element(r.heap, r.node, path[d].index)]
           at == CHOOSE g : Is(g)
<1>1. N \in Nat /\ \A d \in 1 .. N : path[d].key \in JtKeys /\ path[d].index \in Nat
  BY AccessPathIs
<1>2. first \in V
  <2>1. root \in DOMAIN H
    BY DEF Forest, JtTyped
  <2>2. root \in Tree(H, root) /\ Leads(H, H, root) /\ Alike(H, H)
    BY <2>1, ForestKept, TreeIs, LeadsSelf DEF Alike
  <2>3. Led(H, root, first, root)
    BY <2>2 DEF Led
  <2>4. first \in JtResults
    BY <2>3, ResultIs DEF JtThrows
  <2> QED
    BY <2>3, <2>4
<1>3. ASSUME NEW d \in 1 .. N, NEW r \in V PROVE next(d, r) \in V
  <2>1. CASE r.thrown # "none"
    BY <2>1
  <2>2. CASE r.thrown = "none"
    <3>1. Led(H, root, r, root) /\ Forest(r.heap) /\ r.node \in Tree(r.heap, root)
      BY DEF Led, Leads
    <3>2. CASE path[d].key # "none"
      <4> DEFINE R == Member(r.heap, r.node, path[d].key)
      <4>1. PICK F, m : \E w \in JtThrows : R = [heap |-> F, node |-> m, thrown |-> w]
        BY MemberIs
      <4>2. Led(r.heap, r.node, R, root)
        BY <1>1, <3>1, MemberLeads
      <4>3. next(d, r) = R
        BY <2>2, <3>2
      <4> HIDE DEF R, next
      <4>4. Led(H, root, R, root)
        BY <2>2, <3>1, <4>2, LedThen
      <4>5. R \in JtResults
        BY <4>1, <4>4, ResultIs
      <4> QED
        BY <4>3, <4>4, <4>5
    <3>3. CASE path[d].key = "none"
      <4> DEFINE R == Element(r.heap, r.node, path[d].index)
      <4>1. PICK F, m : \E w \in JtThrows : R = [heap |-> F, node |-> m, thrown |-> w]
        BY ElementIs
      <4>2. Led(r.heap, r.node, R, root)
        BY <1>1, <3>1, ElementLeads
      <4>3. next(d, r) = R
        BY <2>2, <3>3
      <4> HIDE DEF R, next
      <4>4. Led(H, root, R, root)
        BY <2>2, <3>1, <4>2, LedThen
      <4>5. R \in JtResults
        BY <4>1, <4>4, ResultIs
      <4> QED
        BY <4>3, <4>4, <4>5
    <3> QED
      BY <3>2, <3>3
  <2> QED
    BY <2>1, <2>2
<1>4. step \in [1 .. N -> [V -> V]]
  <2> HIDE DEF V, N, next
  <2> QED
    BY <1>3
<1> HIDE DEF V
<1>5. PICK g \in [0 .. N -> V] : Recurs(g, first, step, N)
  <2> HIDE DEF N, step, first
  <2> QED
    BY <1>1, <1>2, <1>4, RecursionExists
<1>6. g[0] = first /\ \A d \in 1 .. N : g[d - 1] \in V /\ g[d] = next(d, g[d - 1])
  <2>1. g[0] = first
    BY <1>5 DEF Recurs
  <2>2. \A d \in 1 .. N : g[d] = step[d][g[d - 1]]
    BY <1>5 DEF Recurs
  <2>3. \A d \in 1 .. N : g[d - 1] \in V
    <3> HIDE DEF N
    <3> QED
      BY <1>1, <1>5
  <2>4. \A d \in 1 .. N : g[d] = next(d, g[d - 1])
    <3> HIDE DEF N, next
    <3> QED
      BY <2>2, <2>3
  <2> QED
    BY <2>1, <2>3, <2>4
<1>7. Is(g)
  <2>1. \A d \in 0 .. N : g[d] = IF d = 0 THEN first ELSE next(d, g[d - 1])
    <3> HIDE DEF N, next, first
    <3> QED
      BY <1>1, <1>6
  <2>2. g = [d \in 0 .. N |-> IF d = 0 THEN first ELSE next(d, g[d - 1])]
    <3> HIDE DEF N, next, first
    <3> QED
      BY <1>5, <2>1
  <2> HIDE DEF N
  <2> QED
    BY <2>2
<1>8. Is(at)
  <2> HIDE DEF Is
  <2> QED
    BY <1>7
<1>9. Access(H, root, path) = at[N]
  BY DEF Access
<1> HIDE DEF at
<1>10. \A d \in 0 .. N : at[d] = IF d = 0 THEN first ELSE next(d, at[d - 1])
  <2> HIDE DEF N
  <2> QED
    BY <1>8
<1> HIDE DEF first, next, Is
<1>11. \A d \in 0 .. N : d \in {k \in 0 .. N : at[k] \in V}
  <2> DEFINE T == {k \in 0 .. N : at[k] \in V}
  <2> HIDE DEF N
  <2>1. 0 \in T
    BY <1>1, <1>2, <1>10
  <2>2. ASSUME NEW k \in 0 .. N - 1, k \in T PROVE k + 1 \in T
    <3>1. k + 1 \in 1 .. N /\ k + 1 \in 0 .. N /\ k + 1 # 0 /\ (k + 1) - 1 = k
      BY <1>1
    <3>2. at[k + 1] = next(k + 1, at[k])
      BY <1>10, <3>1
    <3>3. at[k] \in V
      BY <2>2
    <3> QED
      BY <1>3, <3>1, <3>2, <3>3
  <2> HIDE DEF T
  <2> QED
    BY <1>1, <2>1, <2>2, UpTo DEF T
<1>12. at[N] \in V
  <2> HIDE DEF N
  <2>1. N \in 0 .. N
    BY <1>1
  <2> QED
    BY <1>11, <2>1
<1> QED
  BY <1>9, <1>12 DEF V

LEMMA ValueOwned ==
  ASSUME NEW H, Forest(H), NEW n \in Reached(H), NEW object \in JtObjects, object.type \in {"STRING", "INTEGER"},
         NEW G, G = WithObject(cleanup(H, n), n, object)
  PROVE  Forest(G) /\ (Reached(H) = DOMAIN H => Reached(G) = DOMAIN G)
<1> DEFINE C == cleanup(H, n)
<1>1. n \in DOMAIN H
  BY ReachedIs
<1>2. /\ n \in DOMAIN C /\ C[n].type = "UNKNOWN" /\ Forest(C)
      /\ Reached(H) = DOMAIN H => Reached(C) = DOMAIN C
  <2> HIDE DEF C
  <2>1. C = cleanup(H, n)
    BY DEF C
  <2>2. n \in DOMAIN C /\ C[n].type = "UNKNOWN" /\ Forest(C)
    <3>1. CleanedTo(H, n, C)
      BY <1>1, <2>1, CleanedIs
    <3> QED
      BY <3>1 DEF CleanedTo
  <2>3. Reached(H) = DOMAIN H => Reached(C) = DOMAIN C
    BY <2>1, CleanedReached
  <2> QED
    BY <2>2, <2>3
<1> HIDE DEF C
<1>3. G = [m \in DOMAIN C \cup {n} |-> IF m = n THEN object ELSE C[m]]
  BY DEF WithObject, C
<1>4. DOMAIN G = DOMAIN C /\ G[n] = object /\ \A m \in DOMAIN C \ {n} : G[m] = C[m]
  BY <1>2, <1>3
<1>5. JtTyped(G)
  <2>1. JtTyped(C)
    BY <1>2 DEF Forest
  <2>2. \A m \in DOMAIN C : G[m] \in JtObjects /\ (G[m].type = "UNKNOWN" => G[m].content = <<>>)
    <3>1. \A m \in DOMAIN C : C[m] \in JtObjects /\ (C[m].type = "UNKNOWN" => C[m].content = <<>>)
      BY <2>1 DEF JtTyped
    <3> QED
      BY <1>4, <3>1
  <2>3. G \in [DOMAIN C -> JtObjects]
    BY <1>2, <1>3, <1>4, <2>2
  <2> QED
    BY <1>4, <2>1, <2>2, <2>3 DEF JtTyped
<1>6. \A m, i, x : Holds(G, m, i, x) <=> Holds(C, m, i, x)
  <2>1. ~HasObjects(G[n].type) /\ ~HasObjects(C[n].type)
    BY <1>2, <1>4 DEF HasObjects
  <2> QED
    BY <1>4, <2>1 DEF Holds
<1> QED
  BY <1>2, <1>4, <1>5, <1>6, SameHeld

\* The content of one object becomes that of another.
Moved(H, G, left, right) ==
  \A m, i, x : Holds(G, m, i, x) <=> \/ m # left /\ m # right /\ Holds(H, m, i, x)
                                     \/ m = left /\ Holds(H, right, i, x)

LEMMA MovedOwned ==
  ASSUME NEW H, Forest(H), NEW left \in DOMAIN H, NEW right \in DOMAIN H, left # right,
         ~HasObjects(H[left].type),
         NEW G, JtTyped(G), DOMAIN G = DOMAIN H, Moved(H, G, left, right)
  PROVE  /\ Forest(G)
         /\ left \notin Tree(H, right) /\ Reached(H) = DOMAIN H => Reached(G) = DOMAIN G
<1> USE DEF Moved
<1>1. Forest(G)
  <2>1. ASSUME NEW m, NEW i, NEW x, Holds(G, m, i, x)
        PROVE  x \in DOMAIN G \ JtRoots /\ \A k, j : Holds(G, k, j, x) => k = m /\ j = i
    <3>1. PICK p : Holds(H, p, i, x) /\ (m = left <=> p = right) /\ (m # left => m = p)
      BY <2>1
    <3>2. x \in DOMAIN G \ JtRoots
      BY <3>1 DEF Forest, JtOwned
    <3>3. ASSUME NEW k, NEW j, Holds(G, k, j, x) PROVE k = m /\ j = i
      <4>1. PICK q : Holds(H, q, j, x) /\ (k = left <=> q = right) /\ (k # left => k = q)
        BY <3>3
      <4>2. q = p /\ j = i
        BY <3>1, <4>1 DEF Forest, JtOwned
      <4> QED
        BY <3>1, <4>1, <4>2
    <3> QED
      BY <3>2, <3>3
  <2> QED
    BY <2>1 DEF Forest, JtOwned
<1>2. ASSUME left \notin Tree(H, right), Reached(H) = DOMAIN H PROVE Reached(G) = DOMAIN G
  <2> DEFINE S == Reached(G) \cup Tree(H, right)
  <2>1. /\ JtRoots \subseteq Reached(G) /\ Reached(G) \subseteq DOMAIN G /\ ClosedUnder(G, Reached(G))
    BY <1>1, ReachedIs
  <2>2. /\ right \in Tree(H, right) /\ ClosedUnder(H, Tree(H, right))
    BY ForestKept, TreeIs
  <2>3. \A m \in DOMAIN H : m # left /\ m # right => Children(H, m) = Children(G, m)
    <3> TAKE m \in DOMAIN H
    <3> HAVE m # left /\ m # right
    <3>1. \A i, x : Holds(G, m, i, x) <=> Holds(H, m, i, x)
      OBVIOUS
    <3>2. \A x : x \in Children(H, m) <=> \E i : Holds(H, m, i, x)
      BY ChildrenAre
    <3>3. \A x : x \in Children(G, m) <=> \E i : Holds(G, m, i, x)
      BY ChildrenAre
    <3>4. \A x : x \in Children(H, m) <=> x \in Children(G, m)
      BY <3>1, <3>2, <3>3
    <3> HIDE DEF Children
    <3> QED
      BY <3>4
  <2>4. Children(H, left) = {} /\ Children(H, right) \subseteq Children(G, left)
    <3>1. \A i, x : Holds(H, right, i, x) => Holds(G, left, i, x)
      OBVIOUS
    <3>2. \A i, x : ~ Holds(H, left, i, x)
      BY DEF Holds
    <3>3. \A x : x \notin Children(H, left)
      BY <3>2, ChildrenAre
    <3>4. \A x \in Children(H, right) : x \in Children(G, left)
      <4> TAKE x \in Children(H, right)
      <4>1. PICK i : Holds(H, right, i, x)
        BY ChildrenAre
      <4>2. Holds(G, left, i, x)
        BY <3>1, <4>1
      <4> QED
        BY <4>2, ChildrenAre
    <3> QED
      BY <3>3, <3>4
  <2>5. ClosedUnder(H, S)
    <3> SUFFICES ASSUME NEW m \in S, m \in DOMAIN H, NEW c \in Children(H, m) PROVE c \in S
      BY DEF ClosedUnder
    <3>1. CASE m \in Tree(H, right)
      BY <2>2, <3>1 DEF ClosedUnder
    <3>2. CASE m \notin Tree(H, right)
      <4>1. m # left /\ m # right /\ m \in Reached(G)
        BY <2>2, <2>4, <3>2
      <4> QED
        BY <2>1, <2>3, <4>1 DEF ClosedUnder
    <3> QED
      BY <3>1, <3>2
  <2>6. Reached(H) \subseteq S
    <3>1. JtRoots \subseteq S
      BY <2>1
    <3> HIDE DEF S
    <3> QED
      BY <2>5, <3>1, ReachedIs
  <2>7. left \in Reached(G)
    BY <1>2, <2>6
  <2>8. ClosedUnder(H, Reached(G))
    <3> SUFFICES ASSUME NEW m \in Reached(G), m \in DOMAIN H, NEW c \in Children(H, m) PROVE c \in Reached(G)
      BY DEF ClosedUnder
    <3>1. CASE m = right
      BY <2>1, <2>4, <2>7, <3>1 DEF ClosedUnder
    <3>2. CASE m # right
      BY <2>1, <2>3, <2>4, <3>2 DEF ClosedUnder
    <3> QED
      BY <3>1, <3>2
  <2>9. Reached(H) \subseteq Reached(G)
    BY <2>1, <2>8, ReachedIs
  <2> QED
    BY <1>2, <2>1, <2>9
<1> QED
  BY <1>1, <1>2

\* left becomes the object, which was right.
TakenOver(C, left, right, object) ==
  [C EXCEPT ![left].type = object.type, ![left].content = object.content,
            ![right].type = "UNKNOWN", ![right].content = <<>>]

LEMMA MoveOwned ==
  ASSUME NEW H, Forest(H), NEW left \in Reached(H), NEW right \in Reached(H), left # right,
         NEW C, C = cleanup(H, left), right \in DOMAIN C
  PROVE  /\ Forest(TakenOver(C, left, right, H[right]))
         /\ left \notin Below(H, right) /\ Reached(H) = DOMAIN H =>
              Reached(TakenOver(C, left, right, H[right])) = DOMAIN TakenOver(C, left, right, H[right])
<1> DEFINE G == [C EXCEPT ![left].type = H[right].type, ![left].content = H[right].content,
                          ![right].type = "UNKNOWN", ![right].content = <<>>]
<1>1. left \in DOMAIN H /\ right \in DOMAIN H
  BY ReachedIs
<1>2. /\ left \in DOMAIN C /\ C[left].type = "UNKNOWN" /\ Forest(C)
      /\ \A m \in DOMAIN C \ {left} : C[m] = H[m]
      /\ \A m, i, n : Holds(C, m, i, n) <=> Holds(H, m, i, n) /\ m \in DOMAIN C /\ m # left
      /\ DOMAIN C \subseteq DOMAIN H
  <2>1. CleanedTo(H, left, C)
    BY <1>1, CleanedIs
  <2> QED
    BY <1>1, <2>1 DEF CleanedTo
<1>3. Reached(H) = DOMAIN H => Reached(C) = DOMAIN C
  BY CleanedReached
<1> DEFINE taken == [C[left] EXCEPT !.type = H[right].type, !.content = H[right].content]
           empty == [C[right] EXCEPT !.type = "UNKNOWN", !.content = <<>>]
<1>4. C[right] = H[right]
  BY <1>2
<1>5. /\ C[left] \in [type : JtTypes, content : Seq(JtEntries), readonly : BOOLEAN]
      /\ C[right] \in [type : JtTypes, content : Seq(JtEntries), readonly : BOOLEAN]
      /\ C[right].type \in JtTypes /\ C[right].content \in Seq(JtEntries)
      /\ C[right].type = "UNKNOWN" => C[right].content = <<>>
      /\ "UNKNOWN" \in JtTypes /\ <<>> \in Seq(JtEntries)
  BY <1>2, ObjectIs DEF JtTypes
<1>6. /\ taken \in JtObjects /\ taken.type = C[right].type /\ taken.content = C[right].content
      /\ empty \in JtObjects /\ empty.type = "UNKNOWN" /\ empty.content = <<>>
  BY <1>4, <1>5, ObjectChanges DEF JtObjects
<1>7. /\ DOMAIN G = DOMAIN C /\ G[left] = taken /\ G[right] = empty
      /\ \A m \in DOMAIN C \ {left, right} : G[m] = C[m]
      /\ G \in [DOMAIN C -> JtObjects]
  <2>1. G = [[C EXCEPT ![left] = taken] EXCEPT ![right] = empty]
    BY <1>2
  <2> HIDE DEF taken, empty
  <2>2. C \in [DOMAIN C -> JtObjects]
    BY <1>2 DEF Forest, JtTyped
  <2> QED
    BY <1>2, <1>6, <2>1, <2>2
<1> HIDE DEF taken, empty, G
<1>8. JtTyped(G)
  <2>1. JtTyped(C)
    BY <1>2 DEF Forest
  <2>2. \A m \in DOMAIN C : G[m].type = "UNKNOWN" => G[m].content = <<>>
    <3> TAKE m \in DOMAIN C
    <3>1. C[m].type = "UNKNOWN" => C[m].content = <<>>
      BY <2>1 DEF JtTyped
    <3>2. CASE m = left
      BY <1>5, <1>6, <1>7, <3>2
    <3>3. CASE m = right
      BY <1>6, <1>7, <3>3
    <3>4. CASE m \notin {left, right}
      BY <1>7, <3>1, <3>4
    <3> QED
      BY <3>2, <3>3, <3>4
  <2> QED
    BY <1>7, <2>1, <2>2 DEF JtTyped
<1>9. Moved(C, G, left, right)
  <2>1. \A i, x : Holds(G, left, i, x) <=> Holds(C, right, i, x)
    BY <1>2, <1>6, <1>7 DEF Holds
  <2>2. \A i, x : ~ Holds(G, right, i, x)
    BY <1>6, <1>7 DEF Holds, HasObjects
  <2>3. \A m, i, x : m # left /\ m # right => (Holds(G, m, i, x) <=> Holds(C, m, i, x))
    BY <1>7 DEF Holds
  <2> QED
    BY <2>1, <2>2, <2>3, Zenon DEF Moved
<1>10. ~HasObjects(C[left].type)
  BY <1>2 DEF HasObjects
<1>11. Forest(G) /\ (left \notin Tree(C, right) /\ Reached(C) = DOMAIN C => Reached(G) = DOMAIN G)
  <2>1. /\ Forest(C) /\ left \in DOMAIN C /\ right \in DOMAIN C /\ left # right
        /\ ~HasObjects(C[left].type) /\ JtTyped(G) /\ DOMAIN G = DOMAIN C /\ Moved(C, G, left, right)
    BY <1>2, <1>7, <1>8, <1>9, <1>10
  <2> QED
    BY <2>1, MovedOwned
<1>12. Tree(C, right) \subseteq Tree(H, right)
  <2>1. right \in Tree(H, right) /\ ClosedUnder(H, Tree(H, right))
    BY <1>1, ForestKept, TreeIs
  <2>2. ClosedUnder(C, Tree(H, right))
    <3> SUFFICES ASSUME NEW m \in Tree(H, right), m \in DOMAIN C, NEW c \in Children(C, m) PROVE c \in Tree(H, right)
      BY DEF ClosedUnder
    <3>1. m \in DOMAIN H /\ c \in Children(H, m)
      BY <1>2, ChildrenAre
    <3> QED
      BY <2>1, <3>1 DEF ClosedUnder
  <2> QED
    BY <1>2, <2>1, <2>2, ForestKept, TreeIs
<1> QED
  BY <1>3, <1>11, <1>12 DEF Below, G, TakenOver

LEMMA ObjectCopies ==
  ASSUME NEW A, NEW B, NEW o \in [type : A, content : B, readonly : BOOLEAN], NEW c \in B
  PROVE  /\ [o EXCEPT !.readonly = FALSE, !.content = c] \in [type : A, content : B, readonly : BOOLEAN]
         /\ [o EXCEPT !.readonly = FALSE, !.content = c].type = o.type
         /\ [o EXCEPT !.readonly = FALSE, !.content = c].content = c
  OBVIOUS

\* A copy has the places of its object, with the copies of their members.
CopyOf(object, copy, new) ==
  /\ copy \in JtObjects /\ copy.type = object.type
  /\ copy.type = "UNKNOWN" => copy.content = <<>>
  /\ HasObjects(copy.type) =>
       /\ DOMAIN copy.content = DOMAIN object.content
       /\ \A i \in DOMAIN object.content : copy.content[i].value = new[object.content[i].value]

LEMMA EntriesCopied ==
  ASSUME NEW s \in Seq(JtEntries), NEW new, \A i \in DOMAIN s : new[s[i].value] \in Nat
  PROVE  LET c == [i \in DOMAIN s |-> [key |-> s[i].key, value |-> new[s[i].value]]]
         IN c \in Seq(JtEntries) /\ DOMAIN c = DOMAIN s /\ \A i \in DOMAIN s : c[i].value = new[s[i].value]
<1> DEFINE c == [i \in DOMAIN s |-> [key |-> s[i].key, value |-> new[s[i].value]]]
<1>1. DOMAIN s = 1 .. Len(s) /\ Len(s) \in Nat
  OBVIOUS
<1>2. \A i \in DOMAIN s : s[i] \in [key : JtKeys, value : Nat]
  <2>1. \A i \in DOMAIN s : s[i] \in JtEntries
    OBVIOUS
  <2> QED
    BY <2>1 DEF JtEntries
<1>3. \A i \in DOMAIN s : [key |-> s[i].key, value |-> new[s[i].value]] \in JtEntries
  BY <1>2 DEF JtEntries
<1>4. c \in [1 .. Len(s) -> JtEntries]
  BY <1>1, <1>3
<1>5. c \in Seq(JtEntries)
  BY <1>1, <1>4
<1> QED
  BY <1>5

\* Below an object that is reached are the members of all there, and not the object.
LEMMA BelowHolds ==
  ASSUME NEW H, Forest(H), NEW n \in Reached(H), NEW m \in Tree(H, n), NEW i, NEW x, Holds(H, m, i, x)
  PROVE  x \in Below(H, n)
<1>1. n \in DOMAIN H
  BY ReachedIs
<1>2. m \in DOMAIN H /\ ClosedUnder(H, Tree(H, n))
  BY <1>1, ForestKept, TreeIs
<1>3. x \in Children(H, m)
  BY <1>2, ChildrenAre
<1>4. x \in Tree(H, n)
  BY <1>2, <1>3 DEF ClosedUnder
<1>5. x # n
  BY NoCircle
<1> QED
  BY <1>4, <1>5 DEF Below

LEMMA ObjectCopied ==
  ASSUME NEW H, Forest(H), NEW n \in Reached(H), NEW m \in Tree(H, n), NEW new \in [Below(H, n) -> Nat \ {0}]
  PROVE  CopyOf(H[m], [H[m] EXCEPT !.readonly = FALSE, !.content =
                         IF HasObjects(H[m].type)
                         THEN [i \in DOMAIN @ |-> [key |-> @[i].key, value |-> new[@[i].value]]]
                         ELSE @], new)
<1> DEFINE s == H[m].content
           c == IF HasObjects(H[m].type)
                THEN [i \in DOMAIN s |-> [key |-> s[i].key, value |-> new[s[i].value]]] ELSE s
<1>1. m \in DOMAIN H
  BY ReachedIs, ForestKept, TreeIs
<1>2. /\ H[m] \in [type : JtTypes, content : Seq(JtEntries), readonly : BOOLEAN]
      /\ H[m].content \in Seq(JtEntries)
      /\ H[m].type = "UNKNOWN" => H[m].content = <<>>
  BY <1>1, ObjectIs
<1>3. HasObjects(H[m].type) => \A i \in DOMAIN s : new[s[i].value] \in Nat
  <2> SUFFICES ASSUME HasObjects(H[m].type), NEW i \in DOMAIN s PROVE new[s[i].value] \in Nat
    OBVIOUS
  <2>1. Holds(H, m, i, s[i].value)
    BY <1>1 DEF Holds
  <2>2. s[i].value \in Below(H, n)
    BY <2>1, BelowHolds
  <2> QED
    BY <2>2
<1>4. /\ c \in Seq(JtEntries)
      /\ HasObjects(H[m].type) => DOMAIN c = DOMAIN s /\ \A i \in DOMAIN s : c[i].value = new[s[i].value]
      /\ ~HasObjects(H[m].type) => c = s
  <2>1. CASE HasObjects(H[m].type)
    <3>1. c = [i \in DOMAIN s |-> [key |-> s[i].key, value |-> new[s[i].value]]]
      BY <2>1
    <3>2. s \in Seq(JtEntries) /\ \A i \in DOMAIN s : new[s[i].value] \in Nat
      BY <1>2, <1>3, <2>1
    <3> HIDE DEF s, c
    <3> QED
      BY <2>1, <3>1, <3>2, EntriesCopied
  <2>2. CASE ~HasObjects(H[m].type)
    BY <1>2, <2>2
  <2> QED
    BY <2>1, <2>2
<1>5. [H[m] EXCEPT !.readonly = FALSE, !.content =
         IF HasObjects(H[m].type)
         THEN [i \in DOMAIN @ |-> [key |-> @[i].key, value |-> new[@[i].value]]]
         ELSE @] = [H[m] EXCEPT !.readonly = FALSE, !.content = c]
  OBVIOUS
<1> HIDE DEF c
<1> DEFINE copy == [H[m] EXCEPT !.readonly = FALSE, !.content = c]
<1>6. copy \in JtObjects /\ copy.type = H[m].type /\ copy.content = c
  BY <1>2, <1>4, ObjectCopies DEF JtObjects
<1> HIDE DEF copy
<1>7. copy.type = "UNKNOWN" => copy.content = <<>>
  <2>1. "UNKNOWN" = H[m].type => ~HasObjects(H[m].type)
    BY DEF HasObjects
  <2> QED
    BY <1>2, <1>4, <1>6, <2>1
<1>8. CopyOf(H[m], copy, new)
  BY <1>4, <1>6, <1>7 DEF CopyOf
<1> QED
  BY <1>5, <1>8 DEF copy

\* What the copy of the tree of n leaves on the heap: new gives each object below n its copy.
CopiedTo(H, n, K, top, new) ==
  /\ new \in [Below(H, n) -> Nat \ {0}] /\ \A o \in Below(H, n) : new[o] \notin DOMAIN H
  /\ \A o, p \in Below(H, n) : new[o] = new[p] => o = p
  /\ DOMAIN K = DOMAIN H \cup {new[o] : o \in Below(H, n)} /\ K \in [DOMAIN K -> JtObjects]
  /\ \A m \in DOMAIN H : K[m] = H[m]
  /\ \A o \in Below(H, n) : CopyOf(H[o], K[new[o]], new)
  /\ CopyOf(H[n], top, new)

LEMMA CopyIs ==
  ASSUME NEW H, Forest(H), NEW n \in Reached(H)
  PROVE  \E new : CopiedTo(H, n, Copy(H, n).heap, Copy(H, n).top, new)
<1> DEFINE old == Below(H, n)
           count == Cardinality(old)
           new == [m \in old |-> Nth(FreeNodes(H, count), Rank(old, m))]
           copied(m) == [H[m] EXCEPT !.readonly = FALSE, !.content =
                          IF HasObjects(H[m].type)
                          THEN [i \in DOMAIN @ |-> [key |-> @[i].key, value |-> new[@[i].value]]]
                          ELSE @]
           copies == {new[m] : m \in old}
           K == [m \in DOMAIN H \cup copies |->
                   IF m \in copies THEN copied(CHOOSE o \in old : new[o] = m) ELSE H[m]]
<1>1. n \in DOMAIN H /\ n \in Tree(H, n) /\ Tree(H, n) \subseteq DOMAIN H
  BY ReachedIs, ForestKept, TreeIs
<1>2. old \subseteq Tree(H, n) /\ old \in SUBSET Nat /\ IsFiniteSet(old) /\ count \in Nat
  <2>1. old \subseteq DOMAIN H /\ old \subseteq Tree(H, n)
    BY <1>1 DEF Below
  <2>2. DOMAIN H \subseteq Nat /\ IsFiniteSet(DOMAIN H)
    BY DEF Forest, JtTyped
  <2> HIDE DEF old
  <2> QED
    BY <2>1, <2>2, FS_Subset, FS_CardinalityType
<1>3. Copy(H, n).heap = K /\ Copy(H, n).top = copied(n)
  BY DEF Copy
<1> HIDE DEF old
<1>4. /\ \A x \in old : Rank(old, x) \in 1 .. count
      /\ \A x, y \in old : Rank(old, x) = Rank(old, y) => x = y
  BY <1>2, RanksAre
<1> HIDE DEF count
<1>5. /\ \A i \in 1 .. count : Nth(FreeNodes(H, count), i) \in Nat \ {0}
                               /\ Nth(FreeNodes(H, count), i) \notin DOMAIN H
      /\ \A i, j \in 1 .. count : Nth(FreeNodes(H, count), i) = Nth(FreeNodes(H, count), j) => i = j
  <2>1. JtTyped(H)
    BY DEF Forest
  <2> QED
    BY <1>2, <2>1, FreshNodes
<1>6. /\ \A x \in old : new[x] = Nth(FreeNodes(H, count), Rank(old, x))
      /\ new = [x \in old |-> new[x]]
  OBVIOUS
<1> HIDE DEF new
<1>7. /\ \A x \in old : new[x] \in Nat \ {0} /\ new[x] \notin DOMAIN H
      /\ \A x, y \in old : new[x] = new[y] => x = y
  BY <1>4, <1>5, <1>6
<1>8. new \in [old -> Nat \ {0}]
  BY <1>6, <1>7
<1>9. \A m \in Tree(H, n) : CopyOf(H[m], copied(m), new)
  BY <1>8, ObjectCopied DEF old
<1> HIDE DEF copied
<1>10. \A o \in old : K[new[o]] = copied(o)
  <2> TAKE o \in old
  <2>1. new[o] \in copies
    OBVIOUS
  <2>2. (CHOOSE p \in old : new[p] = new[o]) = o
    BY <1>7
  <2> HIDE DEF copies
  <2> QED
    BY <2>1, <2>2
<1>11. DOMAIN K = DOMAIN H \cup copies /\ \A m \in DOMAIN H : K[m] = H[m]
  BY <1>7
<1>12. K \in [DOMAIN K -> JtObjects]
  <2>1. \A m \in DOMAIN H : H[m] \in JtObjects
    BY DEF Forest, JtTyped
  <2>2. \A o \in old : K[new[o]] \in JtObjects
    BY <1>2, <1>9, <1>10 DEF CopyOf
  <2>3. \A m \in DOMAIN K : K[m] \in JtObjects
    <3> HIDE DEF K
    <3> QED
      BY <1>11, <2>1, <2>2
  <2>4. K = [m \in DOMAIN K |-> K[m]]
    OBVIOUS
  <2> HIDE DEF K
  <2> QED
    BY <2>3, <2>4
<1> HIDE DEF K
<1>13. CopiedTo(H, n, K, copied(n), new)
  <2>1. \A o \in old : CopyOf(H[o], K[new[o]], new)
    BY <1>2, <1>9, <1>10
  <2> QED
    BY <1>1, <1>7, <1>8, <1>9, <1>11, <1>12, <2>1 DEF CopiedTo, old
<1> QED
  BY <1>3, <1>13

\* The places of the copies.
PlacesCopied(H, n, K, new) ==
  /\ \A m \in DOMAIN H : \A i, x : Holds(K, m, i, x) <=> Holds(H, m, i, x)
  /\ \A o \in Below(H, n) : \A i, x : Holds(K, new[o], i, x) <=> \E y : x = new[y] /\ Holds(H, o, i, y)

LEMMA CopyPlaces ==
  ASSUME NEW H, Forest(H), NEW n \in Reached(H), NEW K, NEW top, NEW new, CopiedTo(H, n, K, top, new)
  PROVE  PlacesCopied(H, n, K, new) /\ Below(H, n) \subseteq DOMAIN H
<1>1. n \in DOMAIN H /\ Below(H, n) \subseteq DOMAIN H /\ Below(H, n) \subseteq Tree(H, n)
  BY ReachedIs, ForestKept, TreeIs DEF Below
<1>2. ASSUME NEW m \in DOMAIN H PROVE \A i, x : Holds(K, m, i, x) <=> Holds(H, m, i, x)
  <2>1. K[m] = H[m] /\ m \in DOMAIN K
    BY DEF CopiedTo
  <2> QED
    BY <2>1 DEF Holds
<1>3. ASSUME NEW o \in Below(H, n)
      PROVE  \A i, x : Holds(K, new[o], i, x) <=> \E y : x = new[y] /\ Holds(H, o, i, y)
  <2>1. CopyOf(H[o], K[new[o]], new) /\ new[o] \in DOMAIN K /\ o \in DOMAIN H
    BY <1>1 DEF CopiedTo
  <2> QED
    BY <2>1 DEF Holds, CopyOf
<1> QED
  BY <1>1, <1>2, <1>3 DEF PlacesCopied

LEMMA CopyForest ==
  ASSUME NEW H, Forest(H), NEW n \in Reached(H), NEW K, NEW top, NEW new, CopiedTo(H, n, K, top, new)
  PROVE  Forest(K)
<1> DEFINE old == Below(H, n)
           copies == {new[o] : o \in old}
<1>1. PlacesCopied(H, n, K, new) /\ old \subseteq DOMAIN H /\ old \subseteq Tree(H, n)
  BY CopyPlaces DEF Below
<1>2. /\ new \in [old -> Nat \ {0}] /\ \A o \in old : new[o] \notin DOMAIN H
      /\ \A o, p \in old : new[o] = new[p] => o = p
      /\ DOMAIN K = DOMAIN H \cup copies /\ K \in [DOMAIN K -> JtObjects]
      /\ \A m \in DOMAIN H : K[m] = H[m]
      /\ \A o \in old : CopyOf(H[o], K[new[o]], new)
  BY DEF CopiedTo
<1>3. JtTyped(H)
  BY DEF Forest
<1>4. \A o \in old : \A i, y : Holds(H, o, i, y) => y \in old
  BY <1>1, BelowHolds
<1>9. \A b \in old : \A a, c : Holds(K, new[b], a, c) => \E w : c = new[w] /\ Holds(H, b, a, w)
  <2> TAKE b \in old
  <2> TAKE a, c
  <2>1. Holds(K, new[b], a, c) <=> \E w : c = new[w] /\ Holds(H, b, a, w)
    BY <1>1, Zenon DEF PlacesCopied
  <2> QED
    BY <2>1, Zenon
<1> HIDE DEF old
<1>5. IsFiniteSet(copies) /\ copies \subseteq Nat \ {0}
  <2>1. IsFiniteSet(old)
    BY <1>1, <1>3, FS_Subset DEF JtTyped
  <2>2. IsFiniteSet(copies)
    <3>1. new \in [old -> Nat \ {0}]
      BY <1>2
    <3> QED
      BY <2>1, <3>1, ImageFinite
  <2> QED
    BY <1>2, <2>2
<1>6. \A m \in DOMAIN K : m \in DOMAIN H \/ \E o \in old : m = new[o]
  BY <1>2
<1>7. JtTyped(K)
  <2>1. \A m \in DOMAIN K : K[m].type = "UNKNOWN" => K[m].content = <<>>
    <3> TAKE m \in DOMAIN K
    <3>1. CASE m \in DOMAIN H
      BY <1>2, <1>3, <3>1 DEF JtTyped
    <3>2. CASE m \in copies
      <4>1. PICK o \in old : m = new[o]
        BY <3>2
      <4> QED
        BY <1>2, <4>1 DEF CopyOf
    <3> QED
      BY <1>2, <3>1, <3>2
  <2>2. IsFiniteSet(DOMAIN K) /\ DOMAIN K \subseteq Nat \ {0} /\ JtRoots \subseteq DOMAIN K
    <3> HIDE DEF copies
    <3>1. IsFiniteSet(DOMAIN H) /\ DOMAIN H \subseteq Nat \ {0} /\ JtRoots \subseteq DOMAIN H
      BY <1>3 DEF JtTyped
    <3>2. IsFiniteSet(DOMAIN H \cup copies)
      BY <1>5, <3>1, FS_Union
    <3> QED
      BY <1>2, <1>5, <3>1, <3>2
  <2> QED
    BY <1>2, <2>1, <2>2 DEF JtTyped
<1>8. ASSUME NEW m, NEW i, NEW x, Holds(K, m, i, x)
      PROVE  x \in DOMAIN K \ JtRoots /\ \A k, j : Holds(K, k, j, x) => k = m /\ j = i
  <2>1. m \in DOMAIN K
    BY <1>8 DEF Holds
  <2>2. CASE m \in DOMAIN H
    <3>1. Holds(H, m, i, x)
      BY <1>1, <1>8, <2>2 DEF PlacesCopied
    <3>2. x \in DOMAIN H \ JtRoots /\ \A k, j : Holds(H, k, j, x) => k = m /\ j = i
      BY <3>1 DEF Forest, JtOwned
    <3>3. ASSUME NEW k, NEW j, Holds(K, k, j, x) PROVE k = m /\ j = i
      <4>1. k \in DOMAIN K
        BY <3>3 DEF Holds
      <4>2. CASE k \in DOMAIN H
        BY <1>1, <3>2, <3>3, <4>2 DEF PlacesCopied
      <4>3. CASE \E o \in old : k = new[o]
        <5>1. PICK o \in old : k = new[o]
          BY <4>3
        <5>2. Holds(K, new[o], j, x)
          BY <3>3, <5>1, Zenon
        <5>3. PICK y : x = new[y] /\ Holds(H, o, j, y)
          BY <1>9, <5>2
        <5> QED
          BY <1>2, <1>4, <3>2, <5>3
      <4> QED
        BY <1>6, <4>1, <4>2, <4>3
    <3> QED
      BY <1>2, <3>2, <3>3
  <2>3. CASE \E o \in old : m = new[o]
    <3>1. PICK o \in old : m = new[o]
      BY <2>3
    <3>2. PICK y : Holds(H, o, i, y) /\ x = new[y]
      <4>1. Holds(K, new[o], i, x) <=> \E y : x = new[y] /\ Holds(H, o, i, y)
        BY <1>1 DEF PlacesCopied, old
      <4> QED
        BY <1>8, <3>1, <4>1
    <3>3. y \in old /\ \A k, j : Holds(H, k, j, y) => k = o /\ j = i
      BY <1>4, <3>2 DEF Forest, JtOwned
    <3>4. x \in copies /\ x \notin DOMAIN H
      BY <1>2, <3>2, <3>3
    <3>5. ASSUME NEW k, NEW j, Holds(K, k, j, x) PROVE k = m /\ j = i
      <4>1. k \in DOMAIN K
        BY <3>5 DEF Holds
      <4>2. k \notin DOMAIN H
        <5> SUFFICES ASSUME k \in DOMAIN H PROVE FALSE
          OBVIOUS
        <5>1. Holds(H, k, j, x)
          BY <1>1, <3>5 DEF PlacesCopied
        <5> QED
          BY <3>4, <5>1 DEF Forest, JtOwned
      <4>3. PICK p \in old : k = new[p]
        BY <1>6, <4>1, <4>2
      <4>4. PICK z : Holds(H, p, j, z) /\ x = new[z]
        <5>1. Holds(K, new[p], j, x)
          BY <3>5, <4>3, Zenon
        <5> QED
          BY <1>9, <5>1
      <4>5. z = y
        BY <1>2, <1>4, <3>2, <3>3, <4>4
      <4> QED
        BY <3>1, <3>3, <4>3, <4>4, <4>5
    <3>6. x \notin JtRoots
      BY <1>3, <3>4 DEF JtTyped
    <3> QED
      BY <1>2, <3>4, <3>5, <3>6
  <2> QED
    BY <1>6, <2>1, <2>2, <2>3
<1> QED
  BY <1>7, <1>8 DEF Forest, JtOwned

\* left becomes the copy of right, when the old members of left have gone.
Given(C, G, H, left, right, new) ==
  \A m, i, x : Holds(G, m, i, x) <=> \/ m # left /\ Holds(C, m, i, x)
                                     \/ m = left /\ \E y : x = new[y] /\ Holds(H, right, i, y)

LEMMA GivenForest ==
  ASSUME NEW H, Forest(H), NEW left \in Reached(H), NEW right \in Reached(H), left # right,
         NEW K, NEW top, NEW new, CopiedTo(H, right, K, top, new),
         NEW C, CleanedTo(K, left, C), DOMAIN C = DOMAIN K \ Below(H, left),
         NEW G, JtTyped(G), DOMAIN G = DOMAIN C, Given(C, G, H, left, right, new)
  PROVE  Forest(G)
<1> DEFINE old == Below(H, right)
<1>1. /\ \A o \in old : new[o] \notin DOMAIN H /\ new[o] \in DOMAIN K
      /\ \A o, p \in old : new[o] = new[p] => o = p
      /\ \A m \in DOMAIN K : m \in DOMAIN H \/ \E o \in old : m = new[o]
  BY DEF CopiedTo
<1>2. /\ \A m \in DOMAIN H : \A i, x : Holds(K, m, i, x) <=> Holds(H, m, i, x)
      /\ \A o \in old : \A i, x : Holds(K, new[o], i, x) <=> \E y : x = new[y] /\ Holds(H, o, i, y)
  <2>1. PlacesCopied(H, right, K, new)
    BY CopyPlaces
  <2> QED
    BY <2>1, Zenon DEF PlacesCopied
<1>3. /\ \A o \in old : \A i, y : Holds(H, o, i, y) => y \in old
      /\ \A i, y : Holds(H, right, i, y) => y \in old
      /\ right \notin old /\ Below(H, left) \subseteq DOMAIN H
  <2>1. right \in Tree(H, right) /\ Below(H, left) \subseteq DOMAIN H
    BY ReachedIs, ForestKept, TreeIs DEF Below
  <2>2. \A o \in old : o \in Tree(H, right) /\ o # right
    BY DEF Below
  <2> HIDE DEF old
  <2>3. ASSUME NEW o \in Tree(H, right), NEW i, NEW y, Holds(H, o, i, y) PROVE y \in old
    BY <2>3, BelowHolds DEF old
  <2> QED
    BY <2>1, <2>2, <2>3
<1>4. JtOwned(H) /\ JtRoots \subseteq DOMAIN H
  BY DEF Forest, JtTyped
<1>5. /\ \A m, i, x : Holds(C, m, i, x) <=> Holds(K, m, i, x) /\ m \in DOMAIN C /\ m # left
      /\ JtOwned(C) /\ DOMAIN C \subseteq DOMAIN K
  BY DEF CleanedTo, Forest
<1> HIDE DEF old
<1>6. ASSUME NEW m, NEW i, NEW j, NEW y, Holds(C, m, i, new[y]), Holds(H, right, j, y) PROVE FALSE
  <2>1. y \in old /\ new[y] \notin DOMAIN H
    BY <1>1, <1>3, <1>6
  <2>2. Holds(K, m, i, new[y]) /\ m \in DOMAIN K
    BY <1>5, <1>6
  <2>3. m \notin DOMAIN H
    <3> SUFFICES ASSUME m \in DOMAIN H PROVE FALSE
      OBVIOUS
    <3>1. Holds(H, m, i, new[y])
      BY <1>2, <2>2
    <3> QED
      BY <1>4, <2>1, <3>1 DEF JtOwned
  <2>4. PICK o \in old : m = new[o]
    BY <1>1, <2>2, <2>3
  <2>5. Holds(K, new[o], i, new[y])
    BY <2>2, <2>4, Zenon
  <2>6. PICK z : new[y] = new[z] /\ Holds(H, o, i, z)
    BY <1>2, <2>5
  <2>7. z = y
    BY <1>1, <1>3, <2>1, <2>6
  <2>8. o = right
    BY <1>4, <1>6, <2>6, <2>7 DEF JtOwned
  <2> QED
    BY <1>3, <2>8
<1>7. ASSUME NEW m, NEW i, NEW x, Holds(G, m, i, x)
      PROVE  x \in DOMAIN G \ JtRoots /\ \A k, j : Holds(G, k, j, x) => k = m /\ j = i
  <2>1. CASE m # left
    <3>1. Holds(C, m, i, x)
      BY <1>7, <2>1 DEF Given
    <3>2. x \in DOMAIN C \ JtRoots /\ \A k, j : Holds(C, k, j, x) => k = m /\ j = i
      BY <1>5, <3>1 DEF JtOwned
    <3>3. ASSUME NEW k, NEW j, Holds(G, k, j, x) PROVE k = m /\ j = i
      <4>1. CASE k # left
        <5>1. Holds(C, k, j, x)
          BY <3>3, <4>1 DEF Given
        <5> QED
          BY <3>2, <5>1
      <4>2. CASE k = left
        <5>1. PICK y : x = new[y] /\ Holds(H, right, j, y)
          BY <3>3, <4>2 DEF Given
        <5>2. Holds(C, m, i, new[y])
          BY <3>1, <5>1, Zenon
        <5> QED
          BY <1>6, <5>1, <5>2
      <4> QED
        BY <4>1, <4>2
    <3> QED
      BY <3>2, <3>3
  <2>2. CASE m = left
    <3>1. PICK y : x = new[y] /\ Holds(H, right, i, y)
      BY <1>7, <2>2 DEF Given
    <3>2. y \in old /\ x \notin DOMAIN H /\ x \in DOMAIN K
      BY <1>1, <1>3, <3>1
    <3>3. x \in DOMAIN G \ JtRoots
      BY <1>3, <1>4, <3>2
    <3>4. ASSUME NEW k, NEW j, Holds(G, k, j, x) PROVE k = m /\ j = i
      <4>1. CASE k # left
        <5>1. Holds(C, k, j, new[y])
          BY <3>1, <3>4, <4>1 DEF Given
        <5> QED
          BY <1>6, <3>1, <5>1
      <4>2. CASE k = left
        <5>1. PICK z : x = new[z] /\ Holds(H, right, j, z)
          BY <3>4, <4>2 DEF Given
        <5>2. z = y
          BY <1>1, <1>3, <3>1, <3>2, <5>1
        <5>3. j = i
          BY <1>4, <3>1, <5>1, <5>2 DEF JtOwned
        <5> QED
          BY <2>2, <4>2, <5>3
      <4> QED
        BY <4>1, <4>2
    <3> QED
      BY <3>3, <3>4
  <2> QED
    BY <2>1, <2>2
<1> QED
  BY <1>7 DEF Forest, JtOwned

LEMMA GivenReached ==
  ASSUME NEW H, Forest(H), NEW left \in Reached(H), NEW right \in Reached(H), left # right,
         NEW K, NEW top, NEW new, CopiedTo(H, right, K, top, new),
         NEW C, CleanedTo(K, left, C), DOMAIN C = DOMAIN K \ Below(H, left),
         NEW G, Forest(G), DOMAIN G = DOMAIN C, Given(C, G, H, left, right, new),
         Reached(H) = DOMAIN H
  PROVE  Reached(G) = DOMAIN G
<1> DEFINE old == Below(H, right)
           D == cleanup(H, left)
           T == Reached(G)
<1>1. /\ \A o \in old : new[o] \notin DOMAIN H /\ new[o] \in DOMAIN K
      /\ \A m \in DOMAIN K : m \in DOMAIN H \/ \E o \in old : m = new[o]
      /\ DOMAIN H \subseteq DOMAIN K
  BY DEF CopiedTo
<1>2. /\ \A m \in DOMAIN H : \A i, x : Holds(K, m, i, x) <=> Holds(H, m, i, x)
      /\ \A o \in old : \A i, x : Holds(K, new[o], i, x) <=> \E y : x = new[y] /\ Holds(H, o, i, y)
  <2>1. PlacesCopied(H, right, K, new)
    BY CopyPlaces
  <2> QED
    BY <2>1 DEF PlacesCopied
<1>3. /\ \A o \in old : \A i, y : Holds(H, o, i, y) => y \in old
      /\ \A i, y : Holds(H, right, i, y) => y \in old
      /\ Tree(H, right) = {right} \cup old /\ Below(H, left) \subseteq DOMAIN H /\ right \in DOMAIN H /\ left \in DOMAIN H
  <2>1. right \in Tree(H, right) /\ Below(H, left) \subseteq DOMAIN H /\ right \in DOMAIN H /\ left \in DOMAIN H
    BY ReachedIs, ForestKept, TreeIs DEF Below
  <2>2. \A o \in old : o \in Tree(H, right) /\ o # right
    BY DEF Below
  <2>3. Tree(H, right) = {right} \cup old
    BY <2>1 DEF Below
  <2> HIDE DEF old
  <2>4. ASSUME NEW o \in Tree(H, right), NEW i, NEW y, Holds(H, o, i, y) PROVE y \in old
    BY <2>4, BelowHolds DEF old
  <2> QED
    BY <2>1, <2>2, <2>3, <2>4
<1>4. \A m, i, x : Holds(C, m, i, x) <=> Holds(K, m, i, x) /\ m \in DOMAIN C /\ m # left
  BY DEF CleanedTo
<1>5. CleanedTo(H, left, D) /\ Reached(D) = DOMAIN D
  <2> HIDE DEF D
  <2>1. D = cleanup(H, left)
    BY DEF D
  <2>2. CleanedTo(H, left, D)
    BY <1>3, <2>1, CleanedIs
  <2>3. Reached(D) = DOMAIN D
    BY <2>1, CleanedReached
  <2> QED
    BY <2>2, <2>3
<1> HIDE DEF old, D
<1>6. /\ DOMAIN D = DOMAIN H \ Below(H, left) /\ Forest(D) /\ left \in DOMAIN D
      /\ \A m, i, x : Holds(D, m, i, x) <=> Holds(H, m, i, x) /\ m \in DOMAIN D /\ m # left
  BY <1>5 DEF CleanedTo, Below
<1>7. JtRoots \subseteq T /\ T \subseteq DOMAIN G /\ ClosedUnder(G, T)
  BY ReachedIs
<1> HIDE DEF T
<1>8. ClosedUnder(D, T)
  <2> SUFFICES ASSUME NEW m \in T, m \in DOMAIN D, NEW c \in Children(D, m) PROVE c \in T
    BY DEF ClosedUnder
  <2>1. PICK i : Holds(D, m, i, c)
    BY ChildrenAre
  <2>2. Holds(H, m, i, c) /\ m # left /\ m \in DOMAIN H /\ m \in DOMAIN C
    BY <1>1, <1>6, <2>1
  <2>3. Holds(C, m, i, c)
    BY <1>2, <1>4, <2>2
  <2>4. Holds(G, m, i, c)
    BY <2>2, <2>3 DEF Given
  <2>5. c \in Children(G, m) /\ m \in DOMAIN G
    BY <1>7, <2>4, ChildrenAre
  <2> QED
    BY <1>7, <2>5 DEF ClosedUnder
<1>9. DOMAIN D \subseteq T
  BY <1>5, <1>6, <1>7, <1>8, ReachedIs
<1> DEFINE S == {right} \cup {o \in old : new[o] \in T}
<1>10. ClosedUnder(H, S)
  <2> SUFFICES ASSUME NEW m \in S, m \in DOMAIN H, NEW c \in Children(H, m) PROVE c \in S
    BY DEF ClosedUnder
  <2>1. PICK i : Holds(H, m, i, c)
    BY ChildrenAre
  <2>2. c \in old
    BY <1>3, <2>1
  <2>3. new[c] \in T
    <3>1. CASE m = right
      <4>1. Holds(G, left, i, new[c])
        BY <2>1, <3>1 DEF Given
      <4>2. left \in T /\ left \in DOMAIN G /\ new[c] \in Children(G, left)
        BY <1>6, <1>7, <1>9, <4>1, ChildrenAre
      <4> QED
        BY <1>7, <4>2 DEF ClosedUnder
    <3>2. CASE m # right
      <4>1. m \in old /\ new[m] \in T
        BY <3>2
      <4>2. Holds(K, new[m], i, new[c])
        BY <1>2, <2>1, <4>1
      <4>3. new[m] \in DOMAIN C /\ new[m] # left
        BY <1>1, <1>3, <4>1
      <4>4. Holds(C, new[m], i, new[c])
        BY <1>4, <4>2, <4>3
      <4>5. Holds(G, new[m], i, new[c])
        BY <4>3, <4>4 DEF Given
      <4>6. new[m] \in DOMAIN G /\ new[c] \in Children(G, new[m])
        BY <4>3, <4>5, ChildrenAre
      <4> QED
        BY <1>7, <4>1, <4>6 DEF ClosedUnder
    <3> QED
      BY <3>1, <3>2
  <2> QED
    BY <2>2, <2>3
<1>11. Tree(H, right) \subseteq S
  <2>1. right \in S
    OBVIOUS
  <2> HIDE DEF S
  <2> QED
    BY <1>3, <1>10, <2>1, ForestKept, TreeIs
<1>12. \A o \in old : new[o] \in T
  <2>1. ASSUME NEW o \in old, o # right PROVE new[o] \in T
    BY <1>3, <1>11, <2>1
  <2>2. right \notin old
    BY DEF old, Below
  <2> QED
    BY <2>1, <2>2
<1>13. DOMAIN C \subseteq T
  <2> SUFFICES ASSUME NEW m \in DOMAIN C PROVE m \in T
    OBVIOUS
  <2>1. CASE m \in DOMAIN H
    BY <1>6, <1>9, <2>1
  <2>2. CASE m \notin DOMAIN H
    BY <1>1, <1>12, <2>2
  <2> QED
    BY <2>1, <2>2
<1> QED
  BY <1>7, <1>13 DEF T

GivenTo(C, left, object) == [C EXCEPT ![left].type = object.type, ![left].content = object.content]

LEMMA CopyOwned ==
  ASSUME NEW H, Forest(H), NEW left \in Reached(H), NEW right \in Reached(H), left # right,
         NEW K, NEW top, NEW new, CopiedTo(H, right, K, top, new)
  PROVE  /\ Forest(GivenTo(cleanup(K, left), left, top))
         /\ Reached(H) = DOMAIN H =>
              Reached(GivenTo(cleanup(K, left), left, top)) = DOMAIN GivenTo(cleanup(K, left), left, top)
<1> DEFINE C == cleanup(K, left)
           taken == [C[left] EXCEPT !.type = top.type, !.content = top.content]
           G == [C EXCEPT ![left].type = top.type, ![left].content = top.content]
<1>1. /\ left \in DOMAIN H /\ right \in DOMAIN H /\ DOMAIN H \subseteq DOMAIN K /\ Tree(H, left) \subseteq DOMAIN H
      /\ left \in Tree(H, left)
  BY ReachedIs, ForestKept, TreeIs DEF CopiedTo
<1>2. Forest(K)
  BY CopyForest
<1>3. Tree(K, left) = Tree(H, left)
  <2>1. PlacesCopied(H, right, K, new)
    BY CopyPlaces
  <2>2. \A m \in DOMAIN H : \A i, x : Holds(K, m, i, x) <=> Holds(H, m, i, x)
    BY <2>1 DEF PlacesCopied
  <2>3. ASSUME NEW m \in DOMAIN H PROVE Children(K, m) = Children(H, m)
    <3>1. \A x : x \in Children(H, m) <=> \E i : Holds(H, m, i, x)
      BY ChildrenAre
    <3>2. \A x : x \in Children(K, m) <=> \E i : Holds(K, m, i, x)
      BY <1>1, ChildrenAre
    <3>3. \A x : x \in Children(K, m) <=> x \in Children(H, m)
      BY <2>2, <3>1, <3>2
    <3> QED
      BY <3>3, Zenon
  <2> QED
    BY <1>1, <1>2, <2>3, ForestKept, TreeSame
<1>4. CleanedTo(K, left, C)
  <2> HIDE DEF C
  <2>1. C = cleanup(K, left)
    BY DEF C
  <2> QED
    BY <1>1, <1>2, <2>1, CleanedIs
<1> HIDE DEF C
<1>5. /\ DOMAIN C = DOMAIN K \ Below(H, left) /\ left \in DOMAIN C /\ Forest(C)
      /\ C[left].type = "UNKNOWN"
  BY <1>3, <1>4 DEF CleanedTo, Below
<1>6. CopyOf(H[right], top, new)
  BY DEF CopiedTo
<1>7. /\ taken \in JtObjects /\ taken.type = top.type /\ taken.content = top.content
  <2>1. C[left] \in [type : JtTypes, content : Seq(JtEntries), readonly : BOOLEAN]
    BY <1>5, ObjectIs
  <2>2. top.type \in JtTypes /\ top.content \in Seq(JtEntries)
    BY <1>6 DEF CopyOf, JtObjects
  <2> QED
    BY <2>1, <2>2, ObjectChanges DEF JtObjects
<1>8. /\ DOMAIN G = DOMAIN C /\ G[left] = taken /\ \A m \in DOMAIN C \ {left} : G[m] = C[m]
      /\ G \in [DOMAIN C -> JtObjects]
  <2>1. G = [C EXCEPT ![left] = taken]
    OBVIOUS
  <2> HIDE DEF taken, G
  <2>2. C \in [DOMAIN C -> JtObjects]
    BY <1>5 DEF Forest, JtTyped
  <2> QED
    BY <1>5, <1>7, <2>1, <2>2
<1> HIDE DEF taken, G
<1>9. JtTyped(G)
  <2>1. JtTyped(C)
    BY <1>5 DEF Forest
  <2>2. \A m \in DOMAIN C : G[m].type = "UNKNOWN" => G[m].content = <<>>
    <3> TAKE m \in DOMAIN C
    <3>1. C[m].type = "UNKNOWN" => C[m].content = <<>>
      BY <2>1 DEF JtTyped
    <3>2. CASE m = left
      BY <1>6, <1>7, <1>8, <3>2 DEF CopyOf
    <3>3. CASE m # left
      BY <1>8, <3>1, <3>3
    <3> QED
      BY <3>2, <3>3
  <2> QED
    BY <1>8, <2>1, <2>2 DEF JtTyped
<1>10. Given(C, G, H, left, right, new)
  <2>1. \A m, i, x : m # left => (Holds(G, m, i, x) <=> Holds(C, m, i, x))
    BY <1>8 DEF Holds
  <2>2. \A i, x : Holds(G, left, i, x) <=> \E y : x = new[y] /\ Holds(H, right, i, y)
    BY <1>1, <1>5, <1>6, <1>7, <1>8 DEF Holds, CopyOf
  <2>3. \A i, x : ~ Holds(C, left, i, x)
    BY <1>5 DEF Holds, HasObjects
  <2> SUFFICES ASSUME NEW m, NEW i, NEW x
               PROVE  Holds(G, m, i, x) <=> \/ m # left /\ Holds(C, m, i, x)
                                            \/ m = left /\ \E y : x = new[y] /\ Holds(H, right, i, y)
    BY Zenon DEF Given
  <2>4. CASE m = left
    BY <2>2, <2>4
  <2>5. CASE m # left
    BY <2>1, <2>5
  <2> QED
    BY <2>4, <2>5
<1>11. Forest(G)
  BY <1>4, <1>5, <1>8, <1>9, <1>10, GivenForest
<1>12. ASSUME Reached(H) = DOMAIN H PROVE Reached(G) = DOMAIN G
  <2>1. /\ CleanedTo(K, left, C) /\ DOMAIN C = DOMAIN K \ Below(H, left) /\ Forest(G)
        /\ DOMAIN G = DOMAIN C /\ Given(C, G, H, left, right, new) /\ CopiedTo(H, right, K, top, new)
    BY <1>4, <1>5, <1>8, <1>10, <1>11
  <2> QED
    BY <1>12, <2>1, GivenReached
<1> QED
  BY <1>11, <1>12 DEF C, G, GivenTo

(* Statements.                                                                 *)

JtInv ==
  /\ jtFault => jtAliased
  /\ ~jtFault => Forest(jtNode)
  /\ ~jtAliased => Reached(jtNode) = DOMAIN jtNode

\* What is reached is alive.
LEMMA LedReached ==
  ASSUME NEW H, NEW n, NEW R, NEW root \in JtRoots, Led(H, n, R, root)
  PROVE  Forest(R.heap) /\ (Reached(H) = DOMAIN H => Reached(R.heap) = DOMAIN R.heap) /\ R.node \in Reached(R.heap)
  BY DEF Led, Leads, Reached

LEMMA BothLeads ==
  ASSUME Forest(jtNode), NEW root \in JtRoots, NEW from \in JtRoots,
         NEW path \in MemberPaths, NEW fromPath \in MemberPaths,
         NEW R, R = Both(root, path, from, fromPath)
  PROVE  /\ Forest(R.heap) /\ (Reached(jtNode) = DOMAIN jtNode => Reached(R.heap) = DOMAIN R.heap)
         /\ R.thrown = "none" => R.left \in Reached(R.heap) /\ R.right \in Reached(R.heap)
<1> DEFINE right == Access(jtNode, from, fromPath)
           left == Access(right.heap, root, path)
<1>1. Led(jtNode, from, right, from)
  BY AccessLeads
<1>2. /\ Forest(right.heap) /\ (Reached(jtNode) = DOMAIN jtNode => Reached(right.heap) = DOMAIN right.heap)
      /\ right.node \in Reached(right.heap)
  BY <1>1, LedReached
<1>3. R = LET l == IF right.thrown # "none" THEN right ELSE left
          IN [heap |-> l.heap, thrown |-> l.thrown, left |-> l.node, right |-> right.node]
  BY DEF Both
<1> HIDE DEF right
<1>4. CASE right.thrown # "none"
  <2>1. R.heap = right.heap /\ R.thrown # "none"
    BY <1>3, <1>4
  <2> QED
    BY <1>2, <2>1
<1>5. CASE right.thrown = "none"
  <2>1. R.heap = left.heap /\ R.left = left.node /\ R.right = right.node
    BY <1>3, <1>5
  <2>2. Led(right.heap, root, left, root)
    BY <1>2, AccessLeads
  <2> HIDE DEF left
  <2>3. /\ Forest(left.heap) /\ (Reached(right.heap) = DOMAIN right.heap => Reached(left.heap) = DOMAIN left.heap)
        /\ left.node \in Reached(left.heap)
    BY <2>2, LedReached
  <2>4. right.node \in Reached(left.heap)
    BY <1>2, <2>2 DEF Led, Leads, Reached
  <2> QED
    BY <1>2, <2>1, <2>3, <2>4
<1> QED
  BY <1>4, <1>5

\* How a statement ends that neither uses what was freed nor assigns an object its own string.
LEMMA EndsWell ==
  ASSUME JtInv, NEW G, NEW a, Forest(G), ~jtAliased /\ ~a => Reached(G) = DOMAIN G,
         NEW R, R.heap = G, Ends(R, FALSE, a)
  PROVE  JtInv'
<1>1. jtNode' = G /\ ~jtFault' /\ (~jtAliased' => ~jtAliased /\ ~a)
  BY DEF Ends
<1>2. Forest(jtNode') /\ (~jtAliased' => Reached(jtNode') = DOMAIN jtNode')
  BY <1>1
<1> QED
  BY <1>1, <1>2 DEF JtInv

LEMMA EndsBadly ==
  ASSUME NEW R, Ends(R, TRUE, TRUE)
  PROVE  JtInv'
  BY DEF Ends, JtInv

LEMMA AssignValueKeeps ==
  ASSUME JtInv, NEW root \in JtRoots, NEW path \in MemberPaths, NEW type \in {"STRING", "INTEGER"},
         AssignValue(root, path, type)
  PROVE  JtInv'
<1> DEFINE r == Access(jtNode, root, path)
           object == [type |-> type, content |-> <<[key |-> "none", value |-> 0]>>, readonly |-> FALSE]
           G == WithObject(cleanup(r.heap, r.node), r.node, object)
<1>1. ~jtFault /\ Ends(IF r.thrown # "none" THEN r
                       ELSE IF r.heap[r.node].readonly THEN Throws(r.heap, r.node, "ACCESS_VIOLATION")
                       ELSE [r EXCEPT !.heap = G], FALSE, FALSE)
  BY DEF AssignValue
<1>2. Forest(jtNode) /\ (~jtAliased => Reached(jtNode) = DOMAIN jtNode)
  BY <1>1 DEF JtInv
<1>3. r \in JtResults /\ Led(jtNode, root, r, root)
  BY <1>2, AccessLeads
<1>4. Forest(r.heap) /\ (~jtAliased => Reached(r.heap) = DOMAIN r.heap) /\ r.node \in Reached(r.heap)
  <2> HIDE DEF r
  <2> QED
    BY <1>2, <1>3, LedReached
<1>5. object \in JtObjects /\ object.type \in {"STRING", "INTEGER"}
  <2>1. [key |-> "none", value |-> 0] \in JtEntries
    BY DEF JtEntries, JtKeys
  <2>2. <<[key |-> "none", value |-> 0]>> \in Seq(JtEntries)
    BY <2>1
  <2>3. type \in JtTypes
    BY DEF JtTypes
  <2> QED
    BY <2>2, <2>3 DEF JtObjects
<1> HIDE DEF r, object
<1>6. Forest(G) /\ (~jtAliased => Reached(G) = DOMAIN G)
  <2> HIDE DEF G
  <2>1. G = WithObject(cleanup(r.heap, r.node), r.node, object)
    BY DEF G
  <2> QED
    BY <1>4, <1>5, <2>1, ValueOwned
<1> HIDE DEF G
<1>7. CASE r.thrown # "none" \/ r.heap[r.node].readonly
  <2>1. PICK R : R.heap = r.heap /\ Ends(R, FALSE, FALSE)
    <3>1. Throws(r.heap, r.node, "ACCESS_VIOLATION").heap = r.heap
      BY DEF Throws
    <3> QED
      BY <1>1, <1>7, <3>1
  <2> QED
    BY <1>4, <2>1, EndsWell
<1>8. CASE ~ (r.thrown # "none" \/ r.heap[r.node].readonly)
  <2>1. Ends([r EXCEPT !.heap = G], FALSE, FALSE)
    BY <1>1, <1>8
  <2>2. [r EXCEPT !.heap = G].heap = G
    BY <1>3 DEF JtResults
  <2> QED
    BY <1>6, <2>1, <2>2, EndsWell
<1> QED
  BY <1>7, <1>8

LEMMA AssignCopyKeeps ==
  ASSUME JtInv, NEW root \in JtRoots, NEW from \in JtRoots,
         NEW path \in MemberPaths, NEW fromPath \in MemberPaths, AssignCopy(root, path, from, fromPath)
  PROVE  JtInv'
<1> DEFINE r == Both(root, path, from, fromPath)
           copy == Copy(r.heap, r.right)
           G == GivenTo(cleanup(copy.heap, r.left), r.left, copy.top)
<1>1. ~jtFault /\ IF r.thrown # "none" \/ r.left = r.right THEN Ends(r, FALSE, FALSE)
                  ELSE Ends(Throws(G, r.left, "none"), FALSE, FALSE)
  BY DEF AssignCopy, GivenTo
<1>2. Forest(jtNode) /\ (~jtAliased => Reached(jtNode) = DOMAIN jtNode)
  BY <1>1 DEF JtInv
<1> HIDE DEF r
<1>3. /\ Forest(r.heap) /\ (~jtAliased => Reached(r.heap) = DOMAIN r.heap)
      /\ r.thrown = "none" => r.left \in Reached(r.heap) /\ r.right \in Reached(r.heap)
  <2>1. r = Both(root, path, from, fromPath)
    BY DEF r
  <2> QED
    BY <1>2, <2>1, BothLeads
<1>4. CASE r.thrown # "none" \/ r.left = r.right
  <2> HIDE DEF G
  <2>1. Ends(r, FALSE, FALSE)
    BY <1>1, <1>4
  <2> QED
    BY <1>3, <2>1, EndsWell
<1>5. CASE ~ (r.thrown # "none" \/ r.left = r.right)
  <2>1. Ends(Throws(G, r.left, "none"), FALSE, FALSE)
    <3> HIDE DEF G
    <3> QED
      BY <1>1, <1>5
  <2>2. PICK new : CopiedTo(r.heap, r.right, copy.heap, copy.top, new)
    BY <1>3, <1>5, CopyIs
  <2> HIDE DEF copy
  <2>3. Forest(G) /\ (Reached(r.heap) = DOMAIN r.heap => Reached(G) = DOMAIN G)
    <3>1. Forest(r.heap) /\ r.left \in Reached(r.heap) /\ r.right \in Reached(r.heap) /\ r.left # r.right
      BY <1>3, <1>5
    <3> QED
      BY <2>2, <3>1, CopyOwned
  <2> HIDE DEF G
  <2>4. Throws(G, r.left, "none").heap = G
    BY DEF Throws
  <2> QED
    BY <1>3, <2>1, <2>3, <2>4, EndsWell
<1> QED
  BY <1>4, <1>5

LEMMA AssignMoveKeeps ==
  ASSUME JtInv, NEW root \in JtRoots, NEW from \in JtRoots,
         NEW path \in MemberPaths, NEW fromPath \in MemberPaths, AssignMove(root, path, from, fromPath)
  PROVE  JtInv'
<1>1. PICK r \in {Both(root, path, from, fromPath)} :
        /\ ~jtFault
        /\ IF r.thrown # "none" \/ r.left = r.right THEN Ends(r, FALSE, FALSE)
           ELSE \E moved \in {r.heap[r.right]}, cleaned \in {cleanup(r.heap, r.left)} :
             IF r.right \notin DOMAIN cleaned THEN Ends(Throws(cleaned, r.left, "none"), TRUE, TRUE)
             ELSE Ends(Throws(TakenOver(cleaned, r.left, r.right, moved), r.left, "none"),
                       FALSE, r.left \in Below(r.heap, r.right))
  BY DEF AssignMove, TakenOver
<1>2. Forest(jtNode) /\ (~jtAliased => Reached(jtNode) = DOMAIN jtNode)
  BY <1>1 DEF JtInv
<1>3. /\ Forest(r.heap) /\ (~jtAliased => Reached(r.heap) = DOMAIN r.heap)
      /\ r.thrown = "none" => r.left \in Reached(r.heap) /\ r.right \in Reached(r.heap)
  <2>1. r = Both(root, path, from, fromPath)
    OBVIOUS
  <2> QED
    BY <1>2, <2>1, BothLeads
<1>4. CASE r.thrown # "none" \/ r.left = r.right
  <2>1. Ends(r, FALSE, FALSE)
    BY <1>1, <1>4
  <2> QED
    BY <1>3, <2>1, EndsWell
<1>5. CASE ~ (r.thrown # "none" \/ r.left = r.right)
  <2>1. PICK moved \in {r.heap[r.right]}, cleaned \in {cleanup(r.heap, r.left)} :
          IF r.right \notin DOMAIN cleaned THEN Ends(Throws(cleaned, r.left, "none"), TRUE, TRUE)
          ELSE Ends(Throws(TakenOver(cleaned, r.left, r.right, moved), r.left, "none"),
                    FALSE, r.left \in Below(r.heap, r.right))
    BY <1>1, <1>5
  <2>2. CASE r.right \notin DOMAIN cleaned
    <3>1. Ends(Throws(cleaned, r.left, "none"), TRUE, TRUE)
      BY <2>1, <2>2
    <3> QED
      BY <3>1, EndsBadly
  <2>3. CASE r.right \in DOMAIN cleaned
    <3> DEFINE G == TakenOver(cleaned, r.left, r.right, moved)
    <3>1. Ends(Throws(G, r.left, "none"), FALSE, r.left \in Below(r.heap, r.right))
      BY <2>1, <2>3
    <3>2. Forest(r.heap) /\ r.left \in Reached(r.heap) /\ r.right \in Reached(r.heap) /\ r.left # r.right
      BY <1>3, <1>5
    <3>3. cleaned = cleanup(r.heap, r.left) /\ moved = r.heap[r.right]
      OBVIOUS
    <3>4. Forest(G) /\ (r.left \notin Below(r.heap, r.right) /\ Reached(r.heap) = DOMAIN r.heap => Reached(G) = DOMAIN G)
      BY <2>3, <3>2, <3>3, MoveOwned
    <3> HIDE DEF G
    <3>5. Throws(G, r.left, "none").heap = G
      BY DEF Throws
    <3> QED
      BY <1>3, <3>1, <3>4, <3>5, EndsWell
  <2> QED
    BY <2>2, <2>3
<1> QED
  BY <1>4, <1>5

LEMMA SetReadonlyKeeps ==
  ASSUME JtInv, NEW root \in JtRoots, SetReadonly(root)
  PROVE  JtInv'
<1> DEFINE object == [jtNode[root] EXCEPT !.readonly = TRUE]
           G == [jtNode EXCEPT ![root] = object]
<1>1. ~jtFault /\ jtNode' = G /\ jtFault' = jtFault /\ jtAliased' = jtAliased
  BY DEF SetReadonly
<1>2. Forest(jtNode) /\ (~jtAliased => Reached(jtNode) = DOMAIN jtNode)
  BY <1>1 DEF JtInv
<1>3. root \in DOMAIN jtNode
  BY <1>2 DEF Forest, JtTyped
<1>4. root \in Tree(jtNode, root)
  BY <1>2, <1>3, ForestKept, TreeIs
<1>5. /\ jtNode[root] \in [type : JtTypes, content : Seq(JtEntries), readonly : BOOLEAN]
      /\ jtNode[root].type = "UNKNOWN" => jtNode[root].content = <<>>
  BY <1>2, <1>3, ObjectIs
<1>6. /\ object \in JtObjects /\ object.type = jtNode[root].type /\ object.content = jtNode[root].content
  BY <1>5, ObjectMarks DEF JtObjects
<1> HIDE DEF object
<1>7. /\ G \in [DOMAIN jtNode -> JtObjects] /\ G[root] = object
      /\ \A m \in DOMAIN jtNode \ {root} : G[m] = jtNode[m]
  <2>1. jtNode \in [DOMAIN jtNode -> JtObjects]
    BY <1>2 DEF Forest, JtTyped
  <2> QED
    BY <1>3, <1>6, <2>1
<1> HIDE DEF G
<1>8. /\ object.type = "UNKNOWN" => object.content = <<>>
      /\ object.type = jtNode[root].type \/ object.content = <<>>
  BY <1>5, <1>6
<1>9. Leads(jtNode, G, root)
  BY <1>2, <1>4, <1>6, <1>7, <1>8, ChangedLeads
<1> QED
  BY <1>1, <1>2, <1>9 DEF JtInv, Leads

LEMMA TreesInit ==
  ASSUME JtInit
  PROVE  JtInv
<1>1. jtNode = [r \in JtRoots |-> FreshObject] /\ ~jtFault
  BY DEF JtInit
<1>2. DOMAIN jtNode = JtRoots /\ \A r \in JtRoots : jtNode[r] = FreshObject
  BY <1>1
<1>3. FreshObject \in JtObjects /\ FreshObject.type = "UNKNOWN" /\ FreshObject.content = <<>>
  BY DEF FreshObject, JtObjects, JtTypes
<1>4. JtTyped(jtNode)
  <2>1. jtNode \in [JtRoots -> JtObjects]
    BY <1>1, <1>3
  <2> QED
    BY <1>2, <1>3, <2>1, JsonTreeAssumption DEF JtTyped
<1>5. \A m, i, n : ~ Holds(jtNode, m, i, n)
  BY <1>2, <1>3 DEF Holds, HasObjects
<1>6. Forest(jtNode)
  BY <1>4, <1>5 DEF Forest, JtOwned
<1>7. Reached(jtNode) = DOMAIN jtNode
  BY <1>2, <1>6, ReachedIs
<1> QED
  BY <1>1, <1>6, <1>7 DEF JtInv

LEMMA TreesStep ==
  ASSUME JtInv, [JtNext]_jtVars
  PROVE  JtInv'
<1>1. ASSUME NEW root \in JtRoots, NEW path \in MemberPaths, NEW type \in {"STRING", "INTEGER"},
             AssignValue(root, path, type)
      PROVE  JtInv'
  BY <1>1, AssignValueKeeps
<1>2. ASSUME NEW root \in JtRoots, NEW path \in MemberPaths, AssignOwnString(root, path)
      PROVE  JtInv'
  BY <1>2, EndsBadly DEF AssignOwnString
<1>3. ASSUME NEW root \in JtRoots, NEW from \in JtRoots, NEW path \in MemberPaths, NEW fromPath \in MemberPaths,
             AssignCopy(root, path, from, fromPath)
      PROVE  JtInv'
  BY <1>3, AssignCopyKeeps
<1>4. ASSUME NEW root \in JtRoots, NEW from \in JtRoots, NEW path \in MemberPaths, NEW fromPath \in MemberPaths,
             AssignMove(root, path, from, fromPath)
      PROVE  JtInv'
  BY <1>4, AssignMoveKeeps
<1>5. ASSUME NEW root \in JtRoots, SetReadonly(root) PROVE JtInv'
  BY <1>5, SetReadonlyKeeps
<1>6. CASE UNCHANGED jtVars
  BY <1>6 DEF jtVars, JtInv, Forest, JtTyped, JtOwned, Holds, Reached, Tree, Children
<1> QED
  BY <1>1, <1>2, <1>3, <1>4, <1>5, <1>6 DEF JtNext

\* Of every reachable state: the objects are a forest under the variables, each
\* held in one place, and as long as nothing was aliased all of it is reached.
THEOREM TreesInvariance == JtSpec => []JtInv
  BY TreesInit, TreesStep, PTL DEF JtSpec

\* An object has as many places as it should.
LEMMA PlacesAre ==
  ASSUME JtInv, ~jtAliased, NEW n \in DOMAIN jtNode
  PROVE  Cardinality(PlacesOf(n)) = IF n \in JtRoots THEN 0 ELSE 1
<1>1. Forest(jtNode) /\ Reached(jtNode) = DOMAIN jtNode
  BY DEF JtInv
<1>2. \A p : p \in PlacesOf(n) <=> \E m, i : p = <<m, i>> /\ Holds(jtNode, m, i, n)
  BY DEF PlacesOf, Holds
<1>3. CASE n \in JtRoots
  <2>1. \A m, i : ~ Holds(jtNode, m, i, n)
    BY <1>1, <1>3 DEF Forest, JtOwned
  <2>2. PlacesOf(n) = {}
    <3> HIDE DEF PlacesOf
    <3> QED
      BY <1>2, <2>1
  <2> QED
    BY <1>3, <2>2, FS_EmptySet
<1>4. CASE n \notin JtRoots
  <2>1. PICK r \in JtRoots : n \in Tree(jtNode, r)
    BY <1>1 DEF Reached
  <2>2. r \in DOMAIN jtNode
    BY <1>1 DEF Forest, JtTyped
  <2>3. PICK m, i : Holds(jtNode, m, i, n)
    BY <1>1, <1>4, <2>1, <2>2, HolderIn
  <2>4. \A k, j : Holds(jtNode, k, j, n) => k = m /\ j = i
    BY <1>1, <2>3 DEF Forest, JtOwned
  <2>5. PlacesOf(n) = {<<m, i>>}
    <3>1. \A p : p \in PlacesOf(n) <=> p = <<m, i>>
      BY <1>2, <2>3, <2>4
    <3> QED
      BY <3>1, Zenon
  <2> QED
    BY <1>4, <2>5, FS_Singleton
<1> QED
  BY <1>3, <1>4

(* Every object has exactly one owner, and no freed object is used, as long as *)
(* no statement moved between objects of one tree or assigned an object its    *)
(* own string (object.cpp: operator[], the assignments and cleanup).           *)
THEOREM TreesCorrect == JtSpec => []TreesOwned
<1>1. JtInv => TreesOwned
  <2> SUFFICES ASSUME JtInv, ~jtAliased
               PROVE  /\ ~jtFault
                      /\ \A n \in DOMAIN jtNode : Cardinality(PlacesOf(n)) = IF n \in JtRoots THEN 0 ELSE 1
                      /\ UNION {Tree(jtNode, r) : r \in JtRoots} = DOMAIN jtNode
    BY DEF TreesOwned
  <2>1. ~jtFault
    BY DEF JtInv
  <2>2. \A n \in DOMAIN jtNode : Cardinality(PlacesOf(n)) = IF n \in JtRoots THEN 0 ELSE 1
    BY PlacesAre
  <2>3. UNION {Tree(jtNode, r) : r \in JtRoots} = DOMAIN jtNode
    BY DEF JtInv, Reached
  <2> QED
    BY <2>1, <2>2, <2>3
<1> QED
  BY <1>1, TreesInvariance, PTL

\* What only differs in marks has the same trees.
LEMMA AlikeTrees ==
  ASSUME NEW H, Forest(H), NEW G, Forest(G), Alike(H, G), NEW n \in DOMAIN H
  PROVE  Shape(G, n) = Shape(H, n)
<1>1. DOMAIN G = DOMAIN H /\ \A m \in DOMAIN H : G[m].type = H[m].type /\ G[m].content = H[m].content
  BY DEF Alike
<1>2. \A m, i, x : Holds(G, m, i, x) <=> Holds(H, m, i, x)
  BY <1>1 DEF Holds
<1>3. Tree(G, n) = Tree(H, n)
  BY <1>1, <1>2, SameHeld DEF Forest
<1>4. Tree(H, n) \subseteq DOMAIN H
  BY ForestKept, TreeIs
<1>5. \A m \in Tree(H, n) : [node |-> m, type |-> G[m].type, content |-> G[m].content]
                             = [node |-> m, type |-> H[m].type, content |-> H[m].content]
  BY <1>1, <1>4
<1> HIDE DEF Alike
<1> QED
  BY <1>3, <1>5 DEF Shape

\* A value that is assigned in the tree of one variable leaves that of another.
LEMMA ValueApart ==
  ASSUME NEW H, Forest(H), NEW root \in JtRoots, NEW n \in Tree(H, root), NEW r \in JtRoots, r # root,
         NEW object, NEW G, G = WithObject(cleanup(H, n), n, object), Forest(G)
  PROVE  Tree(G, r) = Tree(H, r) /\ \A m \in Tree(H, r) : m \in DOMAIN G /\ G[m] = H[m]
<1> DEFINE C == cleanup(H, n)
<1>1. root \in DOMAIN H /\ r \in DOMAIN H
  BY DEF Forest, JtTyped
<1>2. n \in DOMAIN H /\ ClosedUnder(H, Tree(H, root)) /\ Tree(H, r) \subseteq DOMAIN H /\ r \in Tree(H, r)
  BY <1>1, ForestKept, TreeIs
<1>3. Tree(H, n) \subseteq Tree(H, root)
  BY <1>2, ForestKept, TreeIs
<1>4. Tree(H, root) \cap Tree(H, r) = {}
  BY TreesApart
<1>5. /\ DOMAIN C = DOMAIN H \ (Tree(H, n) \ {n}) /\ n \in DOMAIN C
      /\ \A m \in DOMAIN C \ {n} : C[m] = H[m]
  <2> HIDE DEF C
  <2>1. C = cleanup(H, n)
    BY DEF C
  <2>2. CleanedTo(H, n, C)
    BY <1>2, <2>1, CleanedIs
  <2> QED
    BY <2>2 DEF CleanedTo
<1> HIDE DEF C
<1>6. DOMAIN G = DOMAIN C /\ \A m \in DOMAIN C \ {n} : G[m] = C[m]
  BY <1>5 DEF WithObject, C
<1>7. \A m \in Tree(H, r) : m \in DOMAIN G /\ G[m] = H[m]
  BY <1>2, <1>3, <1>4, <1>5, <1>6
<1>8. \A m \in Tree(H, r) : m \in DOMAIN G /\ Children(G, m) = Children(H, m)
  BY <1>7 DEF Children
<1>9. Tree(G, r) = Tree(H, r)
  BY <1>1, <1>8, ForestKept, TreeSame
<1> QED
  BY <1>7, <1>9

LEMMA ReadonlyStep ==
  ASSUME JtInv, NEW r \in JtRoots, jtNode[r].readonly,
         NEW root \in JtRoots, NEW path \in MemberPaths, NEW type \in {"STRING", "INTEGER"},
         AssignValue(root, path, type)
  PROVE  Shape(jtNode', r) = Shape(jtNode, r)
<1> DEFINE R == Access(jtNode, root, path)
           object == [type |-> type, content |-> <<[key |-> "none", value |-> 0]>>, readonly |-> FALSE]
           G == WithObject(cleanup(R.heap, R.node), R.node, object)
<1>1. ~jtFault /\ Ends(IF R.thrown # "none" THEN R
                       ELSE IF R.heap[R.node].readonly THEN Throws(R.heap, R.node, "ACCESS_VIOLATION")
                       ELSE [R EXCEPT !.heap = G], FALSE, FALSE)
  BY DEF AssignValue
<1>2. Forest(jtNode) /\ r \in DOMAIN jtNode
  BY <1>1 DEF JtInv, Forest, JtTyped
<1>3. R \in JtResults /\ Led(jtNode, root, R, root)
  BY <1>2, AccessLeads
<1>4. JtInv'
  BY AssignValueKeeps
<1> HIDE DEF R, object
<1>5. jtNode' = IF R.thrown # "none" \/ R.heap[R.node].readonly THEN R.heap ELSE G
  <2>1. Throws(R.heap, R.node, "ACCESS_VIOLATION").heap = R.heap
    BY DEF Throws
  <2> HIDE DEF G
  <2>2. [R EXCEPT !.heap = G].heap = G
    BY <1>3 DEF JtResults
  <2> QED
    BY <1>1, <2>1, <2>2 DEF Ends
<1>6. Forest(jtNode')
  <2>1. jtFault' = FALSE
    BY <1>1 DEF Ends
  <2> QED
    BY <1>4, <2>1 DEF JtInv
<1>7. CASE root = r
  <2>1. Alike(jtNode, R.heap) /\ (R.thrown = "none" => R.heap[R.node].readonly)
    BY <1>3, <1>7 DEF Led
  <2>2. jtNode' = R.heap
    BY <1>5, <2>1
  <2>3. Forest(R.heap)
    BY <1>6, <2>2
  <2>4. Shape(R.heap, r) = Shape(jtNode, r)
    BY <1>2, <2>1, <2>3, AlikeTrees
  <2> QED
    BY <2>2, <2>4
<1>8. CASE root # r
  <2>1. /\ Forest(R.heap) /\ Tree(R.heap, r) = Tree(jtNode, r) /\ \A m \in Tree(jtNode, r) : R.heap[m] = jtNode[m]
        /\ R.node \in Tree(R.heap, root)
    BY <1>3, <1>8 DEF Led, Leads
  <2>2. Tree(jtNode', r) = Tree(jtNode, r) /\ \A m \in Tree(jtNode, r) : jtNode'[m] = jtNode[m]
    <3>1. CASE R.thrown # "none" \/ R.heap[R.node].readonly
      <4>1. jtNode' = R.heap
        BY <1>5, <3>1
      <4> QED
        BY <2>1, <4>1
    <3>2. CASE ~ (R.thrown # "none" \/ R.heap[R.node].readonly)
      <4> HIDE DEF G
      <4>1. jtNode' = G /\ G = WithObject(cleanup(R.heap, R.node), R.node, object)
        BY <1>5, <3>2 DEF G
      <4>2. Forest(G)
        BY <1>6, <4>1
      <4>3. Tree(G, r) = Tree(R.heap, r) /\ \A m \in Tree(R.heap, r) : m \in DOMAIN G /\ G[m] = R.heap[m]
        BY <1>8, <2>1, <4>1, <4>2, ValueApart
      <4> QED
        BY <2>1, <4>1, <4>3
    <3> QED
      BY <3>1, <3>2
  <2>3. \A m \in Tree(jtNode, r) : [node |-> m, type |-> jtNode'[m].type, content |-> jtNode'[m].content]
                                   = [node |-> m, type |-> jtNode[m].type, content |-> jtNode[m].content]
    BY <2>2
  <2> QED
    BY <2>2, <2>3 DEF Shape
<1> QED
  BY <1>7, <1>8

(* What a variable that is readonly holds does not change by a value that is   *)
(* assigned through a path, of this variable or of another: the marks go down  *)
(* with operator[], and the assignment asks for them (object.cpp).             *)
THEOREM ReadonlyCorrect == JtSpec => ReadonlyKept
<1>1. JtInv /\ [JtNext]_jtVars => [KeepsReadonly]_jtVars
  BY ReadonlyStep DEF KeepsReadonly
<1> QED
  BY <1>1, TreesInvariance, PTL DEF JtSpec, ReadonlyKept
=============================================================================
