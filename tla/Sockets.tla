------------------------------- MODULE Sockets -------------------------------
(* WSA: Socket objects, the system's sockets behind them, and addresses.  Each *)
(* call of the system may fail; a failure is thrown, and what the object has   *)
(* stored by then stays.  An object has no destructor.                         *)
EXTENDS Integers, Sequences, FiniteSets, SequencesExt

CONSTANTS
  Sockets,       \* the objects
  Peers,         \* the addresses that connect() and bind() are given
  MaxHandles     \* bound: system sockets in a behaviour

VARIABLES
  skObject,      \* the objects: [handle, family, ip, rp, lp]
  skKernel,      \* the system's sockets: [state, family, peer], in the order of their making
  skMixed,       \* objects whose fields a failed call or a move has parted from the system
  skDropped,     \* handles whose object went away without close()
  skStopped      \* an exception left a noexcept function: the process ends

skVars == <<skObject, skKernel, skMixed, skDropped, skStopped>>

INVALID_SOCKET == 0
Unspecified == "0.0.0.0"
Families == {"AF_INET", "AF_INET6"}
Handles == DOMAIN skKernel
Blank(family) == [handle |-> INVALID_SOCKET, family |-> family, ip |-> Unspecified, rp |-> Unspecified,
                  lp |-> FALSE]
Fresh(family) == [state |-> "open", family |-> family, peer |-> Unspecified]

SkInit ==
  /\ skObject = [s \in Sockets |-> Blank("AF_INET6")]
  /\ skKernel = <<>>
  /\ skMixed = {} /\ skDropped = {} /\ skStopped = FALSE

\* What is left of an object after close(), whatever closesocket() answers; a
\* socket is "closed" once it was given to closesocket(), even if that failed and
\* the system still has it (Socket.cpp:327-334).
Closed(object) == [Blank(object.family) EXCEPT !.handle = INVALID_SOCKET]
Shut(kernel, h) == IF h = INVALID_SOCKET THEN kernel ELSE [kernel EXCEPT ![h].state = "closed"]

-----------------------------------------------------------------------------
(* Opening.                                                                    *)

\* socket(): the handle, or nothing; then IPV6_V6ONLY is set, and when that
\* fails the call fails with the handle kept.
Opened(s) ==
  IF skObject[s].handle # INVALID_SOCKET
  THEN {[object |-> skObject[s], kernel |-> skKernel, threw |-> FALSE]}
  ELSE {[object |-> skObject[s], kernel |-> skKernel, threw |-> TRUE]}
       \cup (IF Len(skKernel) = MaxHandles THEN {} ELSE
             {[object |-> [skObject[s] EXCEPT !.handle = Len(skKernel) + 1],
               kernel |-> Append(skKernel, Fresh(skObject[s].family)), threw |-> threw]
              : threw \in {FALSE} \cup {skObject[s].family = "AF_INET6"}})

Become(s, object, kernel) ==
  /\ skObject' = [skObject EXCEPT ![s] = object]
  /\ skKernel' = kernel

Socket(s) ==
  /\ skObject[s].handle = INVALID_SOCKET       \* otherwise ERRNO_SOCKET_ALREADY_OCCUPIED
  /\ \E open \in Opened(s) : Become(s, open.object, open.kernel)
  /\ UNCHANGED <<skMixed, skDropped, skStopped>>

\* family is a public field, set before the object is used.
SetFamily(s, family) ==
  /\ skObject[s].handle = INVALID_SOCKET
  /\ skObject' = [skObject EXCEPT ![s].family = family]
  /\ UNCHANGED <<skKernel, skMixed, skDropped, skStopped>>

\* bind(): the address is stored before the system is asked.
Bind(s, addr) ==
  /\ \E open \in Opened(s), ok \in BOOLEAN :
       LET h == open.object.handle
           bound == ~open.threw /\ ok /\ open.kernel[h].state = "open"
       IN /\ IF open.threw THEN Become(s, open.object, open.kernel)
             ELSE Become(s, [open.object EXCEPT !.ip = addr, !.lp = TRUE],
                         IF bound THEN [open.kernel EXCEPT ![h].state = "bound"] ELSE open.kernel)
          /\ skMixed' = IF bound \/ open.threw THEN skMixed ELSE skMixed \cup {s}
  /\ UNCHANGED <<skDropped, skStopped>>

Listen(s) ==
  /\ skObject[s].handle # INVALID_SOCKET       \* otherwise ERRNO_OBJECT_CLOSED
  /\ LET h == skObject[s].handle IN
     /\ skKernel[h].state \in {"bound", "listening"}
     /\ skKernel' = [skKernel EXCEPT ![h].state = "listening"]
  /\ UNCHANGED <<skObject, skMixed, skDropped, skStopped>>

\* connect(): so is this one's, on a handle that may have failed before, or be
\* connected already.
Connect(s, addr) ==
  /\ \E open \in Opened(s), ok \in BOOLEAN :
       LET h == open.object.handle
           connected == ~open.threw /\ ok /\ open.kernel[h].state \in {"open", "bound"}
       IN /\ IF open.threw THEN Become(s, open.object, open.kernel)
             ELSE Become(s, [open.object EXCEPT !.ip = addr, !.rp = addr, !.lp = connected \/ @],
                         IF connected
                         THEN [open.kernel EXCEPT ![h].state = "connected", ![h].peer = addr]
                         ELSE open.kernel)
          /\ skMixed' = IF connected THEN skMixed \ {s}
                        ELSE IF open.threw THEN skMixed ELSE skMixed \cup {s}
  /\ UNCHANGED <<skDropped, skStopped>>

\* Mutant: the peer's port is not taken over.
Taken_ForgetsPeer(t, from) ==
  [from EXCEPT !.family = skObject[t].family, !.rp = skObject[t].rp]

\* operator=(Socket &&): closes, then takes the handle and the addresses; the
\* family stays.  An exception of close() ends the process: noexcept.
Taken(t, from) ==
  [from EXCEPT !.family = skObject[t].family]

\* accept(), its result moved into t.  ~0 of the system is thrown.
Accept(s, t, addr) ==
  /\ s # t
  /\ skObject[s].handle # INVALID_SOCKET       \* otherwise ERRNO_OBJECT_CLOSED
  /\ skKernel[skObject[s].handle].state = "listening"
  /\ Len(skKernel) < MaxHandles
  /\ LET h == Len(skKernel) + 1
         family == skKernel[skObject[s].handle].family
         from == [handle |-> h, family |-> family, ip |-> addr, rp |-> addr, lp |-> TRUE]
     IN /\ skObject' = [skObject EXCEPT ![t] = Taken(t, from)]
        /\ skKernel' = Append(Shut(skKernel, skObject[t].handle),
                              [state |-> "connected", family |-> family, peer |-> addr])
        /\ skStopped' \in {FALSE} \cup {skObject[t].handle # INVALID_SOCKET}
  /\ skMixed' = skMixed \ {t}
  /\ UNCHANGED skDropped

\* Mutant: the handle of the object moved from is not reset.
Move_Shares(s, t) ==
  /\ s # t
  /\ skObject' = [skObject EXCEPT ![t] = Taken(t, skObject[s])]
  /\ skKernel' = Shut(skKernel, skObject[t].handle)
  /\ skStopped' \in {FALSE} \cup {skObject[t].handle # INVALID_SOCKET}
  /\ skMixed' = (skMixed \ {s, t}) \cup (IF s \in skMixed THEN {t} ELSE {})
  /\ UNCHANGED skDropped

Move(s, t) ==
  /\ s # t
  /\ skObject' = [skObject EXCEPT ![t] = Taken(t, skObject[s]), ![s] = Closed(@)]
  /\ skKernel' = Shut(skKernel, skObject[t].handle)
  /\ skStopped' \in {FALSE} \cup {skObject[t].handle # INVALID_SOCKET}
  /\ skMixed' = (skMixed \ {s, t}) \cup (IF s \in skMixed THEN {t} ELSE {})
  /\ UNCHANGED skDropped

-----------------------------------------------------------------------------
(* Use.  read() and write() close on an error; read() at the end as well.      *)

Use(s, result) ==
  /\ skObject[s].handle # INVALID_SOCKET       \* otherwise ERRNO_OBJECT_CLOSED
  /\ result \in {"zero", "SOCKET_ERROR"}       \* bytes change nothing
  /\ Become(s, Closed(skObject[s]), Shut(skKernel, skObject[s].handle))
  /\ skMixed' = skMixed \ {s}
  /\ UNCHANGED <<skDropped, skStopped>>

read(s) == \E result \in {"zero", "SOCKET_ERROR"} : Use(s, result)
write(s) == Use(s, "SOCKET_ERROR")

\* shutdown(): the object does not know of it.
Shutdown(s) ==
  /\ skObject[s].handle # INVALID_SOCKET
  /\ skKernel[skObject[s].handle].state = "connected"
  /\ skKernel' = [skKernel EXCEPT ![skObject[s].handle].state = "shut"]
  /\ UNCHANGED <<skObject, skMixed, skDropped, skStopped>>

\* close(): the fields are reset before the system's answer is looked at.
Close(s) ==
  /\ skObject[s].handle # INVALID_SOCKET
  /\ Become(s, Closed(skObject[s]), Shut(skKernel, skObject[s].handle))
  /\ skMixed' = skMixed \ {s}
  /\ UNCHANGED <<skDropped, skStopped>>

\* The object's life ends, and another one's begins in its place.
Drop(s) ==
  /\ skDropped' = skDropped \cup ({skObject[s].handle} \ {INVALID_SOCKET})
  /\ skObject' = [skObject EXCEPT ![s] = Blank("AF_INET6")]
  /\ skMixed' = skMixed \ {s}
  /\ UNCHANGED <<skKernel, skStopped>>

SkNext ==
  /\ ~skStopped
  /\ \E s \in Sockets :
       \/ Socket(s) \/ Listen(s) \/ read(s) \/ write(s) \/ Shutdown(s) \/ Close(s) \/ Drop(s)
       \/ \E family \in Families : SetFamily(s, family)
       \/ \E addr \in Peers : Bind(s, addr) \/ Connect(s, addr)
       \/ \E t \in Sockets : Move(s, t) \/ \E addr \in Peers : Accept(s, t, addr)

SkSpec == SkInit /\ [][SkNext]_skVars

-----------------------------------------------------------------------------
(* A system socket that is open belongs to one object, unless that object went *)
(* away without closing it; and no object has one that is closed.  Failed      *)
(* calls, moves onto an open socket and errors of read() are among the steps.  *)
HandlesOwned ==
  \A h \in Handles :
    LET owners == {s \in Sockets : skObject[s].handle = h} IN
    IF skKernel[h].state = "closed" THEN owners = {}
    ELSE Cardinality(owners) = IF h \in skDropped THEN 0 ELSE 1

(* What an object says of its peer is so: connected, and no call failed on it  *)
(* since, it has the peer's address (a second connect() stores the new one     *)
(* first and then fails, Socket.cpp:147); and without a handle it says nothing.*)
PeerRecorded ==
  \A s \in Sockets :
    LET o == skObject[s] IN
    IF o.handle = INVALID_SOCKET THEN o.rp = Unspecified /\ o.ip = Unspecified /\ ~o.lp
    ELSE skKernel[o.handle].state \in {"connected", "shut"} /\ s \notin skMixed
         => o.rp = skKernel[o.handle].peer /\ o.ip = o.rp /\ o.lp

-----------------------------------------------------------------------------
(* Addresses: eight words, and the texts of addresses with ports.              *)

Mapped(addr) == \A i \in 1 .. 5 : addr[i] = 0
take(high, low) == <<0, 0, 0, 0, 0, 65535, high, low>>
make(addr) == <<addr[7], addr[8]>>

\* IPV4(): a chain of ==, each comparing the answer of the one before.
Equals(answer, word) == IF answer = word THEN 1 ELSE 0
IPV4(addr) ==
  /\ Equals(FoldLeft(Equals, addr[1], SubSeq(addr, 2, 5)), 0) = 1
  /\ addr[6] = 65535

PortDigits(id) ==
  LET width == CHOOSE n \in 1 .. 5 : id < 10 ^ n /\ (n = 1 \/ 10 ^ (n - 1) <= id)
  IN [i \in 1 .. width |-> (id \div 10 ^ (width - i)) % 10]
SocketAddressText(addr, id) ==
  [brackets |-> ~IPV4(addr), v4 |-> IPV4(addr), port |-> PortDigits(id)]

\* WSA::IP: the first address that the resolver has.
IP(answers) ==
  IF answers = <<>> THEN "ERRNO_UNKNOWN_HOST"
  ELSE IF answers[1].family = "AF_INET" THEN take(answers[1].high, answers[1].low)
  ELSE answers[1].words

\* Every mapped address is known as one and survives the way through its two
\* words, and no address with another sixth word is; nothing is said of those
\* with this sixth word and others before it that are not 0, most of which the
\* chain of == takes for mapped ones.  A port is read back from its digits.
AddressExact(addr, id) ==
  /\ addr[6] = 65535 /\ Mapped(addr) => IPV4(addr) /\ take(make(addr)[1], make(addr)[2]) = addr
  /\ addr[6] # 65535 => ~IPV4(addr)
  /\ LET text == SocketAddressText(addr, id) IN
     /\ text.brackets # text.v4
     /\ FoldLeft(LAMBDA n, digit : (n * 10) + digit, 0, text.port) = id
     /\ Len(text.port) > 1 => text.port[1] # 0
=============================================================================
