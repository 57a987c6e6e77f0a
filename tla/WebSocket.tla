------------------------------ MODULE WebSocket ------------------------------
(***************************************************************************)
(* CWS::WebSocket over a WSA::Socket: one direction of a connection.       *)
(* Threads of one application send frames; a thread of the other receives  *)
(* messages.  Streaming::fully repeats the partial reads and writes of the *)
(* socket, which may break, or be closed by another thread, at any byte.   *)
(* The threads that send hold a lock while they send the frames of one     *)
(* message, as the library takes none itself.                              *)
(***************************************************************************)
EXTENDS WebSocketFrame, FiniteSets, SequencesExt

CONSTANTS
  Senders,    \* threads that send on the WebSocket
  Scripts,    \* bound: what each thread sends: a sequence of messages, each a
              \* sequence of frames
  Keys,       \* bound: the masks that random() returns
  Segments,   \* bound: how many bytes one call of recv or send may move
  Nobody

ASSUME SocketAssumption ==
  /\ Nobody \notin Senders
  /\ Scripts \subseteq [Senders -> Seq(Seq(Message))]
  /\ Keys \subseteq [1 .. 4 -> Byte]
  /\ Segments \subseteq Nat \ {0} /\ 1 \in Segments

VARIABLES
  todo,       \* what each thread has left to send
  spc,        \* where each thread is in WebSocket::frame(const Message &)
  out,        \* the bytes left to the current conn.write
  key,        \* the mask of the frame being sent
  holder,     \* the caller's lock
  opening,    \* WebSocket::opening of the sender
  frames,     \* history: the frames begun, in order
  starts,     \* history: where in the stream they begin
  stream,     \* every byte sent
  link,       \* the connection: "up", "ended" or "reset"
  sock,       \* whether the sender's Socket is opening()
  rd,         \* how many bytes are received
  rpc,        \* where the receiver is in WebSocket::frame()
  want, buf,  \* fully.read: how many bytes are missing, and those read
  frame,      \* the frame being received
  header,     \* its length and mask
  msg,        \* receive(): the message so far
  control,    \* WebSocket::control of the receiver
  replies,    \* the PONG frames the receiver sent
  delivered   \* what receive() returned

sending == <<todo, spc, out, key, holder, opening, frames, starts>>
receiving == <<rd, rpc, want, buf, frame, header, msg, control, replies, delivered>>
vars == <<sending, stream, link, sock, receiving>>

Fresh == [RSV |-> 255, OPC |-> 255, context |-> <<>>]
Blank == [FIN |-> 1, RSV |-> 0, MSK |-> 1, OPC |-> OPC_BINARY, context |-> <<>>]

Init ==
  /\ todo \in Scripts
  /\ spc = [s \in Senders |-> "idle"]
  /\ out = [s \in Senders |-> <<>>]
  /\ key = NoKey
  /\ holder = Nobody
  /\ opening = TRUE
  /\ frames = <<>> /\ starts = <<>> /\ stream = <<>>
  /\ link = "up" /\ sock = "open"
  /\ rd = 0 /\ rpc = "head" /\ want = 1 /\ buf = <<>>
  /\ frame = Blank /\ header = [length |-> 0, key |-> NoKey] /\ msg = Fresh
  /\ control = Blank /\ replies = <<>> /\ delivered = <<>>

Current(s) == Head(Head(todo[s]))

\* An exception out of send(): the thread gives up and its lock guard unlocks.
Throw(s) ==
  /\ spc' = [spc EXCEPT ![s] = "idle"]
  /\ todo' = [todo EXCEPT ![s] = <<>>]
  /\ out' = [out EXCEPT ![s] = <<>>]
  /\ holder' = IF holder = s THEN Nobody ELSE holder
  /\ UNCHANGED <<key, opening, frames, starts>>

-------------------------------------------------------------------------------
(***************************************************************************)
(* Faulty variants.                                                        *)
(***************************************************************************)
Begin_Closed(s) ==            \* frame() does not look at alive()
  /\ spc[s] = "send" /\ Head(todo[s]) # <<>>
  /\ frames' = Append(frames, Current(s))
  /\ starts' = Append(starts, Len(stream))
  /\ out' = [out EXCEPT ![s] = Prefix(Current(s))]
  /\ spc' = [spc EXCEPT ![s] = "prefix"]
  /\ UNCHANGED <<todo, key, holder, opening, stream, link, sock, receiving>>

Write_Once(s) ==              \* a partial send is taken for the whole
  /\ out[s] # <<>>
  /\ sock = "open"
  /\ \E n \in Segments :
       /\ n <= Len(out[s])
       /\ stream' = stream \o SubSeq(out[s], 1, n)
       /\ out' = [out EXCEPT ![s] = <<>>]
  /\ UNCHANGED <<todo, spc, key, holder, opening, frames, starts, link, sock,
                 receiving>>

Read_Once ==                  \* a partial recv is taken for the whole
  /\ rpc # "failed" /\ want > 0
  /\ \E n \in Segments :
       /\ n <= want /\ rd + n <= Len(stream)
       /\ buf' = buf \o SubSeq(stream, rd + 1, rd + n)
       /\ rd' = rd + n
  /\ want' = 0
  /\ UNCHANGED <<sending, stream, link, sock, rpc, frame, header, msg, control,
                 replies, delivered>>

Joined_KeepsLast(f) ==        \* the type is that of the last fragment
  [RSV |-> f.RSV, OPC |-> f.OPC, context |-> msg.context \o f.context]

ReadFails_Spins ==            \* Socket::read returns 0, fully.read goes on
  /\ rpc # "failed" /\ want > 0
  /\ link = "reset" \/ (link = "ended" /\ rd = Len(stream))
  /\ UNCHANGED vars

-------------------------------------------------------------------------------
(***************************************************************************)
(* Sending.                                                                *)
(***************************************************************************)
Lock(s) ==
  /\ spc[s] = "idle" /\ todo[s] # <<>>
  /\ holder = Nobody
  /\ holder' = s
  /\ spc' = [spc EXCEPT ![s] = "send"]
  /\ UNCHANGED <<todo, out, key, opening, frames, starts, stream, link, sock,
                 receiving>>

Unlock(s) ==
  /\ spc[s] = "send" /\ Head(todo[s]) = <<>>
  /\ holder' = Nobody
  /\ spc' = [spc EXCEPT ![s] = "idle"]
  /\ todo' = [todo EXCEPT ![s] = Tail(@)]
  /\ UNCHANGED <<out, key, opening, frames, starts, stream, link, sock, receiving>>

Begin(s) ==
  /\ spc[s] = "send" /\ Head(todo[s]) # <<>>
  /\ IF opening
     THEN /\ frames' = Append(frames, Current(s))
          /\ starts' = Append(starts, Len(stream))
          /\ out' = [out EXCEPT ![s] = Prefix(Current(s))]
          /\ spc' = [spc EXCEPT ![s] = "prefix"]
          /\ UNCHANGED <<todo, key, holder, opening>>
     ELSE Throw(s)
  /\ UNCHANGED <<stream, link, sock, receiving>>

\* One turn of fully.write: Socket::write closes the socket when send fails.
Write(s) ==
  /\ out[s] # <<>>
  /\ sock = "open"
  /\ \E n \in Segments :
       /\ n <= Len(out[s])
       /\ stream' = stream \o SubSeq(out[s], 1, n)
       /\ out' = [out EXCEPT ![s] = SubSeq(@, n + 1, Len(@))]
  /\ UNCHANGED <<todo, spc, key, holder, opening, frames, starts, link, sock,
                 receiving>>

WriteFails(s) ==
  /\ out[s] # <<>>
  /\ sock = "closed" \/ link = "reset"
  /\ sock' = "closed"
  /\ Throw(s)
  /\ UNCHANGED <<stream, link, receiving>>

SendMask(s) ==
  /\ spc[s] = "prefix" /\ out[s] = <<>>
  /\ IF Current(s).MSK = 1
     THEN \E k \in Keys : key' = k /\ out' = [out EXCEPT ![s] = k]
     ELSE key' = NoKey /\ UNCHANGED out
  /\ spc' = [spc EXCEPT ![s] = "mask"]
  /\ UNCHANGED <<todo, holder, opening, frames, starts, stream, link, sock,
                 receiving>>

SendPayload(s) ==
  /\ spc[s] = "mask" /\ out[s] = <<>>
  /\ out' = [out EXCEPT ![s] = Masked(Current(s).context, key)]
  /\ spc' = [spc EXCEPT ![s] = "payload"]
  /\ UNCHANGED <<todo, key, holder, opening, frames, starts, stream, link, sock,
                 receiving>>

\* frame() returns; send() notes that a CLOSE is sent.
Sent(s) ==
  /\ spc[s] = "payload" /\ out[s] = <<>>
  /\ opening' = (opening /\ Current(s).OPC # OPC_CLOSE)
  /\ todo' = [todo EXCEPT ![s] = <<Tail(Head(@))>> \o Tail(@)]
  /\ spc' = [spc EXCEPT ![s] = "send"]
  /\ UNCHANGED <<out, key, holder, frames, starts, stream, link, sock, receiving>>

(***************************************************************************)
(* The connection.                                                         *)
(***************************************************************************)
\* The network gives up, or another thread of the sender closes the socket.
Reset ==
  /\ link = "up"
  /\ link' = "reset"
  /\ UNCHANGED <<sending, stream, sock, receiving>>

Close ==
  /\ sock = "open"
  /\ sock' = "closed"
  /\ link' = IF link = "up" THEN "ended" ELSE link
  /\ UNCHANGED <<sending, stream, receiving>>

-------------------------------------------------------------------------------
(***************************************************************************)
(* Receiving.                                                              *)
(***************************************************************************)
Read ==
  /\ rpc # "failed" /\ want > 0
  /\ \E n \in Segments :
       /\ n <= want /\ rd + n <= Len(stream)
       /\ buf' = buf \o SubSeq(stream, rd + 1, rd + n)
       /\ rd' = rd + n
       /\ want' = want - n
  /\ UNCHANGED <<sending, stream, link, sock, rpc, frame, header, msg, control,
                 replies, delivered>>

\* recv returns 0 or an error: the socket is closed and receive() throws.
ReadFails ==
  /\ rpc # "failed" /\ want > 0
  /\ link = "reset" \/ (link = "ended" /\ rd = Len(stream))
  /\ rpc' = "failed"
  /\ UNCHANGED <<sending, stream, link, sock, rd, want, buf, frame, header, msg,
                 control, replies, delivered>>

\* The next bytes that WebSocket::frame() waits for.
Await(stage, n) == rpc' = stage /\ want' = n

GotHead ==
  /\ rpc = "head" /\ want = 0
  /\ frame' = [Blank EXCEPT !.FIN = FIN(buf[1]), !.RSV = RSV(buf[1]),
                            !.OPC = OPC(buf[1])]
  /\ buf' = <<>>
  /\ Await("size", 1)
  /\ UNCHANGED <<sending, stream, link, sock, rd, header, msg, control, replies,
                 delivered>>

\* The second byte stays at the front of buf.
GotSize ==
  /\ rpc = "size" /\ want = 0
  /\ Await("wide", Announced(buf[1]))
  /\ UNCHANGED <<sending, stream, link, sock, rd, buf, frame, header, msg, control,
                 replies, delivered>>

GotWide ==
  /\ rpc = "wide" /\ want = 0
  /\ header' = [length |-> Length(buf[1], Tail(buf)), key |-> NoKey]
  /\ buf' = <<>>
  /\ Await("key", 4 * MASK(buf[1]))
  /\ UNCHANGED <<sending, stream, link, sock, rd, frame, msg, control, replies,
                 delivered>>

GotKey ==
  /\ rpc = "key" /\ want = 0
  /\ header' = [header EXCEPT !.key = IF buf = <<>> THEN NoKey ELSE buf]
  /\ buf' = <<>>
  /\ Await("payload", header.length)
  /\ UNCHANGED <<sending, stream, link, sock, rd, frame, msg, control, replies,
                 delivered>>

\* The message so far with one more frame.
Joined(f) ==
  [RSV |-> IF msg.RSV = 255 THEN f.RSV ELSE msg.RSV,
   OPC |-> IF msg.OPC = 255 THEN f.OPC ELSE msg.OPC,
   context |-> msg.context \o f.context]

\* frame() returns to receive().
GotPayload ==
  /\ rpc = "payload" /\ want = 0
  /\ LET f == [frame EXCEPT !.context = Masked(buf, header.key)]
     IN  IF (f.OPC \div 128) % 2 = 1
         THEN /\ replies' = IF f.OPC = OPC_PING
                             THEN Append(replies, [f EXCEPT !.OPC = OPC_PONG])
                             ELSE replies
              /\ control' = f
              /\ UNCHANGED <<msg, delivered>>
         ELSE /\ IF f.FIN = 1
                 THEN delivered' = Append(delivered, Joined(f)) /\ msg' = Fresh
                 ELSE msg' = Joined(f) /\ UNCHANGED delivered
              /\ UNCHANGED <<replies, control>>
  /\ frame' = Blank /\ header' = [length |-> 0, key |-> NoKey] /\ buf' = <<>>
  /\ Await("head", 1)
  /\ UNCHANGED <<sending, stream, link, sock, rd>>

Sender(s) ==
  \/ Lock(s) \/ Begin(s) \/ Write(s) \/ WriteFails(s)
  \/ SendMask(s) \/ SendPayload(s) \/ Sent(s) \/ Unlock(s)
Receiver ==
  Read \/ ReadFails \/ GotHead \/ GotSize \/ GotWide \/ GotKey \/ GotPayload
Next == (\E s \in Senders : Sender(s)) \/ Receiver \/ Reset \/ Close

Spec == Init /\ [][Next]_vars

\* Every thread runs; bytes sent arrive.
FairSpec ==
  Spec /\ (\A s \in Senders : WF_vars(Sender(s))) /\ WF_vars(Receiver)

-------------------------------------------------------------------------------
(***************************************************************************)
(* Properties.                                                             *)
(***************************************************************************)
Received == [RSV : 0 .. 255, OPC : 0 .. 255, context : Seq(Byte)]

SendingType ==
  /\ todo \in [Senders -> Seq(Seq(Message))]
  /\ spc \in [Senders -> {"idle", "send", "prefix", "mask", "payload"}]
  /\ out \in [Senders -> Seq(Byte)]
  /\ key \in [1 .. 4 -> Byte]
  /\ holder \in Senders \cup {Nobody}
  /\ opening \in BOOLEAN
  /\ frames \in Seq(Message)
  /\ starts \in Seq(Nat) /\ Len(starts) = Len(frames)
  /\ stream \in Seq(Byte)
  /\ link \in {"up", "ended", "reset"} /\ sock \in {"open", "closed"}

ReceivingType ==
  /\ rd \in 0 .. Len(stream)
  /\ rpc \in {"head", "size", "wide", "key", "payload", "failed"}
  /\ want \in Nat /\ buf \in Seq(Byte)
  /\ frame \in Message
  /\ header \in [length : Nat, key : [1 .. 4 -> Byte]]
  /\ msg \in Received
  /\ control \in Message /\ replies \in Seq(Message)
  /\ delivered \in Seq(Received)

TypeOK == SendingType /\ ReceivingType

\* The messages that a sequence of frames stands for (RFC 6455, 5.4): the
\* fragments of a message are joined, a control frame is a message of its own.
Content(f) == [RSV |-> f.RSV, OPC |-> f.OPC, context |-> f.context]
Nothing == [all |-> <<>>, part |-> Fresh, open |-> FALSE]
Gather(m, f) ==
  LET part == IF m.open THEN [m.part EXCEPT !.context = @ \o f.context] ELSE Content(f)
  IN  CASE f.OPC >= 8 -> [m EXCEPT !.all = Append(@, Content(f))]
        [] f.OPC < 8 /\ f.FIN = 1 ->
             [all |-> Append(m.all, part), part |-> Fresh, open |-> FALSE]
        [] OTHER -> [all |-> m.all, part |-> part, open |-> TRUE]
Gathered(fs, n) ==
  LET first[i \in 0 .. n] == IF i = 0 THEN Nothing ELSE Gather(first[i - 1], fs[i])
  IN  first[n]
Messages(fs) == Gathered(fs, Len(fs)).all

\* What RefinesChannel asks of the sender: the frames of a message end with the
\* one that has FIN, and a control frame is a message of its own.
Fragmented(fs) ==
  \A i \in DOMAIN fs : (fs[i].FIN = 1 <=> i = Len(fs)) /\ (fs[i].OPC >= 8 => Len(fs) = 1)
Unmixed == {fs \in Seq(Message) : Fragmented(fs)}
UnmixedScripts == Scripts \subseteq [Senders -> Seq(Unmixed)]

\* The two applications see a reliable channel, whatever the segments, the
\* fragments and the masks, and wherever the connection breaks.
Channel == INSTANCE MessageChannel WITH
  sent <- Messages(frames), delivered <- delivered
RefinesChannel == Channel!Spec

\* How many bytes a thread still has to write of the frame it has begun.
Left(s) ==
  Len(out[s])
  + (IF spc[s] = "prefix" THEN 4 * Current(s).MSK ELSE 0)
  + (IF spc[s] \in {"prefix", "mask"} THEN Len(Current(s).context) ELSE 0)

\* The receiver never loses the frame boundaries: each frame it starts to read
\* begins where the sender began one.
FrameSync ==
  rpc = "head" /\ buf = <<>> =>
    \/ \E i \in DOMAIN starts : starts[i] = rd
    \/ (rd = Len(stream) /\ \A s \in Senders : Left(s) = 0)

\* Not a byte is sent after a CLOSE frame, by any thread, even when the CLOSE
\* itself is cut short and opening() stays true.
NothingAfterClose ==
  \A i, j \in DOMAIN frames :
    i < j /\ frames[i].OPC = OPC_CLOSE => starts[j] = Len(stream)

\* Unless the connection breaks, all that is sent arrives, and all is sent but
\* what a CLOSE forbids.
Broken == link # "up" \/ sock = "closed"
AllArrives ==
  <>(Broken \/ (/\ \A s \in Senders : todo[s] = <<>>
                /\ delivered = Messages(frames)))

\* However the connection ends, the receiver learns of it.
EndIsNoticed == link # "up" ~> rpc = "failed"

(***************************************************************************)
(* The inductive invariant behind TypeOK and NothingAfterClose: only the   *)
(* holder of the lock is anywhere in frame(), on the last frame begun; and *)
(* after a CLOSE the socket takes no more, or nobody may begin.            *)
(***************************************************************************)
Midway(s) == spc[s] \in {"prefix", "mask", "payload"}

Sending ==
  \A s \in Senders :
    /\ spc[s] # "idle" => holder = s /\ todo[s] # <<>>
    /\ ~ Midway(s) => out[s] = <<>>
    /\ Midway(s) => /\ Head(todo[s]) # <<>>
                    /\ frames # <<>> /\ frames[Len(frames)] = Current(s)

Closing ==
  /\ ~ opening => \A s \in Senders : ~ Midway(s)
  /\ \A i \in DOMAIN frames : frames[i].OPC = OPC_CLOSE =>
       \/ sock = "closed" /\ \A j \in DOMAIN frames : i < j => starts[j] = Len(stream)
       \/ i = Len(frames) /\ (opening => \E s \in Senders : Midway(s))

\* What frame() waits for is what is missing of its current part.
Receiving ==
  /\ rpc \in {"head", "size"} => Len(buf) + want = 1
  /\ rpc = "wide" => Len(buf) > 0 /\ Len(buf) + want = 1 + Announced(buf[1])
  /\ rpc = "key" => Len(buf) + want \in {0, 4}
  /\ rpc = "payload" => Len(buf) + want = header.length

\* In every reachable state the threads that send keep out of each other's
\* frames, and the receiver's buffer fits the part it reads.
WebSocketInv == TypeOK /\ Sending /\ Closing /\ Receiving

(***************************************************************************)
(* What RFC 6455, kept with the code, says of control frames.              *)
(***************************************************************************)
\* "An endpoint MUST be capable of handling control frames in the middle of a
\* fragmented message": the data messages arrive as they were sent.
Data(messages) == SelectSeq(messages, LAMBDA m : m.OPC < 8)
ControlApart == IsPrefix(Data(delivered), Data(Messages(frames)))
===============================================================================
