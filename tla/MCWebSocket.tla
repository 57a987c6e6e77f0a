----------------------------- MODULE MCWebSocket -----------------------------
(***************************************************************************)
(* WebSocket with two sending threads: one sends a message in two          *)
(* fragments, the other a message and then CLOSE, masked and unmasked.     *)
(* Other scripts have a length of 126 bytes, or a ping between two         *)
(* fragments.                                                              *)
(***************************************************************************)
EXTENDS WebSocket, TLC, Bitwise

CONSTANTS s1, s2

MCXor(x, y) == x ^^ y

Frame(fin, msk, opc, context) ==
  [FIN |-> fin, RSV |-> 0, MSK |-> msk, OPC |-> opc, context |-> context]

Fragments == <<Frame(0, 1, OPC_TEXT, <<1, 2>>), Frame(1, 0, OPC_CONTINUATION, <<255>>)>>
Whole(msk) == <<Frame(1, msk, OPC_BINARY, <<7>>)>>
CloseIt == <<Frame(1, 0, OPC_CLOSE, <<>>)>>
PingInside == <<Fragments[1], Frame(1, 1, OPC_PING, <<9>>), Fragments[2]>>

Long == <<Frame(1, 1, OPC_BINARY, [i \in 1 .. 126 |-> i])>>

MCKeys == {<<1, 2, 3, 4>>}

\* Two threads at once; and, alone, 126 bytes that need an extended length.
MCScripts ==
  { (s1 :> <<Fragments>>) @@ (s2 :> <<Whole(1), CloseIt>>),
    (s1 :> <<[Fragments EXCEPT ![2].RSV = 1]>>) @@ (s2 :> <<Whole(0)>>),
    (s1 :> <<Long, Whole(0)>>) @@ (s2 :> <<>>) }

\* All of them keep control frames out of a message; MCPing does not.
ASSUME ScriptsUnmixed ==
  \A script \in MCScripts : \A s \in Senders :
    \A i \in DOMAIN script[s] : Fragmented(script[s][i])

MCPing == { (s1 :> <<PingInside>>) @@ (s2 :> <<>>) }
===============================================================================
