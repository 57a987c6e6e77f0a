---------------------------- MODULE MCPrefixCode ----------------------------
(* A prefix code of up to two or three bits, read with the token kinds that occur. *)
EXTENDS PrefixCode

MCComplexSymbol == <<1, 2, 3, 0, 17, 16>>
=============================================================================
