--------------------------- MODULE MCMessageQueue ---------------------------
(* One byte array and one array of byte arrays, both empty in the program   *)
(* file, one message queue of two messages, and a pool of a few bytes.      *)
EXTENDS MessageQueue, TLC

CONSTANTS mailbox, empty, text

DefaultDef == <<[ElemSize |-> 1, Count |-> 1], [ElemSize |-> 1, Count |-> 0]>>
LengthDef == (empty :> 0) @@ (text :> 2)
DepthDef == mailbox :> 2
=============================================================================
