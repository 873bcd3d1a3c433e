----------------------------- MODULE ClumpLists -----------------------------
(***************************************************************************)
(* The lists of ClumpQueues, of the clumps and mutexes that ClumpScheduler *)
(* works with.  They are a system of their own: which clump enters and     *)
(* leaves which queue is left open.                                        *)
(***************************************************************************)
EXTENDS ClumpNames

VARIABLES QHead, QTail, Link   \* as in ClumpQueues

Linked == INSTANCE ClumpQueues

LinkedSpec == Linked!Spec

\* Every queue operation on the linked lists (c_cmd.c:2377-2492) is that operation on
\* first-in first-out queues: nothing else on that queue or on another one moves.
ListsImplementFifo == Linked!ImplementsFifo
=============================================================================
