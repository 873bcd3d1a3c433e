----------------------------- MODULE ClumpNames -----------------------------
(***************************************************************************)
(* The clumps of a program and the queues they can be on, which the queues *)
(* as sequences, the queues as lists and the scheduler have in common.     *)
(***************************************************************************)
EXTENDS Naturals, Sequences, FiniteSets

CONSTANTS
  Clumps,       \* the CLUMP_IDs of the program, NOT_A_CLUMP excluded
  Mutexes,      \* the TC_MUTEX elements of the dataspace; each one has a WaitQ
  RunQ,         \* clumps that are ready to run; the head is the active clump
  RestQ,        \* clumps that sleep in a WAIT
  NOT_A_CLUMP   \* 0xFF: no clump, end of a list

ASSUME QueueNames == RunQ # RestQ /\ RunQ \notin Mutexes /\ RestQ \notin Mutexes

ASSUME ClumpIds == IsFiniteSet(Clumps) /\ NOT_A_CLUMP \notin Clumps

Queues == {RunQ, RestQ} \cup Mutexes
=============================================================================
