-------------------------- MODULE MCClumpScheduler --------------------------
(***************************************************************************)
(* A small program with every scheduling instruction.  `main' and `aux'    *)
(* start it and both precede `join'; `main' calls `sub' with the short     *)
(* form, `aux' with the long form, `join' starts and stops `task' as       *)
(* everyone may, and `aux' may be stopped in the middle of its call.       *)
(***************************************************************************)
EXTENDS ClumpScheduler

CONSTANTS main, aux, join, task, sub, m1, m2

Program == {main, aux, join, task, sub}
ProgramTable == <<main, aux, join, task, sub>>
Dataspace == {m1, m2}
DataspaceTOC == <<m1, m2>>

FireCounts ==
  [c \in Program |-> IF c \in {main, aux} THEN 0 ELSE IF c = join THEN 2 ELSE 1]
DependentLists ==
  [c \in Program |-> IF c \in {main, aux} THEN <<join>> ELSE <<>>]
MutexUses ==
  [c \in Program |-> IF c = sub THEN {m2} ELSE IF c = join THEN {} ELSE {m1, m2}]

ASSUME Program_WellFormed == WellFormed
=============================================================================
