----------------------------- MODULE ClumpFifo -----------------------------
(***************************************************************************)
(* What the clump queues of the virtual machine promise: RunQ, RestQ and   *)
(* the WaitQ of every mutex are disjoint first-in first-out queues of      *)
(* clumps.  The operators below are the queue operations of c_cmd.c seen   *)
(* at that level; ClumpScheduler computes with them, and ClumpQueues shows *)
(* that the heads, tails and the single Link field the code really keeps   *)
(* implement them.                                                         *)
(***************************************************************************)
EXTENDS ClumpNames

VARIABLE queue   \* the contents of every queue, head first

IsClumpOnQ(Q, q, c) == \E i \in DOMAIN Q[q] : Q[q][i] = c

\* c is on none of the queues of Q.
OffQueues(Q, c) == \A q \in Queues : ~IsClumpOnQ(Q, q, c)

\* The sequence s with its first c taken out; s itself when c is not in it.
Without(s, c) ==
  IF \E i \in DOMAIN s : s[i] = c
  THEN LET k == CHOOSE k \in DOMAIN s :
                  s[k] = c /\ \A i \in DOMAIN s : s[i] = c => k <= i
       IN  [i \in 1 .. Len(s) - 1 |-> IF i < k THEN s[i] ELSE s[i + 1]]
  ELSE s

EnQClump(Q, q, c) == [Q EXCEPT ![q] = Append(@, c)]

DeQClump(Q, q, c) == [Q EXCEPT ![q] = Without(@, c)]

\* A fault: the head stays where it is.
RotateNothing(Q) == Q

\* cCmdRotateQ: the head of a RunQ of two clumps or more becomes its tail.
RotateQ(Q) ==
  IF Len(Q[RunQ]) < 2 THEN Q
  ELSE [Q EXCEPT ![RunQ] = Append(Tail(@), Head(@))]

\* No clump is twice on a queue of Q, nor on two of them.
Exclusive(Q) ==
  \A p, q \in Queues :
    \A i \in DOMAIN Q[p], j \in DOMAIN Q[q] :
      Q[p][i] = Q[q][j] => p = q /\ i = j

-----------------------------------------------------------------------------
(***************************************************************************)
(* The queues as a system of their own: any operation whose assertions     *)
(* hold, in any order.                                                     *)
(***************************************************************************)
FifoInit == queue = [q \in Queues |-> <<>>]

EnQ(q, c) == OffQueues(queue, c) /\ queue' = EnQClump(queue, q, c)

DeQ(q, c) == IsClumpOnQ(queue, q, c) /\ queue' = DeQClump(queue, q, c)

Rotate == queue' = RotateQ(queue)

FifoNext ==
  \/ \E q \in Queues, c \in Clumps : EnQ(q, c) \/ DeQ(q, c)
  \/ Rotate

FifoSpec == FifoInit /\ [][FifoNext]_queue

-----------------------------------------------------------------------------
\* No clump is twice on a queue, nor on two queues: the single Link field of
\* CLUMP_REC (c_cmd.h) leaves room for one membership only.
QueueExclusive == Exclusive(queue)
=============================================================================
