---------------------------- MODULE ClumpQueues ----------------------------
(***************************************************************************)
(* The clump queues as c_cmd.c keeps them: a Head and a Tail for every     *)
(* queue, and one Link in every CLUMP_REC that all the queues share.  The  *)
(* assertions of cCmdEnQClump and cCmdDeQClump are the guards of the       *)
(* actions, since a release build compiles them out and relies on callers. *)
(***************************************************************************)
EXTENDS ClumpNames

VARIABLES QHead, QTail,   \* CLUMP_Q.Head and CLUMP_Q.Tail of every queue
          Link            \* CLUMP_REC.Link of every clump

vars == <<QHead, QTail, Link>>

\* The clumps a walk from Head along Link meets, in order.  The walk gives up
\* after one clump more than there are: a longer one is in a cycle.
Walk(q) ==
  LET steps == 1 .. Cardinality(Clumps) + 1
      met[n \in steps] ==
        IF n = 1 THEN QHead[q]
        ELSE LET last == met[n - 1]
             IN  IF last = NOT_A_CLUMP THEN NOT_A_CLUMP ELSE Link[last]
  IN  [n \in {i \in steps : met[i] # NOT_A_CLUMP} |-> met[n]]

IsClumpOnQ(q, c) == \E i \in DOMAIN Walk(q) : Walk(q)[i] = c

Init ==
  /\ QHead = [q \in Queues |-> NOT_A_CLUMP]
  /\ QTail = [q \in Queues |-> NOT_A_CLUMP]
  /\ Link = [c \in Clumps |-> NOT_A_CLUMP]

\* A fault: the clump joins at the front.
EnQClumpInFront(q, c) ==
  /\ \A p \in Queues : ~IsClumpOnQ(p, c)
  /\ QHead' = [QHead EXCEPT ![q] = c]
  /\ QTail' = IF QHead[q] = NOT_A_CLUMP THEN [QTail EXCEPT ![q] = c] ELSE QTail
  /\ Link' = [Link EXCEPT ![c] = QHead[q]]

EnQClump(q, c) ==
  /\ \A p \in Queues : ~IsClumpOnQ(p, c)
  /\ QTail' = [QTail EXCEPT ![q] = c]
  /\ \/ /\ QHead[q] = NOT_A_CLUMP
        /\ QHead' = [QHead EXCEPT ![q] = c]
        /\ Link' = [Link EXCEPT ![c] = NOT_A_CLUMP]
     \/ /\ QHead[q] # NOT_A_CLUMP
        /\ Link' = [Link EXCEPT ![c] = NOT_A_CLUMP, ![QTail[q]] = c]
        /\ UNCHANGED QHead

\* The head: the next clump moves up, and an emptied queue loses its tail.
DeQHead(q, c) ==
  /\ QHead[q] = c
  /\ QHead' = [QHead EXCEPT ![q] = Link[c]]
  /\ QTail' = IF Link[c] = NOT_A_CLUMP
              THEN [QTail EXCEPT ![q] = NOT_A_CLUMP] ELSE QTail
  /\ Link' = [Link EXCEPT ![c] = NOT_A_CLUMP]

\* Any other member: its predecessor takes over its link, and becomes the
\* tail if c was the tail.
DeQInner(q, c) ==
  LET pred == CHOOSE p \in Clumps : IsClumpOnQ(q, p) /\ Link[p] = c
  IN  /\ QHead[q] # c
      /\ Link' = [Link EXCEPT ![pred] = Link[c], ![c] = NOT_A_CLUMP]
      /\ QTail' = IF QTail[q] = c THEN [QTail EXCEPT ![q] = pred] ELSE QTail
      /\ UNCHANGED QHead

DeQClump(q, c) == IsClumpOnQ(q, c) /\ (DeQHead(q, c) \/ DeQInner(q, c))

RotateQ ==
  LET head == QHead[RunQ]
  IN  /\ head # QTail[RunQ]
      /\ QHead' = [QHead EXCEPT ![RunQ] = Link[head]]
      /\ QTail' = [QTail EXCEPT ![RunQ] = head]
      /\ Link' = [Link EXCEPT ![head] = NOT_A_CLUMP, ![QTail[RunQ]] = head]

Next ==
  \/ \E q \in Queues, c \in Clumps : EnQClump(q, c) \/ DeQClump(q, c)
  \/ RotateQ

Spec == Init /\ [][Next]_vars

-----------------------------------------------------------------------------
\* cCmdIsQSane, which nearly every operation asserts of its queue: a head without a tail,
\* a tail without a head, or a head that is linked to nobody, is insane.
IsQSane(q) ==
  /\ QHead[q] = NOT_A_CLUMP => QTail[q] \notin Clumps
  /\ QHead[q] \in Clumps => QTail[q] # NOT_A_CLUMP
  /\ QHead[q] \in Clumps /\ QTail[q] \in Clumps /\ QHead[q] # QTail[q] =>
       Link[QHead[q]] # NOT_A_CLUMP

\* The assertions of sane queues hold (c_cmd.c:2381, 2414, 2466, 2488, 2501).
QueuesSane == \A q \in Queues : IsQSane(q)

\* The queues that heads, tails and the shared Link make up.
Fifo == INSTANCE ClumpFifo WITH queue <- [q \in Queues |-> Walk(q)]

\* The operations on the lists are those on the queues; ClumpLists states this
\* of the scheduler's clumps.
ImplementsFifo == Fifo!FifoSpec
=============================================================================
