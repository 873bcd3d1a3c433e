----------------------------- MODULE MessageFifo -----------------------------
(***************************************************************************)
(* What message queues and the datalog promise: bounded first-in first-out *)
(* buffers.  A write to a full one drops the oldest entry, even if there   *)
(* turns out to be no memory for the new one.                              *)
(***************************************************************************)
EXTENDS Naturals, Sequences

CONSTANTS Queues, MESSAGES_PER_QUEUE, Message

VARIABLE messages

\* A write first makes room.
Remaining(q) ==
  IF Len(messages[q]) = MESSAGES_PER_QUEUE[q] THEN Tail(messages[q]) ELSE messages[q]

FifoInit == messages = [q \in Queues |-> <<>>]

Write(q, m) == messages' = [messages EXCEPT ![q] = Append(Remaining(q), m)]

WriteFails(q) == messages' = [messages EXCEPT ![q] = Remaining(q)]

Take(q) == messages[q] # <<>> /\ messages' = [messages EXCEPT ![q] = Tail(@)]

Clear == messages' = [q \in Queues |-> <<>>]

FifoNext ==
  \/ \E q \in Queues : WriteFails(q) \/ Take(q) \/ \E m \in Message : Write(q, m)
  \/ Clear

FifoSpec == FifoInit /\ [][FifoNext]_messages
=============================================================================
