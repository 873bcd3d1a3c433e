---------------------------- MODULE MessageQueue ----------------------------
(***************************************************************************)
(* The message queues and the datalog (c_cmd.c): ring buffers of dope      *)
(* vectors.  Programs and remote commands write and read them between the  *)
(* program's array instructions, all in the same pool of memory.           *)
(***************************************************************************)
EXTENDS MemMgr

CONSTANTS
  Queues,              \* the message queues, and the datalog
  MESSAGES_PER_QUEUE,  \* how many messages each holds
  Message,             \* messages and datalog entries
  Length,              \* the length of each
  NoMessage

ASSUME MessageConstants ==
  /\ MESSAGES_PER_QUEUE \in [Queues -> Nat \ {0}]
  /\ Length \in [Message -> Nat]

VARIABLES
  Messages,    \* MESSAGE_QUEUE.Messages: a DV or NOT_A_DS_ID in every slot
  ReadIndex, WriteIndex,
  content      \* history: the message that was copied to a DV's array

queueVars == <<Messages, ReadIndex, WriteIndex, content>>
vars == <<memVars, queueVars>>

Slots(q) == 0 .. MESSAGES_PER_QUEUE[q] - 1

IS_DV_INDEX_SANE(M, d) == d > 0 /\ d < M.Count[0]

Following(q, index) == (index + 1) % MESSAGES_PER_QUEUE[q]

QueueInit ==
  /\ Messages = [q \in Queues |-> [s \in Slots(q) |-> NOT_A_DS_ID]]
  /\ ReadIndex = [q \in Queues |-> 0]
  /\ WriteIndex = [q \in Queues |-> 0]
  /\ content = [d \in DVs |-> NoMessage]

\* The slot's DV gets an array, or goes.
StoredIn(alloc, array) ==
  IF array.status = "ERR_MEM"
  THEN [mem |-> FreeDopeVector(array.mem, alloc.dv), status |-> "ERR_MEM", dv |-> NOT_A_DS_ID]
  ELSE [mem |-> array.mem, status |-> "NO_ERR", dv |-> alloc.dv]

StoredWith(alloc, size) ==
  IF alloc.status = "ERR_MEM" THEN alloc
  ELSE StoredIn(alloc, DVArrayAlloc(alloc.mem, alloc.dv, size))

\* The memory part of a write to a slot that holds d: get the slot a DV and
\* the DV an array, or leave the slot empty.
Store(S, size) ==
  StoredWith(IF IS_DV_INDEX_SANE(S.mem, S.dv)
             THEN [mem |-> S.mem, status |-> "NO_ERR", dv |-> S.dv]
             ELSE AllocDopeVector(S.mem, 1), size)

\* A fault: a full queue's oldest message is overwritten and stays the first.
WriteKeepsReadIndex(q, m, ends) ==
  LET w == WriteIndex[q]
      S == [mem |-> mem, dv |-> Messages[q][w]]
      Alloc(s) == Store([mem |-> s.mem, dv |-> s.dv], Length[m])
  IN  /\ \E done \in {Retried(Alloc, S)} :
           /\ mem' = done.mem
           /\ Messages' = [Messages EXCEPT ![q][w] = done.dv]
           /\ content' = [content EXCEPT ![S.dv] = NoMessage, ![done.dv] = m]
           /\ \/ /\ done.status = "NO_ERR"
                 /\ WriteIndex' = [WriteIndex EXCEPT ![q] = Following(q, @)]
                 /\ UNCHANGED running
              \/ /\ done.status = "ERR_MEM"
                 /\ running' = ~ends
                 /\ UNCHANGED WriteIndex
      /\ UNCHANGED ReadIndex
      /\ wild' = (S.dv \in DVs /\ Overgrows(S.dv, Length[m]))
      /\ UNCHANGED elements

\* cCmdMessageWrite and cCmdDatalogWrite, from an instruction, which ends the
\* program if there is no memory, or from a remote command, which does not.
\* Both compact the dataspace and try once more.
Write(q, m, ends) ==
  LET w == WriteIndex[q]
      S == [mem |-> mem, dv |-> Messages[q][w]]
      Alloc(s) == Store([mem |-> s.mem, dv |-> s.dv], Length[m])
  IN  /\ \E done \in {Retried(Alloc, S)} :
           /\ mem' = done.mem
           /\ Messages' = [Messages EXCEPT ![q][w] = done.dv]
           /\ content' = [content EXCEPT ![S.dv] = NoMessage, ![done.dv] = m]
           /\ \/ /\ done.status = "NO_ERR"
                 /\ WriteIndex' = [WriteIndex EXCEPT ![q] = Following(q, @)]
                 /\ UNCHANGED running
              \/ /\ done.status = "ERR_MEM"
                 /\ running' = ~ends
                 /\ UNCHANGED WriteIndex
      /\ ReadIndex' = IF IS_DV_INDEX_SANE(mem, S.dv)
                      THEN [ReadIndex EXCEPT ![q] = Following(q, @)] ELSE ReadIndex
      /\ wild' = (S.dv \in DVs /\ Overgrows(S.dv, Length[m]))
      /\ UNCHANGED elements

Oldest(q) == Messages[q][ReadIndex[q]]

\* What cCmdMessageRead leaves in M and the queue when it removes a message.
Remove(q, M) ==
  /\ mem' = FreeDopeVector(M, Oldest(q))
  /\ Messages' = [Messages EXCEPT ![q][ReadIndex[q]] = NOT_A_DS_ID]
  /\ ReadIndex' = [ReadIndex EXCEPT ![q] = Following(q, @)]
  /\ content' = [content EXCEPT ![Oldest(q)] = NoMessage]

\* A remote command takes the oldest message, unless it is empty.
RemoteRead(q) ==
  /\ IS_DV_INDEX_SANE(mem, Oldest(q)) /\ mem.Count[Oldest(q)] > 0
  /\ Remove(q, mem)
  /\ UNCHANGED <<elements, running, wild, WriteIndex>>

\* The system call reads it into the program's array d, which gets its size,
\* or the size of an empty string if there is no message or an empty one.
ReadInto(q, d, removes) ==
  LET found == IS_DV_INDEX_SANE(mem, Oldest(q)) /\ mem.Count[Oldest(q)] > 0
      size == IF found THEN mem.Count[Oldest(q)] ELSE 1
      S == [mem |-> mem]
      Alloc(s) == DVArrayAlloc(s.mem, d, size)
  IN  /\ \E done \in {Retried(Alloc, S)} :
           \/ /\ found /\ removes /\ done.status = "NO_ERR"
              /\ Remove(q, done.mem)
              /\ UNCHANGED running
           \/ /\ ~(found /\ removes /\ done.status = "NO_ERR")
              /\ mem' = done.mem
              /\ running' = (done.status = "NO_ERR")
              /\ UNCHANGED <<Messages, ReadIndex, content>>
      /\ wild' = Overgrows(d, size)
      /\ UNCHANGED <<elements, WriteIndex>>

Init == MemInit /\ QueueInit

\* cCmdActivateProgram empties the queues.
Activate ==
  /\ MemActivate
  /\ Messages' = [q \in Queues |-> [s \in Slots(q) |-> NOT_A_DS_ID]]
  /\ ReadIndex' = [q \in Queues |-> 0]
  /\ WriteIndex' = [q \in Queues |-> 0]
  /\ content' = [d \in DVs |-> NoMessage]

ArrayInstruction ==
  /\ \/ \E d \in ProgramDVs, n \in 0 .. MaxCount : ResizeArray(d, n)
     \/ \E d \in Nested, n \in 0 .. MaxCount :
          \E i \in DOMAIN elements[d] : ResizeElement(d, i, n)
     \/ MemoryManager
  /\ UNCHANGED queueVars

QueueOperation ==
  \E q \in Queues :
    \/ \E m \in Message : Write(q, m, TRUE)
    \/ \E m \in Message : Length[m] > 0 /\ Write(q, m, FALSE)
    \/ RemoteRead(q)
    \/ \E d \in ProgramDVs \ Nested, removes \in BOOLEAN : ReadInto(q, d, removes)

Next ==
  \/ running /\ ~wild /\ ArrayInstruction
  \/ running /\ ~wild /\ QueueOperation
  \/ ~wild /\ Activate

Spec == Init /\ [][Next]_vars

-----------------------------------------------------------------------------
TypeOK ==
  /\ mem.Head \in DVs /\ mem.Tail \in DVs
  /\ mem.FreeHead \in DVs \cup {NOT_A_DS_ID}
  /\ mem.Link \in [DVs -> DVs \cup {NOT_A_DS_ID}]
  /\ mem.BackLink \in [DVs -> DVs \cup {NOT_A_DS_ID}]
  /\ mem.Offset \in [DVs -> Nat]
  /\ mem.ElemSize \in [DVs -> Nat] /\ mem.Count \in [DVs -> Nat]
  /\ mem.DataspaceSize \in Nat
  /\ elements \in [Nested -> Seq(DVs \cup {STALE})]
  /\ running \in BOOLEAN /\ wild \in BOOLEAN
  /\ \A q \in Queues :
       /\ Messages[q] \in [Slots(q) -> DVs \cup {NOT_A_DS_ID}]
       /\ ReadIndex[q] \in Slots(q) /\ WriteIndex[q] \in Slots(q)
  /\ content \in [DVs -> Message \cup {NoMessage}]

Range_(s) == {s[i] : i \in DOMAIN s}

\* The DVs in use and the free ones are all there are, each once, the links
\* back agree with the links, and the list is in the order of the offsets:
\* what cCmdVerifyMemMgr asserts after every operation, with the free list
\* checked too (c_cmd.c:3282-3327, c_cmd.h:270).
MemMgrVerified ==
  LET used == Used(mem)
      free == Free(mem)
  IN  /\ used \o free \in [1 .. mem.Count[0] -> 0 .. mem.Count[0] - 1]
      /\ Range_(used \o free) = 0 .. mem.Count[0] - 1
      /\ used[Len(used)] = mem.Tail
      /\ \A list \in {used, free} : \A i \in DOMAIN list :
           mem.BackLink[list[i]] = IF i = 1 THEN NOT_A_DS_ID ELSE list[i - 1]
      /\ \A i, j \in DOMAIN used :
           i < j /\ mem.Offset[used[i]] # NOT_AN_OFFSET /\ mem.Offset[used[j]] # NOT_AN_OFFSET
           => mem.Offset[used[i]] <= mem.Offset[used[j]]

\* No byte of the pool belongs to two arrays, and all arrays lie within the
\* dataspace and the pool, and compaction only moves them down, whatever grew,
\* moved, failed or was compacted before, unless an array has grown over a
\* neighbour that has no offset.
ArraysDisjoint ==
  LET arrays == {d \in DVs : mem.Offset[d] # NOT_AN_OFFSET}
  IN  ~wild =>
        /\ mem.DataspaceSize <= POOL_MAX_SIZE
        /\ MovesDown(mem)
        /\ \A d \in arrays : /\ mem.Offset[d] >= DSStaticSize
                             /\ mem.Offset[d] + Size(mem, d) <= mem.DataspaceSize
        /\ \A d, e \in arrays :
             d # e => \/ mem.Offset[d] + Size(mem, d) <= mem.Offset[e]
                      \/ mem.Offset[e] + Size(mem, e) <= mem.Offset[d]

\* The places from which a DV can be referred to.
References ==
  {<<"program", d>> : d \in {0} \cup ProgramDVs}
  \cup {<<"element", d, i>> : d \in Nested, i \in 1 .. MaxCount}
  \cup UNION {{<<"slot", q, s>> : s \in Slots(q)} : q \in Queues}

\* The DVs that live in the place r: one or none.
At(r) ==
  CASE r[1] = "program" -> {r[2]}
    [] r[1] = "element" -> IF r[3] \in DOMAIN elements[r[2]] /\ elements[r[2]][r[3]] # STALE
                           THEN {elements[r[2]][r[3]]} ELSE {}
    [] r[1] = "slot" -> {Messages[r[2]][r[3]]} \ {NOT_A_DS_ID}

\* Every DV in use belongs to exactly one array of the program, element or
\* message slot, and every one of these has a DV in use: nothing leaks when an
\* operation fails half way, and nothing keeps a DV that was freed.
VectorsOwned ==
  ~wild =>
    /\ Range_(Used(mem)) = UNION {At(r) : r \in References}
    /\ \A r, s \in References : r # s => At(r) \cap At(s) = {}

\* The messages in q, from the oldest to the newest.
Queued(q) ==
  LET n == Cardinality({s \in Slots(q) : Messages[q][s] # NOT_A_DS_ID})
  IN  [i \in 1 .. n |-> content[Messages[q][(ReadIndex[q] + i - 1) % MESSAGES_PER_QUEUE[q]]]]

Fifo == INSTANCE MessageFifo WITH messages <- [q \in Queues |-> Queued(q)]

\* Whatever happens to the memory, writes that find none and are tried again
\* included, every queue is a first-in first-out buffer that loses only its
\* oldest message, and only when it is full.
ImplementsFifo == Fifo!FifoSpec

\* An element of an array of arrays always has a DV: "For any array it finds,
\* a dope vector is allocated and the DVIndex is placed in the dataspace"
\* (c_cmd.c:2954).
ElementsAllocated ==
  running => \A d \in Nested : STALE \notin Range_(elements[d])

\* "NXT_ASSERT(NewOffset < CurrOffset)" (c_cmd.c:3364): compaction, whenever
\* it happens, moves arrays down.
CompactionMovesDown == running => MovesDown(mem)
=============================================================================
