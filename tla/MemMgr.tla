------------------------------- MODULE MemMgr -------------------------------
(***************************************************************************)
(* The memory manager of the virtual machine (c_cmd.c).  Every array has a *)
(* dope vector (DV), an entry of an array that is itself described by DV 0.*)
(* DVs in use form a doubly linked list in the order of their offsets, the *)
(* others a free list.  Arrays grow in place or move to the end of the     *)
(* dataspace; a full pool is compacted and the instruction tried again.    *)
(*                                                                         *)
(* What the C functions pass around in VarsCmd is one record M here, so    *)
(* that a handler can call several of them in turn.  Writes to a DV that   *)
(* does not exist (index NOT_A_DS_ID) fall outside of the array and of the *)
(* model.  Counts are small enough for sizes not to overflow a UWORD.      *)
(***************************************************************************)
EXTENDS Integers, Sequences, FiniteSets, FiniteSetsExt

CONSTANTS
  MaxDV,          \* bound: the pool has no room for more DVs than 0 .. MaxDV
  Default,        \* the arrays of the program file: Default[i] is that of DV i
  Nested,         \* those whose elements are arrays
  MaxCount,       \* bound: the longest array an instruction asks for
  DVSize,         \* sizeof(DOPE_VECTOR)
  IndexSize,      \* sizeof(DV_INDEX), the size of an element that is an array
  LeafSize,       \* the size of an element of such an element
  SIZE_ULONG,     \* all arrays start at multiples of it
  DSStaticSize,   \* where the dynamic part of the dataspace begins
  POOL_MAX_SIZE   \* room from the start of the dataspace to the pool's end

NOT_A_DS_ID == 65535
NOT_AN_OFFSET == 65535
DV_ARRAY_GROWTH_COUNT == 1    \* 25 in the code
STALE == 65534                \* stands for whatever an element holds that was never written

DVs == 0 .. MaxDV
ProgramDVs == DOMAIN Default

Align(n) == ((n + SIZE_ULONG - 1) \div SIZE_ULONG) * SIZE_ULONG

ASSUME MemMgrConstants ==
  /\ MaxDV \in Nat /\ Len(Default) < MaxDV /\ MaxDV < STALE
  /\ Default \in Seq([ElemSize : Nat \ {0}, Count : Nat])
  /\ Nested \subseteq ProgramDVs
  /\ \A i \in Nested : Default[i] = [ElemSize |-> IndexSize, Count |-> 0]
  /\ {DVSize, IndexSize, LeafSize, SIZE_ULONG} \subseteq Nat \ {0}
  /\ {MaxCount, DSStaticSize, POOL_MAX_SIZE} \subseteq Nat
  /\ POOL_MAX_SIZE <= (MaxDV + 1) * DVSize + DSStaticSize
  /\ POOL_MAX_SIZE <= NOT_AN_OFFSET    \* 32768 in the code
  /\ Align(POOL_MAX_SIZE) = POOL_MAX_SIZE /\ Align(DSStaticSize) = DSStaticSize

VARIABLES
  mem,       \* VarsCmd.MemMgr, the DVs, DataspaceSize (PoolSize moves with it)
  elements,  \* the DV indices stored in the arrays of arrays
  running,   \* the program has not been ended by ERR_MEM
  wild       \* history: an array has grown over another's memory, or an index
             \* that was never written has been used: anything may follow

memVars == <<mem, elements, running, wild>>

Size(M, d) == M.ElemSize[d] * M.Count[d]

-----------------------------------------------------------------------------
(***************************************************************************)
(* The list of DVs in use, and the free list.                              *)
(***************************************************************************)

Unlink(M, d) ==
  LET prev == IF d = M.Head THEN NOT_A_DS_ID ELSE M.BackLink[d]
      post == M.Link[d]
  IN  [M EXCEPT !.Head = IF d = M.Head THEN post ELSE @,
                !.Link[prev] = post,
                !.BackLink[post] = prev]

\* cCmdMemMgrInsertAtTail
InsertAtTail(M, d) ==
  [M EXCEPT !.Link = [@ EXCEPT ![M.Tail] = d, ![d] = NOT_A_DS_ID],
            !.BackLink[d] = M.Tail,
            !.Tail = d]

\* cCmdMemMgrMoveToTail
MoveToTail(M, d) == IF d = M.Tail THEN M ELSE InsertAtTail(Unlink(M, d), d)

\* A fault: the tail is not moved back when the last DV is freed.
FreeDopeVectorKeepsTail(M, d) ==
  [Unlink(M, d) EXCEPT
    !.Count[d] = 0, !.ElemSize[d] = 0, !.Offset[d] = NOT_AN_OFFSET,
    !.Link[d] = M.FreeHead,
    !.BackLink = [@ EXCEPT ![d] = NOT_A_DS_ID, ![M.FreeHead] = d],
    !.FreeHead = d]

\* cCmdFreeDopeVector: off the list, wherever it is, and onto the free list.
FreeDopeVector(M, d) ==
  [Unlink(M, d) EXCEPT
    !.Count[d] = 0, !.ElemSize[d] = 0, !.Offset[d] = NOT_AN_OFFSET,
    !.Tail = IF d = M.Tail /\ d # M.Head THEN M.BackLink[d] ELSE @,
    !.Link[d] = M.FreeHead,
    !.BackLink = [@ EXCEPT ![d] = NOT_A_DS_ID, ![M.FreeHead] = d],
    !.FreeHead = d]

\* A new array of that size fits behind the others.
Fits(M, size) == Align(M.DataspaceSize) + size < POOL_MAX_SIZE

\* The DVs at the end of the dataspace, the new ones on the free list, the
\* last one first.
GrownDopeVectors(M, OldCount, NewCount) ==
  LET new == OldCount .. NewCount - 1
  IN  [M EXCEPT
        !.Offset[0] = M.DataspaceSize,
        !.Count[0] = NewCount,
        !.DataspaceSize = @ + DVSize * NewCount,
        !.Link = [i \in DVs |-> IF i \notin new THEN M.Link[i]
                                ELSE IF i + 1 \in new THEN i + 1 ELSE M.FreeHead],
        !.BackLink = [i \in DVs |->
                        IF i \in new THEN IF i - 1 \in new THEN i - 1 ELSE NOT_A_DS_ID
                        ELSE IF i = M.FreeHead /\ new # {} THEN NewCount - 1
                        ELSE M.BackLink[i]],
        !.FreeHead = IF new = {} THEN @ ELSE OldCount]

\* cCmdGrowDopeVectorArray: move all DVs to the end, with room for new ones.
GrowDopeVectorArray(M, NewNodesCount) ==
  LET aligned == [M EXCEPT !.DataspaceSize = Align(@)]
      NewCount == M.Count[0] + NewNodesCount
  IN  IF Fits(M, DVSize * NewCount)
      THEN [mem |-> MoveToTail(GrownDopeVectors(aligned, M.Count[0], NewCount), 0),
            status |-> "NO_ERR"]
      ELSE [mem |-> aligned, status |-> "ERR_MEM"]

\* The first free DV, d, becomes that of an empty array.
TakeDopeVector(M, d, ElemSize) ==
  InsertAtTail([M EXCEPT !.FreeHead = M.Link[d],
                         !.BackLink[M.Link[d]] = NOT_A_DS_ID,
                         !.Offset[d] = NOT_AN_OFFSET,
                         !.ElemSize[d] = ElemSize,
                         !.Count[d] = 0], d)

TakenFrom(grow, ElemSize) ==
  IF grow.status = "ERR_MEM"
  THEN [mem |-> grow.mem, status |-> "ERR_MEM", dv |-> NOT_A_DS_ID]
  ELSE [mem |-> TakeDopeVector(grow.mem, grow.mem.FreeHead, ElemSize),
        status |-> "NO_ERR", dv |-> grow.mem.FreeHead]

\* cCmdAllocDopeVector: an empty array, with a DV from the free list.
AllocDopeVector(M, ElemSize) ==
  TakenFrom(IF M.FreeHead = NOT_A_DS_ID THEN GrowDopeVectorArray(M, DV_ARRAY_GROWTH_COUNT)
            ELSE [mem |-> M, status |-> "NO_ERR"], ElemSize)

-----------------------------------------------------------------------------
(***************************************************************************)
(* Arrays.                                                                 *)
(***************************************************************************)

\* A fault: an array in the middle may grow to the end of the dataspace.
InplaceSizeToEnd(M, d) == M.DataspaceSize - M.Offset[d]

\* What an array may grow to where it is: up to the next array's offset, even
\* if that is NOT_AN_OFFSET, or to the end of the dataspace.
InplaceSize(M, d) ==
  (IF M.Link[d] # NOT_A_DS_ID THEN M.Offset[M.Link[d]] ELSE M.DataspaceSize) - M.Offset[d]

\* cCmdDVArrayAlloc: shrink or grow d in place, or move it to the end.
DVArrayAlloc(M, d, NewCount) ==
  LET ArraySize == NewCount * M.ElemSize[d]
      aligned == [M EXCEPT !.DataspaceSize = Align(@)]
      moved == [aligned EXCEPT !.DataspaceSize = @ + ArraySize,
                               !.Offset[d] = aligned.DataspaceSize,
                               !.Count[d] = NewCount]
  IN  IF \/ NewCount <= M.Count[d]
         \/ M.Offset[d] # NOT_AN_OFFSET /\ ArraySize <= InplaceSize(M, d)
      THEN [mem |-> [M EXCEPT !.Count[d] = NewCount], status |-> "NO_ERR"]
      ELSE IF Fits(M, ArraySize)
      THEN [mem |-> MoveToTail(moved, d), status |-> "NO_ERR"]
      ELSE [mem |-> aligned, status |-> "ERR_MEM"]

\* The DVs a walk from the DV `first' along Link meets, in order.  A longer
\* one than there are DVs is in a cycle.
Walk(M, first) ==
  LET steps == 1 .. MaxDV + 2
      met[n \in steps] ==
        IF n = 1 THEN first
        ELSE LET last == met[n - 1]
             IN  IF last = NOT_A_DS_ID THEN NOT_A_DS_ID ELSE M.Link[last]
  IN  [n \in {i \in steps : met[i] # NOT_A_DS_ID} |-> met[n]]

Used(M) == Walk(M, M.Head)
Free(M) == Walk(M, M.FreeHead)

\* What it really has: up to the next array of the list that has an offset.
InplaceRoom(M, d) ==
  LET list == Used(M)
      above == {M.Offset[list[i]] : i \in {i \in DOMAIN list : \E j \in 1 .. i - 1 : list[j] = d}}
               \ {NOT_AN_OFFSET}
  IN  (IF above = {} THEN M.DataspaceSize ELSE Min(above)) - M.Offset[d]

\* Where compaction puts the arrays of the list: end[i] is where the i-th ends.
Compacted(M) ==
  LET list == Used(M)
      end[i \in 0 .. Len(list)] ==
        IF i = 0 THEN DSStaticSize
        ELSE IF M.Offset[list[i]] = NOT_AN_OFFSET THEN Align(end[i - 1])
        ELSE Align(end[i - 1]) + Size(M, list[i])
  IN  end

\* cCmdDSCompact: slide the arrays down, in the order of the list.
DSCompact(M) ==
  LET list == Used(M)
      end == Compacted(M)
      place(d) == CHOOSE i \in DOMAIN list : list[i] = d
  IN  [M EXCEPT
        !.Offset = [d \in DVs |-> IF M.Offset[d] = NOT_AN_OFFSET THEN NOT_AN_OFFSET
                                  ELSE Align(end[place(d) - 1])],
        !.DataspaceSize = end[Len(list)]]

\* The assertion of cCmdDSCompact: an array only ever moves down.
MovesDown(M) ==
  \A d \in DVs : M.Offset[d] # NOT_AN_OFFSET => DSCompact(M).Offset[d] <= M.Offset[d]

-----------------------------------------------------------------------------
(***************************************************************************)
(* Array instructions.  S is what they change: [mem, elements].            *)
(***************************************************************************)

\* One more element with the DV that AllocDopeVector has returned, if any.
WithElement(dvs, alloc) ==
  [mem |-> alloc.mem, status |-> alloc.status,
   dvs |-> IF alloc.status = "ERR_MEM" THEN dvs ELSE Append(dvs, alloc.dv)]

\* cCmdAllocSubArrayDopeVectors for k new elements, until one gets no DV.
AllocSubArrays(M, k) ==
  LET after[i \in 0 .. k] ==
        IF i = 0 THEN [mem |-> M, status |-> "NO_ERR", dvs |-> <<>>]
        ELSE IF after[i - 1].status = "ERR_MEM" THEN after[i - 1]
        ELSE WithElement(after[i - 1].dvs, AllocDopeVector(after[i - 1].mem, LeafSize))
  IN  after[k]

\* cCmdFreeSubArrayDopeVectors for the elements in the sequence dvs.
FreeSubArrays(M, dvs) ==
  LET after[i \in 0 .. Len(dvs)] ==
        IF i = 0 THEN M
        ELSE IF dvs[i] = STALE THEN after[i - 1] ELSE FreeDopeVector(after[i - 1], dvs[i])
  IN  after[Len(dvs)]

\* d with the k elements that it has become longer by, those that sub has.
Lengthened(S, d, k, sub) ==
  [mem |-> sub.mem, status |-> sub.status,
   elements |-> [S.elements EXCEPT
     ![d] = @ \o sub.dvs \o [i \in 1 .. k - Len(sub.dvs) |-> STALE]]]

\* A fault: the elements that go keep their DVs.
ResizeElementsLeaks(S, d, OldCount, NewCount, array) ==
  IF OldCount = NewCount \/ array.status = "ERR_MEM" \/ d \notin Nested
  THEN [mem |-> array.mem, status |-> array.status, elements |-> S.elements]
  ELSE IF NewCount < OldCount
  THEN [mem |-> array.mem, status |-> "NO_ERR",
        elements |-> [S.elements EXCEPT ![d] = SubSeq(@, 1, NewCount)]]
  ELSE Lengthened(S, d, NewCount - OldCount, AllocSubArrays(array.mem, NewCount - OldCount))

\* After the resizing of d, with the result `array', the DVs of its elements
\* are freed or allocated.
ResizeElements(S, d, OldCount, NewCount, array) ==
  IF OldCount = NewCount \/ array.status = "ERR_MEM" \/ d \notin Nested
  THEN [mem |-> array.mem, status |-> array.status, elements |-> S.elements]
  ELSE IF NewCount < OldCount
  THEN [mem |-> FreeSubArrays(array.mem, SubSeq(S.elements[d], NewCount + 1, OldCount)),
        status |-> "NO_ERR",
        elements |-> [S.elements EXCEPT ![d] = SubSeq(@, 1, NewCount)]]
  ELSE Lengthened(S, d, NewCount - OldCount, AllocSubArrays(array.mem, NewCount - OldCount))

\* cCmdDSArrayAlloc: resize d, then free or allocate the DVs of its elements.
\* If they run out, d has its new count but not all of its elements.
DSArrayAlloc(S, d, NewCount) ==
  ResizeElements(S, d, S.mem.Count[d], NewCount, DVArrayAlloc(S.mem, d, NewCount))

\* cCmdInterpFromClump compacts and tries once more if the instruction has
\* found no memory.
OrAfterCompaction(first, Again(_)) ==
  IF first.status = "ERR_MEM" THEN Again([first EXCEPT !.mem = DSCompact(@)]) ELSE first

Retried(Alloc(_), S) == OrAfterCompaction(Alloc(S), Alloc)

\* Growing d to NewCount goes over the end of its room, because the next DV
\* of the list has no offset and InplaceSize takes NOT_AN_OFFSET for one.
Overgrows(d, NewCount) ==
  /\ NewCount > mem.Count[d]
  /\ mem.Offset[d] # NOT_AN_OFFSET
  /\ mem.Link[d] # NOT_A_DS_ID /\ mem.Offset[mem.Link[d]] = NOT_AN_OFFSET
  /\ NewCount * mem.ElemSize[d] > InplaceRoom(mem, d)

\* An instruction sets the length of the program's array d.
ResizeArray(d, NewCount) ==
  LET S == [mem |-> mem, elements |-> elements]
      Alloc(s) == DSArrayAlloc(s, d, NewCount)
  IN  /\ \E done \in {Retried(Alloc, S)} :
           /\ mem' = done.mem
           /\ elements' = done.elements
           /\ running' = (done.status = "NO_ERR")
      /\ wild' = \/ Overgrows(d, NewCount)
                 \/ /\ d \in Nested
                    /\ \E i \in NewCount + 1 .. Len(elements[d]) : elements[d][i] = STALE

\* An instruction sets the length of an element of an array of arrays.
ResizeElement(d, i, NewCount) ==
  LET leaf == elements[d][i]
      S == [mem |-> mem]
      Alloc(s) == DVArrayAlloc(s.mem, leaf, NewCount)
  IN  \/ /\ leaf = STALE
         /\ wild' = TRUE
         /\ UNCHANGED <<mem, elements, running>>
      \/ /\ leaf # STALE
         /\ \E done \in {Retried(Alloc, S)} :
              /\ mem' = done.mem
              /\ running' = (done.status = "NO_ERR")
         /\ wild' = Overgrows(leaf, NewCount)
         /\ UNCHANGED elements

\* The system call that asks for a compaction.
MemoryManager ==
  /\ mem' = DSCompact(mem)
  /\ UNCHANGED <<elements, running, wild>>

\* The memory that the program file describes: DV 0, then its arrays, those
\* that are empty without an offset, linked in this order.
FileMem ==
  LET last == Len(Default)
      end[d \in 0 .. last] ==
        IF d = 0 THEN DSStaticSize + DVSize * (last + 1)
        ELSE IF Default[d].Count = 0 THEN end[d - 1]
        ELSE Align(end[d - 1]) + Default[d].ElemSize * Default[d].Count
  IN  [Head |-> 0, Tail |-> last, FreeHead |-> NOT_A_DS_ID,
       Link |-> [d \in DVs |-> IF d < last THEN d + 1 ELSE NOT_A_DS_ID],
       BackLink |-> [d \in DVs |-> IF d \in 1 .. last THEN d - 1 ELSE NOT_A_DS_ID],
       Offset |-> [d \in DVs |->
                     IF d = 0 THEN DSStaticSize
                     ELSE IF d \in ProgramDVs /\ Default[d].Count > 0 THEN Align(end[d - 1])
                     ELSE NOT_AN_OFFSET],
       ElemSize |-> [d \in DVs |-> IF d = 0 THEN DVSize
                                   ELSE IF d \in ProgramDVs THEN Default[d].ElemSize ELSE 0],
       Count |-> [d \in DVs |-> IF d = 0 THEN last + 1
                                ELSE IF d \in ProgramDVs THEN Default[d].Count ELSE 0],
       DataspaceSize |-> end[last]]

\* The spare DVs that cCmdActivateProgram adds.
numHandles == LET half == (Len(Default) + 1) \div 2 IN IF half > 200 THEN 200 ELSE half

\* It refuses a program whose memory, or whose spare DVs, do not fit.
ASSUME ProgramFits ==
  /\ FileMem.DataspaceSize <= POOL_MAX_SIZE
  /\ GrowDopeVectorArray(FileMem, numHandles).status = "NO_ERR"

ActivatedMem == GrowDopeVectorArray(FileMem, numHandles).mem

MemInit ==
  /\ mem = ActivatedMem
  /\ elements = [d \in Nested |-> <<>>]
  /\ running = TRUE
  /\ wild = FALSE

\* Another program is activated after the last one has ended.
MemActivate ==
  /\ ~running
  /\ mem' = ActivatedMem
  /\ elements' = [d \in Nested |-> <<>>]
  /\ running' = TRUE
  /\ UNCHANGED wild
=============================================================================
