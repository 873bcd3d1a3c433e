---------------------------- MODULE Instructions ----------------------------
(* The instructions on data of the virtual machine (c_cmd.c: cCmdMove, the    *)
(* interpreters of two, three and more operands and what they call).          *)
(*                                                                            *)
(* A program is its dataspace and its instructions.  The flat table of        *)
(* contents is modelled by the trees it encodes: a type is a record with t    *)
(* one of the scalar types, "ARRAY" (with of) or "CLUSTER" (with fields), and *)
(* the element IDs and offsets that the code steps through are locations, a   *)
(* variable followed by indices of elements or fields.  Arrays and clusters   *)
(* are records of a count n and the memory m behind it: when an array         *)
(* shrinks, its old elements stay behind the count until the instruction ends,*)
(* which is what instructions read whose destination is also a source.        *)
(*                                                                            *)
(* An array that grows may find no memory, for itself or for the dope vectors *)
(* of the arrays within its new elements: the instruction returns, memory is  *)
(* compacted, and the instruction runs again over what it has already         *)
(* changed.  A write behind the memory of its array, and the use of an array  *)
(* that has no dope vector, end the model (stray); nothing is claimed of what *)
(* they hit.  u is what fresh memory holds and what C leaves open.            *)
(*                                                                            *)
(* Instructions are well typed, as the compilers emit them.  Left out:        *)
(* floating point, conversions between numbers and text, ports, and a second  *)
(* lack of memory (it ends the program).                                      *)
EXTENDS Meaning

\* The programs: by name, the types of the variables, the initial dataspaces,
\* the instructions, run in any order, which variables are strings, the bound on
\* the number of instructions run, on which of its growing arrays an
\* instruction may run out of memory, and before which dope vector of the arrays
\* in their elements.
CONSTANT Programs      \* name -> [type, init, code, strings, steps, allocs, vectors]

ASSUME ProgramsAssumption == \A p \in DOMAIN Programs :
                                 Programs[p].strings \subseteq DOMAIN Programs[p].type

VARIABLES prog,        \* the program that runs
          ds,          \* the dataspace: variable -> value
          status,      \* what the last instruction returned
          taken,       \* the last instruction branched (gPCDelta)
          stray,       \* it wrote behind an array or used one without a dope vector
          steps,       \* how many instructions the model still runs
          instr,       \* history: the last instruction
          start,       \* history: the dataspace when it started, if it has to run again
          packed       \* history: string -> the value flattened into it

vars == <<prog, ds, status, taken, stray, steps, instr, start, packed>>

Type(v) == Programs[prog].type[v]
Vars == DOMAIN Programs[prog].type

\* NOT_A_DS_ID: an operand that is not wired.
NotWired == "none"

UpTo(n) == [k \in 1 .. n |-> k]
Least(a, b) == IF a < b THEN a ELSE b

-----------------------------------------------------------------------------
(* Memory *)

\* cCmdDSType, INC_ID and cCmdNextDSElement: the type at a location.
TypeAt(loc) ==
    FoldLeft(LAMBDA t, k : PartType(t, k), Type(loc[1]), Tail(loc))

\* cCmdResolveDataArg: the value at a location.
At(d, loc) == FoldLeft(LAMBDA x, k : x.m[k], d[loc[1]], Tail(loc))

RECURSIVE Inside(_, _)
Inside(x, path) ==
    path = <<>> \/ (path[1] <= Len(x.m) /\ Inside(x.m[path[1]], Tail(path)))

RECURSIVE PutIn(_, _, _)
PutIn(x, path, y) ==
    IF path = <<>> THEN y ELSE [x EXCEPT !.m[path[1]] = PutIn(@, Tail(path), y)]

\* The interpreter at work: the dataspace, how many arrays may still grow (-1:
\* any number), how many dope vectors the next one gets for the arrays in it (-1:
\* not even its own memory), the status, whether it went astray, u, and the
\* branch.
Machine(d, left, vectors, u) ==
    [ds |-> d, left |-> left, vectors |-> vectors, err |-> "NO_ERR", stray |-> FALSE, u |-> u,
     taken |-> FALSE]

IsErr(m) == m.err # "NO_ERR"
Fail(m, err) == [m EXCEPT !.err = err]

Store(m, loc, x) ==
    IF IsErr(m) THEN m
    ELSE IF Inside(m.ds[loc[1]], Tail(loc))
         THEN [m EXCEPT !.ds[loc[1]] = PutIn(@, Tail(loc), x)]
         ELSE [m EXCEPT !.stray = TRUE]

\* memmove of bytes into an array from its element number from on.
StoreAll(m, loc, from, bytes) ==
    FoldLeft(LAMBDA mm, k : Store(mm, Append(loc, from + k - 1), bytes[k]), m, UpTo(Len(bytes)))

\* An array in a new element that has got no dope vector: the index in its
\* place is what the memory happened to hold.
NoVector == [n |-> -1, m |-> <<>>]

\* How many dope vectors an element of type t takes.
RECURSIVE Vectors(_)
Vectors(t) ==
    IF IsScalar(t) THEN 0
    ELSE IF IsArray(t) THEN 1
    ELSE FoldLeft(LAMBDA s, f : s + Vectors(f), 0, t.fields)

\* cCmdAllocSubArrayDopeVectors: a new element when there are so many dope
\* vectors left.  The arrays in it are empty, in the order of the fields, until
\* no more are left.
RECURSIVE Fresh(_, _, _)
Fresh(t, u, vectors) ==
    LET before(k) == FoldLeft(LAMBDA s, f : s + Vectors(f), 0, SubSeq(t.fields, 1, k - 1))
    IN IF IsScalar(t) THEN SetVal(t.t, u)
       ELSE IF IsArray(t) THEN (IF vectors > 0 THEN [n |-> 0, m |-> <<>>] ELSE NoVector)
       ELSE [n |-> Len(t.fields),
             m |-> [k \in 1 .. Len(t.fields) |-> Fresh(t.fields[k], u, vectors - before(k))]]

\* Array a of elements of type t when its count becomes n and there are so many
\* dope vectors for its new elements: the sub-arrays of elements that go are
\* freed, scalars stay where they were.
Resized(t, a, n, u, vectors) ==
    LET kept == IF IsScalar(t) THEN Len(a.m) ELSE Least(n, a.n)
        size == IF n > Len(a.m) THEN n ELSE Len(a.m)
    IN [n |-> n, m |-> SubSeq(a.m, 1, kept)
                       \o [k \in 1 .. size - kept |-> Fresh(t, u, vectors - (k - 1) * Vectors(t))]]

\* cCmdDSArrayAlloc, cCmdDVArrayAlloc.  The count is set first and the dope
\* vectors are allocated one by one after it: where they run out the array stays
\* with some of its elements, and as it has its count, the second try allocates
\* no more.
DSArrayAlloc(m, loc, count) ==
    LET a == At(m.ds, loc)
        t == TypeAt(loc).of
        n == count % Word
        grows == n > a.n
        all == (n + Len(a.m)) * Vectors(t)
        short == m.vectors < (n - a.n) * Vectors(t)
    IN CASE IsErr(m) -> m
         [] ~IsErr(m) /\ a = NoVector -> [m EXCEPT !.stray = TRUE]
         [] ~IsErr(m) /\ a # NoVector /\ n = a.n -> m
         [] ~IsErr(m) /\ a # NoVector /\ grows /\ m.left = 0 /\ m.vectors < 0 -> Fail(m, "ERR_MEM")
         [] ~IsErr(m) /\ a # NoVector /\ grows /\ m.left = 0 /\ m.vectors >= 0 /\ short ->
                Fail(Store(m, loc, Resized(t, a, n, m.u, m.vectors)), "ERR_MEM")
         [] OTHER -> Store([m EXCEPT !.left = IF grows /\ @ >= 0 THEN @ - 1 ELSE @],
                           loc, Resized(t, a, n, m.u, all))

\* What lies behind the counts is forgotten when the instruction is over.
RECURSIVE Trimmed(_, _)
Trimmed(t, x) ==
    IF IsScalar(t) THEN x
    ELSE [x EXCEPT !.m = [k \in 1 .. x.n |-> Trimmed(PartType(t, k), @[k])]]

Settled(d) == [v \in Vars |-> Trimmed(Type(v), d[v])]

\* cCmdGetScalarValFromDataArg, cCmdSetScalarValFromDataArg, cCmdArrayCount
ScalarArg(m, v) == GetVal(Type(v).t, m.ds[v])
WiredArg(m, v, default) == IF v = NotWired THEN default ELSE ScalarArg(m, v)
SetScalar(m, v, val) == Store(m, <<v>>, SetVal(Type(v).t, val))
ArrayCount(m, v) == m.ds[v].n

-----------------------------------------------------------------------------
(* Operations on whole values *)

\* cCmdInterpPolyUnop2
RECURSIVE PolyUnop2(_, _, _, _, _)
PolyUnop2(op, code, m, l1, l2) ==
    LET t1 == TypeAt(l1)
        t2 == TypeAt(l2)
        parts(mm, n) == FoldLeft(LAMBDA x, k : PolyUnop2(op, code, x, Append(l1, k), Append(l2, k)),
                                 mm, UpTo(n))
    IN CASE IsErr(m) -> m
         [] ~IsErr(m) /\ IsScalar(t2) ->
                Store(m, l1, SetVal(t1.t, Unop2(op, code, GetVal(t2.t, At(m.ds, l2)), t2.t, m.u)))
         [] ~IsErr(m) /\ IsArray(t1) /\ IsCluster(t2) -> Fail(m, "ERR_ARG")
         [] ~IsErr(m) /\ IsArray(t1) /\ IsArray(t2) ->
                LET n == At(m.ds, l2).n IN parts(DSArrayAlloc(m, l1, n), n)
         [] ~IsErr(m) /\ IsCluster(t1) /\ ~IsScalar(t2) -> parts(m, Len(t1.fields))

Mov(m, l1, l2) == PolyUnop2("MOV", "", m, l1, l2)

\* Where a source stands for the k-th part of the destination (AdvCluster): a
\* cluster advances only with a cluster; in an array it stays at its first field.
SourcePart(tdst, tsrc, loc, k) ==
    CASE IsScalar(tsrc) -> loc
      [] IsArray(tsrc) -> Append(loc, k)
      [] IsCluster(tsrc) -> Append(loc, IF IsCluster(tdst) THEN k ELSE 1)

\* cCmdInterpPolyBinop
RECURSIVE PolyBinop(_, _, _, _, _, _)
PolyBinop(op, code, m, l1, l2, l3) ==
    LET t1 == TypeAt(l1)
        t2 == TypeAt(l2)
        t3 == TypeAt(l3)
        counts == {At(m.ds, l).n : l \in {x \in {l2, l3} : IsArray(TypeAt(x))}}
        min == CHOOSE n \in counts : \A k \in counts : n <= k
        parts(mm, n) ==
            FoldLeft(LAMBDA x, k : PolyBinop(op, code, x, Append(l1, k),
                                             SourcePart(t1, t2, l2, k), SourcePart(t1, t3, l3, k)),
                     mm, UpTo(n))
    IN CASE IsErr(m) -> m
         [] ~IsErr(m) /\ IsScalar(t2) /\ IsScalar(t3) ->
                Store(m, l1, SetVal(t1.t, Binop(op, code, GetVal(t2.t, At(m.ds, l2)),
                                                GetVal(t3.t, At(m.ds, l3)), t2.t, t3.t, m.u)))
         [] ~IsErr(m) /\ IsArray(t1) /\ counts = {} -> Fail(m, "ERR_ARG")
         [] ~IsErr(m) /\ IsArray(t1) /\ counts # {} -> parts(DSArrayAlloc(m, l1, min), min)
         [] ~IsErr(m) /\ IsCluster(t1) /\ ~(IsScalar(t2) /\ IsScalar(t3)) ->
                parts(m, Len(t1.fields))

\* cCmdRecursiveCompareAggregates: "" while no inequality has been found, then
\* the outcome.
RECURSIVE FirstInequality(_, _, _, _, _)
FirstInequality(code, t2, x2, t3, x3) ==
    IF IsScalar(t2)
    THEN LET v2 == GetVal(t2.t, x2)
             v3 == GetVal(t3.t, x3)
         IN IF Compare("NEQ", v2, v3, t2.t, t3.t)
            THEN ToString(Compare(code, v2, v3, t2.t, t3.t)) ELSE ""
    ELSE LET inner == FoldLeft(LAMBDA r, k : IF r # "" THEN r
                                             ELSE FirstInequality(code, PartType(t2, k), x2.m[k],
                                                                  PartType(t3, k), x3.m[k]),
                               "", UpTo(Least(x2.n, x3.n)))
         IN CASE x2.n # x3.n /\ code \in {"EQ", "NEQ"} -> ToString(code = "NEQ")
              [] x2.n # x3.n /\ code \notin {"EQ", "NEQ"} ->
                     IF inner # "" THEN inner ELSE ToString(Holds(code, x2.n, x3.n))
              [] x2.n = x3.n -> inner

\* cCmdCompareAggregates
CompareAggregates(code, m, v2, v3) ==
    LET r == FirstInequality(code, Type(v2), m.ds[v2], Type(v3), m.ds[v3])
    IN IF r = "" THEN code \in {"EQ", "GTEQ", "LTEQ"} ELSE r = "TRUE"

\* cCmdCalcFlattenedSize
RECURSIVE FlattenedSize(_, _)
FlattenedSize(t, x) ==
    IF IsScalar(t) THEN SizeOf(t.t)
    ELSE FoldLeft(LAMBDA s, k : s + FlattenedSize(PartType(t, k), x.m[k]),
                  0, UpTo(x.n))

ScalarBytes(t, raw) == [k \in 1 .. SizeOf(t) |-> (raw \div Byte ^ (k - 1)) % Byte]
FromBytes(bytes) == FoldRight(LAMBDA b, s : b + Byte * s, bytes, 0)

\* cCmdFlattenToByteArray
RECURSIVE Flattened(_, _)
Flattened(t, x) ==
    IF IsScalar(t) THEN ScalarBytes(t.t, x)
    ELSE FoldLeft(LAMBDA s, k : s \o Flattened(PartType(t, k), x.m[k]),
                  <<>>, UpTo(x.n))

\* A fault: a cluster's fields are all read from where the cluster starts.
RECURSIVE UnflattenedInPlace(_, _)
UnflattenedInPlace(f, loc) ==
    LET t == TypeAt(loc)
        size == SizeOf(t.t)
    IN IF IsScalar(t)
       THEN [f EXCEPT !.m = Store(@, loc, FromBytes(SubSeq(f.bytes, f.off + 1, f.off + size))),
                      !.off = @ + size]
       ELSE FoldLeft(LAMBDA g, k : UnflattenedInPlace(IF IsCluster(t) THEN [g EXCEPT !.off = f.off] ELSE g,
                                                      Append(loc, k)),
                     f, UpTo(At(f.m.ds, loc).n))

\* cCmdUnflattenFromByteArray: f is the machine, the bytes and the offset.
RECURSIVE Unflattened(_, _)
Unflattened(f, loc) ==
    LET t == TypeAt(loc)
        size == SizeOf(t.t)
    IN IF IsScalar(t)
       THEN [f EXCEPT !.m = Store(@, loc, FromBytes(SubSeq(f.bytes, f.off + 1, f.off + size))),
                      !.off = @ + size]
       ELSE FoldLeft(LAMBDA g, k : Unflattened(g, Append(loc, k)), f, UpTo(At(f.m.ds, loc).n))

-----------------------------------------------------------------------------
(* The instructions: from a machine and an instruction to the machine after. *)

\* cCmdMove and the one operand operations (cCmdInterpPolyUnop2)
ExecUnop(m, i) == PolyUnop2(i.op, i.code, m, <<i.args[1]>>, <<i.args[2]>>)

\* The two operand operations, OP_ADD to OP_XOR and the shifts.
ExecBinop(m, i) ==
    PolyBinop(i.op, i.code, m, <<i.args[1]>>, <<i.args[2]>>, <<i.args[3]>>)

\* OP_SET: the immediate is a word, sign extended for a SLONG only.
ExecSet(m, i) ==
    SetScalar(m, i.args[1], IF Type(i.args[1]).t = "SLONG" THEN GetVal("SWORD", i.imm) ELSE i.imm)

\* How OP_CMP and OP_BRCMP compare.
Compared(m, code, v2, v3) ==
    IF IsScalar(Type(v2)) /\ IsScalar(Type(v3))
    THEN Compare(code, ScalarArg(m, v2), ScalarArg(m, v3), Type(v2).t, Type(v3).t)
    ELSE CompareAggregates(code, m, v2, v3)

\* OP_CMP: a whole comparison into a scalar, element by element otherwise.
ExecCmp(m, i) ==
    LET whole == IsScalar(Type(i.args[1])) /\ IsScalar(Type(i.args[2])) = IsScalar(Type(i.args[3]))
    IN IF whole THEN SetScalar(m, i.args[1], Truth(Compared(m, i.code, i.args[2], i.args[3])))
       ELSE ExecBinop(m, i)

\* OP_BRCMP
ExecBrCmp(m, i) == [m EXCEPT !.taken = Compared(m, i.code, i.args[1], i.args[2])]

\* OP_BRTST: against 0, as a SLONG whatever the type.
ExecBrTst(m, i) == [m EXCEPT !.taken = Holds(i.code, SLong(WiredArg(m, i.args[1], 0)), 0)]

\* OP_ARRSIZE
ExecArrSize(m, i) == SetScalar(m, i.args[1], ArrayCount(m, i.args[2]))

\* OP_MULDIV
ExecMulDiv(m, i) ==
    SetScalar(m, i.args[1], MulDiv(ScalarArg(m, i.args[2]), ScalarArg(m, i.args[3]),
                                   ScalarArg(m, i.args[4]), m.u))

\* OP_INDEX
ExecIndex(m, i) ==
    LET index == WiredArg(m, i.args[3], 0)
    IN IF index >= ArrayCount(m, i.args[2]) THEN Fail(m, "ERR_ARG")
       ELSE Mov(m, <<i.args[1]>>, <<i.args[2], index + 1>>)

\* OP_ARRINIT: the count is the low word of the length, and a loop whose
\* counter is a word never gets to a length beyond it.
ExecArrInit(m, i) ==
    LET length == WiredArg(m, i.args[3], 0)
        made == DSArrayAlloc(m, <<i.args[1]>>, length)
    IN IF length >= Word /\ ~IsErr(made) THEN [made EXCEPT !.stray = TRUE]
       ELSE FoldLeft(LAMBDA x, k : Mov(x, <<i.args[1], k>>, <<i.args[2]>>), made,
                     UpTo(IF IsErr(made) THEN 0 ELSE length))

RECURSIVE Dimensions(_)
Dimensions(t) == IF IsArray(t) THEN 1 + Dimensions(t.of) ELSE 0

\* OP_REPLACE: the source is copied unless it is the destination, then the new
\* value or values are put over it; out of range it is only the copy.
ExecReplace(m, i) ==
    LET dst == i.args[1]
        src == i.args[2]
        new == i.args[4]
        copied == IF dst = src THEN m ELSE Mov(m, <<dst>>, <<src>>)
        index == WiredArg(copied, i.args[3], 0)
        count == ArrayCount(copied, dst)
    IN IF IsErr(copied) \/ index >= count THEN copied
       ELSE IF Dimensions(Type(new)) = Dimensions(Type(src)) - 1
       THEN Mov(copied, <<dst, index + 1>>, <<new>>)
       ELSE FoldLeft(LAMBDA x, k : Mov(x, <<dst, index + k>>, <<new, k>>), copied,
                     UpTo(Least(count - index, ArrayCount(copied, new))))

\* How much OP_ARRSUBSET, OP_STRSUBSET and OP_ARROP take: the rest of the count
\* after the index, or the length where that is less.
Rest(count, index, length) == Least((count - index) % Word, length)

\* OP_ARRSUBSET
ExecArrSubset(m, i) ==
    LET dst == i.args[1]
        src == i.args[2]
        count == ArrayCount(m, src)
        index == WiredArg(m, i.args[3], 0)
        n == Rest(count, index, WiredArg(m, i.args[4], (count - index) % Word))
        made == DSArrayAlloc(m, <<dst>>, IF index > count THEN 0 ELSE n)
    IN FoldLeft(LAMBDA x, k : Mov(x, <<dst, k>>, <<src, index + k>>), made,
                UpTo(IF IsErr(made) \/ index > count THEN 0 ELSE n))

\* A fault: the subset of a string has no room for the terminator.
ExecStrSubsetUnterminated(m, i) ==
    LET dst == i.args[1]
        src == i.args[2]
        count == (ArrayCount(m, src) - 1) % Word
        index == WiredArg(m, i.args[3], 0)
        n == Rest(count, index, WiredArg(m, i.args[4], (count - index) % Word))
        made == DSArrayAlloc(m, <<dst>>, n)
    IN IF IsErr(made) THEN made
       ELSE IF index > count THEN Store(DSArrayAlloc(m, <<dst>>, 1), <<dst, 1>>, 0)
       ELSE StoreAll(made, <<dst>>, 1, SubSeq(made.ds[src].m, index + 1, index + n))

\* OP_STRSUBSET: as for arrays, without the terminator of the source and with
\* one at the end of the destination.
ExecStrSubset(m, i) ==
    LET dst == i.args[1]
        src == i.args[2]
        count == (ArrayCount(m, src) - 1) % Word
        index == WiredArg(m, i.args[3], 0)
        n == Rest(count, index, WiredArg(m, i.args[4], (count - index) % Word))
        made == DSArrayAlloc(m, <<dst>>, IF index > count THEN 1 ELSE n + 1)
    IN IF IsErr(made) THEN made
       ELSE IF index > count THEN Store(made, <<dst, 1>>, 0)
       ELSE StoreAll(made, <<dst>>, 1, Append(SubSeq(made.ds[src].m, index + 1, index + n), 0))

\* Whether a source of OP_ARRBUILD is an array like the destination
\* (cCmdCompareDSType) or one of its elements.
IsWhole(i, src) == Type(src) = Type(i.args[1])

\* One source of OP_ARRBUILD moved behind what is there: b is the machine and
\* DstIndex.  An array's count is read here, after the destination was resized.
Built(b, i, src) ==
    LET n == IF IsWhole(i, src) THEN ArrayCount(b.m, src) ELSE 1
        from(k) == IF IsWhole(i, src) THEN <<src, k>> ELSE <<src>>
        put(x, k) == IF b.at + k <= Len(x.ds[i.args[1]].m)
                     THEN Mov(x, <<i.args[1], b.at + k>>, from(k))
                     ELSE [x EXCEPT !.stray = TRUE]
    IN [m |-> FoldLeft(put, b.m, UpTo(n)), at |-> b.at + n]

\* OP_ARRBUILD
ExecArrBuild(m, i) ==
    LET srcs == Tail(i.args)
        count == FoldLeft(LAMBDA s, src : s + (IF IsWhole(i, src) THEN ArrayCount(m, src) ELSE 1), 0, srcs)
        made == DSArrayAlloc(m, <<i.args[1]>>, count)
    IN IF IsErr(made) THEN made
       ELSE FoldLeft(LAMBDA b, src : Built(b, i, src), [m |-> made, at |-> 0], srcs).m

\* OP_STRCAT: the count of a source without a terminator wraps to 65535.
ExecStrCat(m, i) ==
    LET dst == i.args[1]
        srcs == Tail(i.args)
        count == FoldLeft(LAMBDA s, src : s + ArrayCount(m, src) - 1, 0, srcs)
        made == DSArrayAlloc(m, <<dst>>, count + 1)
        text(x, src) == SubSeq(x.ds[src].m, 1, ArrayCount(x, src) - 1)
        done == FoldLeft(LAMBDA b, src : [m |-> StoreAll(b.m, <<dst>>, b.at + 1, text(b.m, src)),
                                          at |-> b.at + Len(text(b.m, src))],
                         [m |-> made, at |-> 0], srcs)
    IN CASE IsErr(made) -> made
         [] ~IsErr(made) /\ \E k \in DOMAIN srcs : ArrayCount(m, srcs[k]) = 0 -> [made EXCEPT !.stray = TRUE]
         [] OTHER -> Store(done.m, <<dst, done.at + 1>>, 0)

\* OP_STRTOBYTEARR: an empty source changes nothing.
ExecStrToByteArr(m, i) ==
    LET count == ArrayCount(m, i.args[2])
        made == DSArrayAlloc(m, <<i.args[1]>>, count - 1)
    IN IF count = 0 \/ IsErr(made) THEN (IF count = 0 THEN m ELSE made)
       ELSE StoreAll(made, <<i.args[1]>>, 1, SubSeq(made.ds[i.args[2]].m, 1, count - 1))

\* OP_BYTEARRTOSTR
ExecByteArrToStr(m, i) ==
    LET count == ArrayCount(m, i.args[2])
        made == DSArrayAlloc(m, <<i.args[1]>>, count + 1)
    IN IF IsErr(made) THEN made
       ELSE StoreAll(made, <<i.args[1]>>, 1, Append(SubSeq(made.ds[i.args[2]].m, 1, count), 0))

\* OP_FLATTEN
ExecFlatten(m, i) ==
    LET src == i.args[2]
        made == DSArrayAlloc(m, <<i.args[1]>>, FlattenedSize(Type(src), m.ds[src]) + 1)
    IN IF IsErr(made) THEN made
       ELSE StoreAll(made, <<i.args[1]>>, 1, Append(Flattened(Type(src), made.ds[src]), 0))

\* OP_UNFLATTEN: the destination becomes the template, and the bytes are put
\* into it if there are as many as the template has.
ExecUnflatten(m, i) ==
    LET dst == i.args[1]
        src == i.args[3]
        template == i.args[4]
        made == Mov(m, <<dst>>, <<template>>)
        size == FlattenedSize(Type(template), made.ds[template])
        fits == (ArrayCount(made, src) - 1) % Word = size
        filled == Unflattened([m |-> made, bytes |-> made.ds[src].m, off |-> 0], <<dst>>).m
    IN IF IsErr(made) THEN made
       ELSE SetScalar(IF fits THEN filled ELSE made, i.args[2], Truth(~fits))

-----------------------------------------------------------------------------
(* OP_ARROP *)

\* OPARR_SUM, OPARR_SUMSQR, OPARR_MIN and OPARR_MAX over the fetched values.
Reduced(code, signed, vals) ==
    LET num(v) == IF signed THEN SLong(v) ELSE v
        best(cmp, from) == FoldLeft(LAMBDA b, v : IF Holds(cmp, num(v), b) THEN num(v) ELSE b,
                                     from, vals) % Long
    IN CASE code = "SUM" -> FoldLeft(LAMBDA s, v : s + v, 0, vals) % Long
         [] code = "SUMSQR" -> FoldLeft(LAMBDA s, v : s + v * v, 0, vals) % Long
         [] code = "MIN" -> best("LT", IF signed THEN -MinSLong - 1 ELSE Long - 1)
         [] code = "MAX" -> best("GT", IF signed THEN MinSLong ELSE 0)

\* OPARR_SORT: the part is moved to the destination and sorted there.
SortInto(m, dst, src, index, n) ==
    LET made == DSArrayAlloc(m, <<dst>>, n)
        moved == FoldLeft(LAMBDA x, k : Mov(x, <<dst, k>>, <<src, index + k>>), made, UpTo(n))
    IN IF IsErr(made) THEN made
       ELSE StoreAll(moved, <<dst>>, 1, ShellSort(Type(dst).of.t, SubSeq(moved.ds[dst].m, 1, n)))

\* The letters: a byte is 0 at the end of a string, an upper case letter, its
\* lower case letter, or another.
UpperA == 1
LowerA == 2
Changed(code, ch) ==
    CASE code = "TOUPPER" -> IF ch = LowerA THEN UpperA ELSE ch
      [] code = "TOLOWER" -> IF ch = UpperA THEN LowerA ELSE ch

\* OPARR_TOUPPER, OPARR_TOLOWER: room for n bytes, but the whole source is
\* written, with those from index to index + n changed.
CaseInto(m, dst, src, code, index, n) ==
    LET count == ArrayCount(m, src)
        made == DSArrayAlloc(m, <<dst>>, n)
        put(x, k) == LET ch == x.ds[src].m[k] IN
                     Store(x, <<dst, k>>, IF k - 1 >= index /\ k - 1 <= index + n
                                          THEN Changed(code, ch) ELSE ch)
    IN IF IsErr(made) THEN made ELSE FoldLeft(put, made, UpTo(count))

\* OP_ARROP: args are destination, source, index and length.
ExecArrOp(m, i) ==
    LET dst == i.args[1]
        src == i.args[2]
        count == ArrayCount(m, src)
        index == WiredArg(m, i.args[3], 0)
        n == Rest(count, index, WiredArg(m, i.args[4], Word - 1))
        vals == [k \in 1 .. n |-> GetVal(Type(src).of.t, m.ds[src].m[index + k])]
    IN CASE index > count ->
              IF i.code = "SORT" THEN DSArrayAlloc(m, <<dst>>, 0)
              ELSE IF IsArray(Type(dst)) THEN m ELSE SetScalar(m, dst, 0)
         [] index <= count /\ i.code \in {"SUM", "SUMSQR", "MIN", "MAX"} ->
              SetScalar(m, dst, Reduced(i.code, Type(dst).t \in Signed, vals))
         [] index <= count /\ i.code = "SORT" -> SortInto(m, dst, src, index, n)
         [] index <= count /\ i.code \in {"TOUPPER", "TOLOWER"} ->
              CaseInto(m, dst, src, i.code, index, n)

-----------------------------------------------------------------------------
(* The interpreter *)

Unops == {"MOV", "NEG", "NOT", "TST", "ABS", "CMNT", "SIGN"}
Binops == {"ADD", "SUB", "MUL", "DIV", "MOD", "AND", "OR", "XOR",
           "LSL", "LSR", "ASL", "ASR", "ROTL", "ROTR"}

\* What fresh memory and undefined operations may hold.
Junk == {0, Long - 1}

NoInstr == [op |-> "none", code |-> "", args |-> <<>>, imm |-> 0]
NotAgain == [v \in {} |-> 0]
NotPacked == [src |-> NotWired, val |-> 0]

\* The history of flattened values, when i started on dataspace d: a copy of a
\* string holds what it held.
Packed(i, d) ==
    [v \in Vars |->
        IF v = i.args[1] /\ i.op \notin {"BRCMP", "BRTST"}
        THEN CASE i.op = "FLATTEN" -> [src |-> i.args[2], val |-> d[i.args[2]]]
               [] i.op = "MOV" -> packed[i.args[2]]
               [] OTHER -> NotPacked
        ELSE packed[v]]

Init ==
    /\ prog \in DOMAIN Programs
    /\ ds \in Programs[prog].init
    /\ status = "NO_ERR"
    /\ taken = FALSE
    /\ stray = FALSE
    /\ steps = Programs[prog].steps
    /\ instr = NoInstr
    /\ start = NotAgain
    /\ packed = [v \in Vars |-> NotPacked]

\* The instructions that may come next: any one, or the one that has run out of
\* memory (cCmdInterpFromClump: the dataspace is compacted and the same
\* instruction interpreted again, over what it has already changed).
Again == status = "ERR_MEM"
Origin == IF Again THEN start ELSE ds

Ready(ops) ==
    {i \in Programs[prog].code : /\ i.op \in ops /\ ~stray
                                 /\ IF Again THEN i = instr ELSE status = "NO_ERR" /\ steps > 0}

\* The machines an instruction may find; the second time memory suffices.
Machines ==
    {Machine(ds, -1, -1, u) : u \in Junk}
    \cup {Machine(ds, left, vectors, u) :
             left \in {k \in 0 .. Programs[prog].allocs - 1 : ~Again},
             vectors \in -1 .. Programs[prog].vectors - 1, u \in Junk}

\* Instruction i has come to its end with machine m.
Executed(i, m) ==
    /\ ds' = Settled(m.ds)
    /\ start' = IF m.err = "ERR_MEM" THEN Origin ELSE NotAgain
    /\ status' = m.err
    /\ taken' = m.taken
    /\ stray' = m.stray
    /\ steps' = IF Again THEN steps ELSE steps - 1
    /\ instr' = i
    /\ packed' = Packed(i, Origin)
    /\ prog' = prog

Unop == \E i \in Ready(Unops), x \in Machines : \E m \in {ExecUnop(x, i)} : Executed(i, m)
Set == \E i \in Ready({"SET"}), x \in Machines : \E m \in {ExecSet(x, i)} : Executed(i, m)
Binop2 == \E i \in Ready(Binops), x \in Machines : \E m \in {ExecBinop(x, i)} : Executed(i, m)
Cmp == \E i \in Ready({"CMP"}), x \in Machines : \E m \in {ExecCmp(x, i)} : Executed(i, m)
BrCmp == \E i \in Ready({"BRCMP"}), x \in Machines : \E m \in {ExecBrCmp(x, i)} : Executed(i, m)
BrTst == \E i \in Ready({"BRTST"}), x \in Machines : \E m \in {ExecBrTst(x, i)} : Executed(i, m)
ArrSize == \E i \in Ready({"ARRSIZE"}), x \in Machines : \E m \in {ExecArrSize(x, i)} : Executed(i, m)
MulDivide == \E i \in Ready({"MULDIV"}), x \in Machines : \E m \in {ExecMulDiv(x, i)} : Executed(i, m)
Index == \E i \in Ready({"INDEX"}), x \in Machines : \E m \in {ExecIndex(x, i)} : Executed(i, m)
ArrInit == \E i \in Ready({"ARRINIT"}), x \in Machines : \E m \in {ExecArrInit(x, i)} : Executed(i, m)
Replace == \E i \in Ready({"REPLACE"}), x \in Machines : \E m \in {ExecReplace(x, i)} : Executed(i, m)
ArrSubset == \E i \in Ready({"ARRSUBSET"}), x \in Machines : \E m \in {ExecArrSubset(x, i)} : Executed(i, m)
StrSubset == \E i \in Ready({"STRSUBSET"}), x \in Machines : \E m \in {ExecStrSubset(x, i)} : Executed(i, m)
ArrBuild == \E i \in Ready({"ARRBUILD"}), x \in Machines : \E m \in {ExecArrBuild(x, i)} : Executed(i, m)
StrCat == \E i \in Ready({"STRCAT"}), x \in Machines : \E m \in {ExecStrCat(x, i)} : Executed(i, m)
StrToByteArr == \E i \in Ready({"STRTOBYTEARR"}), x \in Machines : \E m \in {ExecStrToByteArr(x, i)} : Executed(i, m)
ByteArrToStr == \E i \in Ready({"BYTEARRTOSTR"}), x \in Machines : \E m \in {ExecByteArrToStr(x, i)} : Executed(i, m)
Flatten == \E i \in Ready({"FLATTEN"}), x \in Machines : \E m \in {ExecFlatten(x, i)} : Executed(i, m)
Unflatten == \E i \in Ready({"UNFLATTEN"}), x \in Machines : \E m \in {ExecUnflatten(x, i)} : Executed(i, m)
ArrOp == \E i \in Ready({"ARROP"}), x \in Machines : \E m \in {ExecArrOp(x, i)} : Executed(i, m)

Next ==
    \/ Unop \/ Set \/ Binop2 \/ Cmp \/ BrCmp \/ BrTst \/ ArrSize \/ MulDivide
    \/ Index \/ ArrInit \/ Replace \/ ArrSubset \/ StrSubset \/ ArrBuild \/ StrCat
    \/ StrToByteArr \/ ByteArrToStr \/ Flatten \/ Unflatten \/ ArrOp

Spec == Init /\ [][Next]_vars

-----------------------------------------------------------------------------
(* Properties *)

\* The plain value of a variable in the dataspace d.
Val(d, v) == Plain(Type(v), d[v])
Wired(d, v, default) == IF v = NotWired THEN default ELSE Val(d, v)

\* What instruction i leaves in its destination, its first operand, when it
\* starts with dataspace d.
Result(i, d) ==
    LET t == Type(i.args[1])
        a(k) == Val(d, i.args[k])
        index == Wired(d, i.args[3], 0)
        length == Wired(d, i.args[4], Word)
        text(k) == Front(a(k))
    IN CASE i.op \in Unops -> Each(i.op, i.code, t, a(2))
         [] i.op \in Binops -> Both(i.op, i.code, t, Type(i.args[2]), a(2), Type(i.args[3]), a(3))
         [] i.op = "SET" -> Cast(t.t, IF t.t = "SLONG" THEN Cast("SWORD", i.imm) ELSE i.imm)
         [] i.op = "CMP" ->
                IF IsScalar(t) THEN Truth(Ordered(Type(i.args[2]), i.code, a(2), a(3))) % Span(t.t)
                ELSE Both("CMP", i.code, t, Type(i.args[2]), a(2), Type(i.args[3]), a(3))
         [] i.op = "ARRSIZE" -> Cast(t.t, Len(a(2)))
         [] i.op = "MULDIV" -> Cast(t.t, (a(2) * a(3)) \div a(4))
         [] i.op = "INDEX" -> Converted(t, a(2)[index + 1])
         [] i.op = "ARRINIT" -> [k \in 1 .. index |-> Converted(t.of, a(2))]
         [] i.op = "REPLACE" ->
                IF index \notin 0 .. Len(a(2)) - 1 THEN a(2)
                ELSE Overlaid(a(2), index, IF Type(i.args[4]) = t THEN a(4) ELSE <<Converted(t.of, a(4))>>)
         [] i.op = "ARRSUBSET" -> Part(a(2), index, length)
         [] i.op = "STRSUBSET" -> Append(Part(text(2), index, length), 0)
         [] i.op = "ARRBUILD" ->
                FlattenSeq([k \in 1 .. Len(i.args) - 1 |->
                               IF IsWhole(i, i.args[k + 1]) THEN a(k + 1) ELSE <<a(k + 1)>>])
         [] i.op = "STRCAT" -> Append(FlattenSeq([k \in 1 .. Len(i.args) - 1 |-> text(k + 1)]), 0)
         [] i.op = "STRTOBYTEARR" -> IF a(2) = <<>> THEN a(1) ELSE text(2)
         [] i.op = "BYTEARRTOSTR" -> Append(a(2), 0)
         [] i.op = "ARROP" ->
                LET part == Part(a(2), index, length) IN
                CASE i.code = "SUM" -> Cast(t.t, Total(part))
                  [] i.code = "SUMSQR" -> Cast(t.t, Total(Squares(part)))
                  [] i.code = "MIN" -> Cast(t.t, Min(ToSet(part)))
                  [] i.code = "MAX" -> Cast(t.t, Max(ToSet(part)))
                  [] i.code = "SORT" -> SortSeq(Converted(t, part), <)
                  [] OTHER -> [k \in 1 .. Len(a(2)) |-> Changed(i.code, a(2)[k])]

\* Where the code keeps that promise.  It does not where the destination of a
\* concatenation is also a source (the count is read after it has grown), where
\* values are laid over themselves, where nested arrays are cut in place (the
\* sub-arrays are freed before they are moved), for a negative index or length,
\* for a cluster within arrays, and for the letters of a part of a string.
Promised(i, d) ==
    LET t(k) == Type(i.args[k])
        a(k) == Val(d, i.args[k])
        sources == {i.args[k] : k \in 2 .. Len(i.args)}
        natural(k) == i.args[k] = NotWired \/ a(k) >= 0
    IN CASE i.op \in Unops -> IsScalar(t(2)) => Defined1(i.op, t(2).t, a(2))
         [] i.op \in Binops \cup {"CMP"} ->
                IF IsScalar(t(2)) /\ IsScalar(t(3))
                THEN Defined2(i.op, t(1).t, t(2).t, a(2), t(3).t, a(3))
                ELSE ~(IsArray(t(1)) /\ (IsCluster(t(2)) \/ IsCluster(t(3))))
         [] i.op = "BRCMP" -> IsScalar(t(1)) => Defined2("CMP", t(1).t, t(1).t, a(1), t(2).t, a(2))
         [] i.op = "BRTST" -> i.args[1] # NotWired => a(1) < Long \div 2
         [] i.op = "MULDIV" -> a(2) >= 0 /\ a(3) >= 0 /\ a(4) > 0 /\ 2 * a(2) * a(3) < Long * Long
         [] i.op \in {"ARRBUILD", "STRCAT", "FLATTEN"} -> i.args[1] \notin sources
         [] i.op = "REPLACE" -> i.args[1] # i.args[4]
         [] i.op = "ARRSUBSET" -> /\ IsScalar(t(1).of) \/ i.args[1] # i.args[2]
                                  /\ natural(3) /\ natural(4)
         [] i.op \in {"STRSUBSET", "INDEX"} -> \A k \in 3 .. Len(i.args) : natural(k)
         [] i.op = "ARRINIT" -> i.args[3] # NotWired => a(3) \in 0 .. Word - 1
         [] i.op = "ARROP" ->
                /\ natural(3) /\ natural(4)
                /\ Wired(d, i.args[3], 0) <= Len(a(2))
                /\ i.code \in {"MIN", "MAX"} =>
                       /\ Part(a(2), Wired(d, i.args[3], 0), Wired(d, i.args[4], Word)) # <<>>
                       /\ (t(1).t \in Signed) = (t(2).of.t \in Signed)
                /\ i.code \in {"TOUPPER", "TOLOWER"} => i.args[3] = NotWired /\ i.args[4] = NotWired
         [] OTHER -> TRUE

\* Whether i branches.
Branches(i, d) ==
    CASE i.op = "BRCMP" -> Ordered(Type(i.args[1]), i.code, Val(d, i.args[1]), Val(d, i.args[2]))
      [] i.op = "BRTST" -> Holds(i.code, Wired(d, i.args[1], 0), 0)
      [] OTHER -> FALSE

Destinations(i) ==
    CASE i.op \in {"BRCMP", "BRTST"} -> {}
      [] i.op = "UNFLATTEN" -> {i.args[1], i.args[2]}
      [] OTHER -> {i.args[1]}

\* An array of arrays was growing when memory ran out between two of its
\* elements: the second try finds the count as it should be and leaves the others
\* without dope vectors (cCmdDSArrayAlloc).
RECURSIVE HalfMade(_, _)
HalfMade(t, x) ==
    ~IsScalar(t) /\ (x = NoVector \/ \E k \in 1 .. x.n : HalfMade(PartType(t, k), x.m[k]))

FoundHalfMade == Again /\ \E v \in Vars : HalfMade(Type(v), ds[v])

OutOfRange(i, d) ==
    i.op = "INDEX" /\ Wired(d, i.args[3], 0) >= Len(Val(d, i.args[2]))

\* An instruction leaves in its destination what it promises of the values its
\* operands had when it started, also where the destination is a source, where
\* an array moved under it, or where an array found no memory to grow and it was
\* run again over what it had already changed; it changes nothing else, writes
\* nothing behind an array, and branches as the numbers compare
\* (cCmdInterpPolyUnop2, cCmdInterpPolyBinop, cCmdInterpOther and
\* cCmdInterpFromClump's second try).
IsResult ==
    Promised(instr', Origin) =>
        /\ ~stray'
        /\ \A v \in Vars \ Destinations(instr') : ds'[v] = Origin[v]
        /\ status' = IF OutOfRange(instr', Origin) THEN "ERR_ARG" ELSE "NO_ERR"
        /\ status' = "NO_ERR" /\ instr'.op \notin {"BRCMP", "BRTST", "FLATTEN", "UNFLATTEN"} =>
               Val(ds', instr'.args[1]) = Result(instr', Origin)
        /\ taken' = Branches(instr', Origin)

\* So it is, except after memory has run out between the dope vectors of the new
\* elements of an array.
DestinationIsResult == [][~Again' /\ ~FoundHalfMade => IsResult]_vars

\* What the second try is for (c_cmd.c:4717, "Compact dataspace and try the
\* instruction again"), without that exception.  It is not so: TLC finds the
\* array of arrays with an element that has no dope vector.
SecondTryIsResult == [][~Again' => IsResult]_vars

\* The strings of a program end with a terminator after every instruction, as
\* OP_STRCAT and OP_STRSUBSET rely on when they take it off the count
\* (NXT_ASSERT(ArrayCount3 > 0)).
StringsTerminated ==
    ~stray /\ ~Again => \A v \in Programs[prog].strings : ds[v].n > 0 /\ ds[v].m[ds[v].n] = 0

RECURSIVE SameShape(_, _, _)
SameShape(t, x, y) ==
    IsScalar(t) \/ (x.n = y.n /\ \A k \in 1 .. x.n : SameShape(PartType(t, k), x.m[k], y.m[k]))

\* What was flattened into a string comes back out of it, or of a copy of it,
\* with a template of the same shape, and the error output says so; with a
\* template of another size the destination is the template (cCmdFlattenToByteArray,
\* cCmdUnflattenFromByteArray).
FlattenedComesBack ==
    [][instr'.op = "UNFLATTEN" /\ ~Again' =>
          LET dst == instr'.args[1]
              err == Val(ds', instr'.args[2])
              was == packed[instr'.args[3]]
              template == Origin[instr'.args[4]]
          IN was.src # NotWired /\ Type(was.src) = Type(dst) =>
                IF SameShape(Type(dst), was.val, template) THEN ds'[dst] = was.val /\ err = 0
                ELSE FlattenedSize(Type(dst), was.val) # FlattenedSize(Type(dst), template)
                         => ds'[dst] = template /\ err = 1]_vars

=============================================================================
