------------------------------ MODULE Meaning ------------------------------
(* What the instructions on data promise, on plain values: a scalar is an     *)
(* integer, an array or a cluster the sequence of its elements.  Nothing here *)
(* follows the code; Instructions states that the interpreter agrees.         *)
EXTENDS Scalars, SequencesExt

IsScalar(t) == t.t \in Scalar
IsArray(t) == t.t = "ARRAY"
IsCluster(t) == t.t = "CLUSTER"
PartType(t, k) == IF IsArray(t) THEN t.of ELSE t.fields[k]

\* The number a type makes of n.
Cast(t, n) ==
    LET r == n % Span(t) IN IF t \in Signed /\ r >= Span(t) \div 2 THEN r - Span(t) ELSE r

\* The plain value of a value x of the dataspace.
RECURSIVE Plain(_, _)
Plain(t, x) ==
    IF IsScalar(t) THEN Cast(t.t, x) ELSE [k \in 1 .. x.n |-> Plain(PartType(t, k), x.m[k])]

\* The same values in another type.
RECURSIVE Converted(_, _)
Converted(t, v) ==
    IF IsScalar(t) THEN Cast(t.t, v) ELSE [k \in 1 .. Len(v) |-> Converted(PartType(t, k), v[k])]

\* Lexicographic order.
RECURSIVE Less(_, _, _)
Less(t, v, w) ==
    IF IsScalar(t) THEN v < w
    ELSE LET common == Len(LongestCommonPrefix({v, w})) IN
         IF common = Len(v) \/ common = Len(w) THEN Len(v) < Len(w)
         ELSE Less(PartType(t, common + 1), v[common + 1], w[common + 1])

Ordered(t, code, v, w) ==
    CASE code = "LT" -> Less(t, v, w)
      [] code = "GT" -> Less(t, w, v)
      [] code = "LTEQ" -> ~Less(t, w, v)
      [] code = "GTEQ" -> ~Less(t, v, w)
      [] code = "EQ" -> v = w
      [] code = "NEQ" -> v # w

\* One operand of type t.
Math1(op, code, n) ==
    CASE op = "MOV" -> n
      [] op = "NEG" -> -n
      [] op = "NOT" -> Truth(n = 0)
      [] op = "TST" -> Truth(Holds(code, n, 0))
      [] op = "ABS" -> Abs(n)
      [] op = "CMNT" -> -n - 1
      [] op = "SIGN" -> IF n > 0 THEN 1 ELSE IF n < 0 THEN -1 ELSE 0

\* Operations on a SLONG read a ULONG with the top bit as negative.
Defined1(op, t, n) == op \in {"NEG", "ABS", "SIGN"} => n < Long \div 2 /\ n # MinSLong

\* The bits of n, rotated to the left within type t.
Rotated(t, n, count) ==
    LET v == (n % Span(t)) * 2 ^ count IN (v % Span(t)) + (v \div Span(t))

\* Two operands; the left one is of type t.
Math2(op, code, t, a, b) ==
    CASE op = "ADD" -> a + b
      [] op = "SUB" -> a - b
      [] op = "MUL" -> a * b
      [] op = "DIV" -> IF b = 0 THEN 0 ELSE Quot(a, b)
      [] op = "MOD" -> IF b = 0 THEN a ELSE Rem(a, b)
      [] op = "AND" -> (a % Long) & (b % Long)
      [] op = "OR" -> a + b - ((a % Long) & (b % Long))
      [] op = "XOR" -> a + b - 2 * ((a % Long) & (b % Long))
      [] op = "CMP" -> Truth(Holds(code, a, b))
      [] op \in {"LSL", "ASL"} -> IF b <= 0 THEN a ELSE a * 2 ^ b
      [] op \in {"LSR", "ASR"} -> IF b <= 0 THEN a ELSE Quot(a, 2 ^ b)
      [] op = "ROTL" -> IF b <= 0 THEN a ELSE Rotated(t, a, b)
      [] op = "ROTR" -> IF b <= 0 THEN a ELSE Rotated(t, a, Bits(t) - b)

\* Where the numbers promise that: a signed operand meets an unsigned one in
\* divisions and comparisons only when it is not negative, shift counts stay
\* below the width, and a rotation goes to a variable of the operand's type.
Defined2(op, t1, t2, a, t3, b) ==
    CASE op \in {"DIV", "MOD", "CMP"} ->
            /\ (t2 \in Signed) = (t3 \in Signed) \/ (a >= 0 /\ b >= 0)
            /\ ~Overflows(a, b)
      [] op \in {"LSL", "ASL"} -> b < LongBits - 1
      [] op = "LSR" -> b < LongBits - 1 /\ (a >= 0 \/ b <= 0)
      [] op = "ASR" -> b < LongBits - 1
      [] op \in {"ROTL", "ROTR"} -> b <= Bits(t2) /\ b < LongBits /\ t1 = t2
      [] OTHER -> TRUE

\* Element by element, a scalar with every element, as long as the shorter.
RECURSIVE Both(_, _, _, _, _, _, _)
Both(op, code, t1, t2, v, t3, w) ==
    LET part(t, x, k) == IF IsScalar(t) THEN x ELSE x[k]
        sub(t, k) == IF IsScalar(t) THEN t ELSE PartType(t, k)
        length == Min({Len(x) : x \in (IF IsScalar(t2) THEN {} ELSE {v})
                                        \cup (IF IsScalar(t3) THEN {} ELSE {w})})
    IN IF IsScalar(t1) THEN Cast(t1.t, Math2(op, code, t2.t, v, w))
       ELSE [k \in 1 .. length |->
                Both(op, code, PartType(t1, k), sub(t2, k), part(t2, v, k), sub(t3, k), part(t3, w, k))]

RECURSIVE Each(_, _, _, _)
Each(op, code, t1, v) ==
    IF IsScalar(t1) THEN Cast(t1.t, Math1(op, code, v))
    ELSE [k \in 1 .. Len(v) |-> Each(op, code, PartType(t1, k), v[k])]

\* The part of a sequence from a zero-based index on, at most n long.
Part(v, index, n) == SubSeq(v, index + 1, Min({index + n, Len(v)}))

\* v with w laid over it from a zero-based index on.
Overlaid(v, index, w) ==
    [k \in 1 .. Len(v) |-> IF k > index /\ k - index <= Len(w) THEN w[k - index] ELSE v[k]]

Total(v) == FoldLeft(LAMBDA s, n : s + n, 0, v)
Squares(v) == [k \in 1 .. Len(v) |-> v[k] * v[k]]

=============================================================================
