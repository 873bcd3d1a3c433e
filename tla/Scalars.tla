------------------------------ MODULE Scalars ------------------------------
(* The scalar arithmetic of the virtual machine (c_cmd.c: the get and set     *)
(* procedures, cCmdCompare, cCmdUnop2, cCmdBinop, MULDIV and the shell        *)
(* sorts).  A scalar lies in the dataspace as its raw bits, a number below    *)
(* 2^bits; every operation fetches its operands into a ULONG, sign extended   *)
(* for the signed types, computes there and stores the low bits of what it    *)
(* gets.                                                                      *)
(*                                                                            *)
(* The width of a byte is a constant: words are two bytes and longs four, as  *)
(* in the code, whatever a byte is.  Where C leaves the result open (a shift  *)
(* by the width or more, the negation or division that overflows a SLONG) the *)
(* operators return their last parameter, u, which the callers choose.        *)
(* Floating point is left out.                                                *)
EXTENDS Integers, Sequences, Bitwise

CONSTANT ByteBits                               \* 8 in the brick

ASSUME ByteBitsAssumption == ByteBits \in Nat \ {0, 1}

\* TC_UBYTE to TC_SLONG (c_cmd.h)
Unsigned == {"UBYTE", "UWORD", "ULONG"}
Signed == {"SBYTE", "SWORD", "SLONG"}
Scalar == Unsigned \cup Signed

\* cCmdSizeOf
SizeOf(t) == CASE t \in {"UBYTE", "SBYTE"} -> 1
               [] t \in {"UWORD", "SWORD"} -> 2
               [] OTHER -> 4

Bits(t) == SizeOf(t) * ByteBits
Span(t) == 2 ^ Bits(t)                          \* the number of values of a type
Byte == Span("UBYTE")
Word == Span("UWORD")
Long == Span("ULONG")
LongBits == Bits("ULONG")

\* GetProcArray: the raw bits of a scalar as a ULONG, sign extended.
GetVal(t, raw) ==
    IF t \in Signed /\ raw >= Span(t) \div 2 THEN raw + Long - Span(t) ELSE raw

\* SetProcArray: a store keeps the low bits.
SetVal(t, val) == val % Span(t)

\* The cast (SLONG) of a ULONG.
SLong(val) == IF val < Long \div 2 THEN val ELSE val - Long
MinSLong == -(Long \div 2)

Holds(code, a, b) ==
    CASE code = "LT" -> a < b
      [] code = "GT" -> a > b
      [] code = "LTEQ" -> a <= b
      [] code = "GTEQ" -> a >= b
      [] code = "EQ" -> a = b
      [] code = "NEQ" -> a # b

\* cCmdCompare: one unsigned operand makes the comparison unsigned.
Compare(code, val1, val2, t1, t2) ==
    IF t1 \in Unsigned \/ t2 \in Unsigned
    THEN Holds(code, val1, val2)
    ELSE Holds(code, SLong(val1), SLong(val2))

Truth(b) == IF b THEN 1 ELSE 0
Abs(n) == IF n < 0 THEN -n ELSE n

\* Division of C: towards zero, the remainder with the sign of the dividend.
Quot(a, b) == IF (a < 0) = (b < 0) THEN Abs(a) \div Abs(b) ELSE -(Abs(a) \div Abs(b))
Rem(a, b) == a - b * Quot(a, b)

\* cCmdUnop2
Unop2(op, code, val, t, u) ==
    CASE op = "MOV" -> val
      [] op = "NEG" -> IF SLong(val) = MinSLong THEN u ELSE (-val) % Long
      [] op = "NOT" -> Truth(val = 0)
      [] op = "TST" -> Truth(Compare(code, val, 0, t, t))
      [] op = "ABS" -> IF SLong(val) = MinSLong THEN u ELSE Abs(SLong(val))
      [] op = "CMNT" -> Long - 1 - val
      [] op = "SIGN" -> IF SLong(val) < 0 THEN Long - 1 ELSE Truth(val # 0)

Overflows(a, b) == a = MinSLong /\ b = -1

\* The shifts of cCmdBinop; counts of zero or less leave the operand alone.
Shift(op, val, count, t, u) ==
    LET power == 2 ^ count IN
    CASE op = "LSL" \/ (op = "ASL" /\ t \notin Signed) ->
              IF count >= LongBits THEN u ELSE (val * power) % Long
      [] op = "LSR" \/ (op = "ASR" /\ t \notin Signed) ->
              IF count >= LongBits THEN u ELSE val \div power
      [] op = "ASL" /\ t \in Signed ->
              IF count >= LongBits - 1 THEN u ELSE (val * power) % Long
      [] op = "ASR" /\ t \in Signed ->
              IF count >= LongBits - 1 THEN u ELSE Quot(SLong(val), power) % Long

\* The rotations of cCmdBinop: within the width of the left operand's type, but
\* what a left rotation shifts beyond that width stays in the result.
Rotate(op, val, count, t, u) ==
    LET width == Bits(t)
        v     == val % Span(t)
        up(n) == (v * 2 ^ n) % Long
        down(n) == v \div 2 ^ n
    IN IF count > width \/ (SizeOf(t) = 4 /\ count = width) THEN u
       ELSE IF op = "ROTL" THEN up(count) | down(width - count)
       ELSE down(count) | up(width - count)

\* cCmdBinop
Binop(op, code, l, r, lt, rt, u) ==
    LET both == lt \in Signed /\ rt \in Signed
        sl == SLong(l)
        sr == SLong(r)
    IN CASE op = "ADD" -> (l + r) % Long
         [] op = "SUB" -> (l - r) % Long
         [] op = "MUL" -> (l * r) % Long
         [] op = "DIV" -> IF r = 0 THEN 0
                          ELSE IF ~both THEN l \div r
                          ELSE IF Overflows(sl, sr) THEN u ELSE Quot(sl, sr) % Long
         [] op = "MOD" -> IF r = 0 THEN l
                          ELSE IF ~both THEN l % r
                          ELSE IF Overflows(sl, sr) THEN u ELSE Rem(sl, sr) % Long
         [] op = "AND" -> l & r
         [] op = "OR" -> l | r
         [] op = "XOR" -> (l | r) - (l & r)
         [] op = "CMP" -> Truth(Compare(code, l, r, lt, rt))
         [] op \in {"LSL", "LSR", "ASL", "ASR"} ->
                 IF sr <= 0 THEN l ELSE Shift(op, l, sr, lt, u)
         [] op \in {"ROTL", "ROTR"} ->
                 IF sr <= 0 THEN l ELSE Rotate(op, l, sr, lt, u)

\* OP_MULDIV: the product is taken in 64 signed bits and the operands as
\* unsigned numbers; nothing guards the division.
MulDiv(a, b, c, u) ==
    IF c = 0 \/ a * b >= (Long * Long) \div 2 THEN u ELSE ((a * b) \div c) % Long

\* A fault: 2 divided like the others, which is 0 and leaves out the last pass.
NextIncrementSkips(n) == (n * 10) \div 22

\* The shell sorts: the increment starts at half the size and is divided by
\* 2.2, with 1 after 2, until it is 0.
NextIncrement(n) == IF n = 2 THEN 1 ELSE (n * 10) \div 22

\* One pass moves every element down past the greater ones before it, increment
\* steps apart.  The types are told apart by the order of the comparison.
RECURSIVE MovedDown(_, _, _, _)
MovedDown(t, a, j, inc) ==
    IF j > inc /\ Compare("GT", GetVal(t, a[j - inc]), GetVal(t, a[j]), t, t)
    THEN MovedDown(t, [a EXCEPT ![j] = a[j - inc], ![j - inc] = a[j]], j - inc, inc)
    ELSE a

RECURSIVE Pass(_, _, _, _)
Pass(t, a, i, inc) ==
    IF i > Len(a) THEN a ELSE Pass(t, MovedDown(t, a, i, inc), i + 1, inc)

RECURSIVE SortedBy(_, _, _)
SortedBy(t, a, inc) ==
    IF inc = 0 THEN a ELSE SortedBy(t, Pass(t, a, inc + 1, inc), NextIncrement(inc))

\* shell_sort_u1 to shell_sort_s4
ShellSort(t, a) == SortedBy(t, a, Len(a) \div 2)

=============================================================================
