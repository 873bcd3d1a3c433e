--------------------------- MODULE MCInstructions ---------------------------
(* Small programs: one for every choice of scalar types, and programs on      *)
(* arrays, nested arrays, clusters, strings and flattened values.             *)
EXTENDS Instructions

S(t) == [t |-> t]
Arr(t) == [t |-> "ARRAY", of |-> t]
Cl(fields) == [t |-> "CLUSTER", fields |-> fields]
A(m) == [n |-> Len(m), m |-> m]

I(op, args) == [op |-> op, code |-> "", args |-> args, imm |-> 0]
IC(op, code, args) == [op |-> op, code |-> code, args |-> args, imm |-> 0]

Codes == {"LT", "GT", "LTEQ", "GTEQ", "EQ", "NEQ"}

\* Boundary values of a scalar type, as raw bits.
Edges(t) == LET s == Span(t) IN {0, 1, 2, s \div 2 - 1, s \div 2, s - 1} \cap 0 .. s - 1

ScalarCode ==
    {I(op, <<"d", "x">>) : op \in Unops \ {"TST"}} \cup {IC("TST", c, <<"d", "x">>) : c \in Codes}
    \cup {I(op, <<"d", "x", "y">>) : op \in Binops} \cup {IC("CMP", c, <<"d", "x", "y">>) : c \in Codes}
    \cup {IC("BRCMP", c, <<"x", "y">>) : c \in Codes} \cup {IC("BRTST", c, <<"x">>) : c \in Codes}
    \cup {IC("BRTST", "EQ", <<NotWired>>), I("MULDIV", <<"d", "x", "x", "y">>)}
    \cup {[op |-> "SET", code |-> "", args |-> <<"d">>, imm |-> k] : k \in {1, Word - 1}}

ScalarProgram(td, tx, ty) ==
    [type |-> [d |-> S(td), x |-> S(tx), y |-> S(ty)],
     init |-> {[d |-> 0, x |-> x, y |-> y] : x \in Edges(tx), y \in Edges(ty)},
     code |-> ScalarCode, strings |-> {}, steps |-> 1, allocs |-> 0, vectors |-> 0]

B == S("UBYTE")
Bytes == Arr(B)

ArrayProgram ==
    [type |-> [p |-> Bytes, q |-> Arr(S("SBYTE")), r |-> Bytes, n |-> B, l |-> S("SBYTE"), w |-> S("SLONG")],
     init |-> {[p |-> A(p), q |-> A(q), r |-> A(<<>>), n |-> x[1], l |-> x[2], w |-> 0] :
                  p \in {<<2, 1>>, <<3, 1, 2, 0, 1>>}, q \in {<<1>>, <<3, 0, 2>>}, x \in {<<0, 1>>, <<1, 3>>, <<3, 1>>}},
     code |-> {I("MOV", <<"p", "q">>), I("MOV", <<"r", "p">>), I("NEG", <<"p", "p">>),
               I("ADD", <<"p", "p", "q">>), I("SUB", <<"r", "n", "p">>), I("MUL", <<"r", "p", "p">>),
               IC("CMP", "LT", <<"r", "p", "n">>), IC("BRCMP", "LT", <<"p", "r">>),
               IC("BRCMP", "EQ", <<"p", "r">>), IC("CMP", "GTEQ", <<"n", "p", "r">>),
               I("ARRSIZE", <<"w", "p">>), I("INDEX", <<"w", "q", "n">>), I("INDEX", <<"n", "p", NotWired>>),
               I("ARRINIT", <<"r", "l", "n">>), I("ARRINIT", <<"q", "n", "l">>),
               I("REPLACE", <<"p", "p", "n", "n">>), I("REPLACE", <<"r", "p", "n", "r">>),
               I("REPLACE", <<"r", "p", "n", "p">>), I("ARRSUBSET", <<"p", "p", "n", NotWired>>),
               I("ARRSUBSET", <<"r", "p", NotWired, "n">>), I("ARRSUBSET", <<"r", "p", "n", "l">>),
               I("ARRBUILD", <<"r", "p", "n", "p">>), I("ARRBUILD", <<"p", "p", "n">>)}
              \cup {IC("ARROP", c, <<"w", "q", NotWired, NotWired>>) : c \in {"SUM", "SUMSQR", "MIN", "MAX"}}
              \cup {IC("ARROP", c, <<"n", "p", "n", NotWired>>) : c \in {"SUM", "MAX"}}
              \cup {IC("ARROP", "SORT", <<d, "p", NotWired, "n">>) : d \in {"r", "q"}}
              \cup {IC("ARROP", "SORT", <<"p", "p", NotWired, NotWired>>)},
     strings |-> {}, steps |-> 2, allocs |-> 1, vectors |-> 0]

Row == Cl(<<B, Bytes>>)
N(rows) == A([k \in 1 .. Len(rows) |-> A(rows[k])])
R(b, bytes) == A(<<b, A(bytes)>>)

NestedProgram ==
    [type |-> [v |-> Arr(Bytes), w |-> Arr(Bytes), p |-> Bytes, c |-> Row, d |-> Row, k |-> Arr(Row), n |-> B],
     init |-> {[v |-> N(v), w |-> N(<<<<1>>>>), p |-> A(<<2, 3>>), c |-> R(1, <<2>>), d |-> R(1, d), k |-> A(<<>>), n |-> n] :
                  v \in {<<>>, <<<<1>>, <<>>, <<2, 3>>>>}, d \in {<<>>, <<1, 1>>}, n \in {0, 1}},
     code |-> {I("MOV", <<"w", "v">>), I("MOV", <<"c", "d">>), I("ADD", <<"v", "v", "w">>), I("ADD", <<"c", "c", "n">>),
               I("ADD", <<"w", "v", "n">>), I("ADD", <<"d", "c", "d">>), I("ADD", <<"k", "k", "c">>),
               IC("CMP", "LT", <<"n", "v", "w">>), IC("CMP", "EQ", <<"n", "v", "w">>),
               IC("BRCMP", "GT", <<"c", "d">>), IC("BRCMP", "LTEQ", <<"c", "d">>), IC("BRCMP", "NEQ", <<"c", "d">>),
               I("INDEX", <<"p", "v", "n">>), I("INDEX", <<"c", "k", "n">>), I("REPLACE", <<"v", "v", "n", "p">>),
               I("REPLACE", <<"w", "v", "n", "w">>), I("ARRINIT", <<"k", "c", "n">>), I("ARRINIT", <<"w", "p", "n">>),
               I("ARRBUILD", <<"w", "v", "p">>), I("ARRBUILD", <<"k", "c", "d">>),
               I("ARRSUBSET", <<"w", "v", "n", NotWired>>), I("ARRSUBSET", <<"v", "v", "n", NotWired>>)},
     strings |-> {}, steps |-> 2, allocs |-> 2, vectors |-> 3]

StringProgram ==
    [type |-> [s |-> Bytes, t |-> Bytes, b |-> Bytes, n |-> B],
     init |-> {[s |-> A(s), t |-> A(<<3, 0>>), b |-> A(<<2>>), n |-> n] :
                  s \in {<<0>>, <<2, 1, 0>>}, n \in {0, 1}},
     code |-> {I("MOV", <<"s", "t">>), I("STRCAT", <<"s", "t", "t">>), I("STRCAT", <<"t", "s", "t">>),
               I("STRCAT", <<"t", "s">>), I("STRSUBSET", <<"s", "s", "n", NotWired>>),
               I("STRSUBSET", <<"t", "s", NotWired, "n">>), I("STRSUBSET", <<"t", "s", "n", "n">>),
               I("STRTOBYTEARR", <<"b", "s">>), I("BYTEARRTOSTR", <<"s", "b">>), I("FLATTEN", <<"t", "n">>),
               I("FLATTEN", <<"s", "b">>), IC("ARROP", "TOUPPER", <<"s", "s", NotWired, NotWired>>),
               IC("ARROP", "TOLOWER", <<"t", "s", NotWired, NotWired>>), IC("ARROP", "TOUPPER", <<"b", "b", "n", NotWired>>),
               I("INDEX", <<"n", "s", NotWired>>)},
     strings |-> {"s", "t"}, steps |-> 3, allocs |-> 1, vectors |-> 0]

Rec == Cl(<<B, Arr(S("UWORD")), S("SBYTE")>>)
Q(b, words, s) == A(<<b, A(words), s>>)

FlatProgram ==
    [type |-> [s |-> Bytes, t |-> Bytes, c |-> Rec, d |-> Rec, e |-> Rec, err |-> B],
     init |-> {[s |-> A(<<0>>), t |-> A(<<0>>), c |-> Q(1, words, 3), d |-> Q(0, <<>>, 0), e |-> Q(2, tw, 0), err |-> 1] :
                  words \in {<<>>, <<9, 2>>}, tw \in {<<>>, <<0>>, <<1, 1>>}},
     code |-> {I("FLATTEN", <<"s", "c">>), I("MOV", <<"t", "s">>), I("FLATTEN", <<"t", "e">>), I("NEG", <<"c", "c">>),
               I("UNFLATTEN", <<"d", "err", "s", "e">>), I("UNFLATTEN", <<"d", "err", "t", "e">>)},
     strings |-> {"s", "t"}, steps |-> 3, allocs |-> 2, vectors |-> 0]

ScalarTypes == {"UBYTE", "SWORD", "ULONG", "SLONG"}

MCPrograms ==
    [p \in {<<"scalars", td, tx, ty>> : td \in {"SWORD", "SLONG"}, tx \in ScalarTypes, ty \in ScalarTypes}
            \cup {<<"arrays">>, <<"nested">>, <<"strings">>, <<"flat">>} |->
        CASE p[1] = "scalars" -> ScalarProgram(p[2], p[3], p[4])
          [] p[1] = "arrays" -> ArrayProgram
          [] p[1] = "nested" -> NestedProgram
          [] p[1] = "strings" -> StringProgram
          [] p[1] = "flat" -> FlatProgram]

=============================================================================
