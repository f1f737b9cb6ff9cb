------------------------------ MODULE MCNative ------------------------------
(***************************************************************************)
(* Handlers whose values and conditions combine up to three captures and   *)
(* constants with every operator, and requests that spell them well and    *)
(* badly.                                                                  *)
(***************************************************************************)
EXTENDS OrvNative

MCNumerals == ("2" :> [n |-> 2, d |-> 1]) @@ ("-1" :> [n |-> -1, d |-> 1])
                @@ ("3" :> [n |-> 3, d |-> 1]) @@ ("0" :> [n |-> 0, d |-> 1])
                @@ ("2.5" :> [n |-> 5, d |-> 2])

Get(src) == [t |-> "get", src |-> src]
CastOf(to, src) == [t |-> "cast", to |-> to, e |-> Get(src)]
Lit(v) == [t |-> "lit", v |-> v]
Un(op, e) == [t |-> "un", op |-> op, e |-> e]
Bin(op, l, r) == [t |-> "bin", op |-> op, l |-> l, r |-> r]
Seg(a) == [t |-> "seg", w |-> <<a>>]
Str(parts) == [t |-> "text", parts |-> parts]

Srcs == {"route", "query", "body"}
Number2(kind) == IF kind = "int" THEN Lit(IntVal(2)) ELSE Lit(FloatVal(2, 1))
Negative(kind) == Un("neg", IF kind = "int" THEN Lit(IntVal(1)) ELSE Lit(FloatVal(1, 2)))

\* Captures and constants, products of two and of three.
Singles(kind) == {CastOf(kind, s) : s \in Srcs} \cup {Number2(kind), Negative(kind)}
Pairs(kind) ==
    LET c(s) == CastOf(kind, s) IN
    {Bin("mul", c("query"), c("body")), Bin("mul", c("route"), c("query")),
     Bin("mul", c("body"), Number2(kind)), Bin("mul", Negative(kind), c("query"))}
Triples(kind) ==
    LET c(s) == CastOf(kind, s) IN
    {Bin("mul", Bin("mul", c("query"), c("body")), c("query")),
     Bin("mul", c("query"), Bin("mul", c("body"), Number2(kind))),
     Bin("mul", Bin("mul", Number2(kind), c("query")), c("body"))}
Terms(kind) == Singles(kind) \cup Pairs(kind) \cup Triples(kind)

NumericExprs(kind) ==
    {Bin(op, l, r) : op \in Arithmetics \cup Six, l \in Terms(kind), r \in Terms(kind)}
        \cup {Un("neg", CastOf(kind, s)) : s \in Srcs} \cup {CastOf(kind, s) : s \in Srcs}
        \cup {Bin(op, CastOf(kind, "query"), Lit(IntVal(2))) : op \in {"add", "lt"}}

Truths == {CastOf("bool", "query"), CastOf("bool", "body"), Lit(BoolVal(TRUE)), Lit(BoolVal(FALSE))}
Negations == {Un("not", CastOf("bool", "query")), Un("not", CastOf("bool", "body"))}
BoolExprs == {Bin(op, l, r) : op \in {"eq", "ne", "and", "or"}, l \in Truths \cup Negations,
                              r \in Truths \cup Negations}
                 \cup Negations \cup Truths

Texts == {Get("route"), Get("query"), Get("body"), Str(<<Seg("a")>>)}
StringExprs ==
    {Bin(op, l, r) : op \in {"eq", "ne", "add"}, l \in Texts, r \in Texts}
        \cup {Str(<<Seg("a"), Get("route")>>), Str(<<Get("query"), Seg("a")>>),
              Str(<<Seg("a"), Get("body"), Seg("b")>>), Str(<<Get("route"), Seg("a"), Get("query")>>),
              Str(<<Get("route"), Get("body")>>), Str(<<Seg("a"), CastOf("int", "query")>>)}

Exprs == NumericExprs("int") \cup NumericExprs("float") \cup BoolExprs \cup StringExprs

Respond1(status, p, es) == [s |-> "respond", status |-> status, payload |-> [p |-> p, es |-> es]]
OkObject(e) == Respond1(200, "object", <<e>>)
Otherwise == Respond1(404, "value", <<Lit(IntVal(2))>>)
IfThen(c, then, else) == [s |-> "if", cond |-> c, then |-> then, else |-> else]
Effect == [s |-> "effect"]

Par(suffix) == [seg |-> "par", suffix |-> suffix]
LitSeg(a) == [seg |-> "lit", w |-> <<a>>]
Route(method, pattern, block) == [method |-> method, pattern |-> pattern, block |-> block]
Simple(block) == <<Route("GET", <<LitSeg("p"), Par(<<>>)>>, block)>>

Fields == {<<Get("route"), Get("query")>>, <<Get("query"), Lit(IntVal(2)), CastOf("int", "body")>>,
           <<[t |-> "body"]>>, <<[t |-> "body"], Get("route")>>, <<>>,
           <<Str(<<Seg("a")>>), Lit(BoolVal(TRUE))>>}
Blocks ==
    {<<OkObject(e)>> : e \in Exprs}
        \cup {<<IfThen(e, <<Respond1(201, "void", <<>>)>>, <<>>), Otherwise>> :
                e \in {x \in Exprs : x.t \in {"bin", "un"} => x.op \in Comparisons \cup {"not"}}}
        \cup {<<Respond1(200, "object", fs)>> : fs \in Fields}
        \cup {<<Respond1(status, "value", <<Number2("int")>>)>> : status \in {99, 204, 1000}}
        \cup {<<Effect, Otherwise>>, <<IfThen(CastOf("bool", "query"), <<Otherwise>>, <<>>)>>,
              <<IfThen(CastOf("bool", "query"), <<Otherwise>>,
                  <<IfThen(Bin("lt", CastOf("int", "body"), Number2("int")),
                           <<OkObject(Get("route"))>>, <<OkObject(Get("query"))>>)>>)>>,
              <<Otherwise, Otherwise>>}
Patterns == {AnyPath, <<LitSeg("p"), LitSeg("2")>>, <<LitSeg("p"), Par(<<"2">>)>>,
             <<[seg |-> "rest"]>>, <<LitSeg("p"), [seg |-> "rest"]>>}
MCPrograms ==
    {Simple(b) : b \in Blocks}
        \cup {<<Route(m, p, <<OkObject(Get("route"))>>), Route("GET", AnyPath, <<Otherwise>>)>> :
                 m \in {"GET", "POST"}, p \in Patterns}

Paths == {<<<<"p">>, <<"2">>>>, <<<<"p">>, <<"-1">>>>, <<<<"p">>, <<"x">>>>, <<<<"p">>, <<"3", "2">>>>,
          <<<<"p">>>>}
Plain(path) == [method |-> "GET", path |-> path, query |-> Text(<<"3">>), body |-> Number("2")]
MCRequests ==
    {Plain(p) : p \in Paths}
        \cup {[Plain(<<<<"p">>, <<n>>>>) EXCEPT !.query = q, !.body = b] :
                n \in {"2", "0"},
                q \in {Text(<<"3">>), Text(<<" ", "-1">>), Text(<<"true">>), Missing},
                b \in {Number("2"), Number("2.5"), Text(<<"-1">>), Truth(FALSE), Missing}}
=============================================================================
