------------------------------ MODULE OrvHandler ------------------------------
(***************************************************************************)
(* What the reference server (interp.rs, server.rs) answers to one request *)
(* on the handlers the native compiler is interested in: expressions over  *)
(* captures of the request, if chains and responses.  This is the meaning  *)
(* a native server has to keep; OrvCapture and OrvNative say what the      *)
(* compiler makes of the same handlers.                                    *)
(*                                                                         *)
(* A text is a sequence of atoms (strings that are never cut), a number a  *)
(* fraction n / d in lowest terms; a float with d = 0 is not finite.  Each *)
(* source of a request (route parameter, query, body) has one name, so a   *)
(* capture is named by its source.                                         *)
(***************************************************************************)
EXTENDS Integers, Sequences, FiniteSets, TLC

CONSTANTS
    Width,      \* bits of an integer; 64 in the code
    Numerals,   \* the atoms that spell a number, with the number they spell
    Space       \* the atom trim() removes

ASSUME WidthAssumption == Width \in Nat \ {0, 1}
ASSUME NumeralsAssumption ==
    \A a \in DOMAIN Numerals : Numerals[a].n \in Int /\ Numerals[a].d \in Nat \ {0}

LOCAL Lib == INSTANCE FiniteSetsExt

MinInt == -(2 ^ (Width - 1))
MaxInt == 2 ^ (Width - 1) - 1
MaxExponent == Width - 1        \* 0..63 in the code
InRange(n) == n \in MinInt .. MaxInt

-----------------------------------------------------------------------------
(* Values.                                                                 *)

Abs(n) == IF n < 0 THEN -n ELSE n

IntVal(n) == [k |-> "int", n |-> n, d |-> 1]
BoolVal(b) == [k |-> "bool", b |-> b]
StrVal(w) == [k |-> "str", w |-> w]
Failed == [k |-> "failed"]

\* The float n / d (d of any sign).
FloatVal(n, d) ==
    IF d = 0 THEN [k |-> "float", n |-> 0, d |-> 0]
    ELSE LET g == Lib!Max({c \in 1 .. Abs(d) : n % c = 0 /\ d % c = 0})
         IN  [k |-> "float", n |-> IF d < 0 THEN -n \div g ELSE n \div g,
                             d |-> Abs(d) \div g]

\* powf is not computed: two equal powers have equal operands.
PowerOf(a, b) == [k |-> "power", of |-> <<a, b>>]

\* Integers wrap in a release build (a development build stops the request).
Wrapped(n) == ((n - MinInt) % (2 ^ Width)) + MinInt

\* Division of integers truncates towards zero.
Quotient(a, b) ==
    LET q == Abs(a) \div Abs(b) IN IF (a < 0) = (b < 0) THEN q ELSE -q
Remainder(a, b) == a - b * Quotient(a, b)

\* a to the b, for b in 0 .. MaxExponent.
RECURSIVE Power(_, _)
Power(a, b) == IF b = 0 THEN 1 ELSE a * Power(a, b - 1)

trim(w) ==
    LET inner == {i \in DOMAIN w : w[i] # Space}
    IN  IF inner = {} THEN <<>> ELSE SubSeq(w, Lib!Min(inner), Lib!Max(inner))

\* What a text parses to, as a set of at most one number.
AsInt(w) ==
    {IntVal(Numerals[a].n) : a \in {b \in DOMAIN Numerals :
        w = <<b>> /\ Numerals[b].d = 1 /\ InRange(Numerals[b].n)}}
AsFloat(w) ==
    {FloatVal(Numerals[a].n, Numerals[a].d) : a \in {b \in DOMAIN Numerals : w = <<b>>}}
AsBool(w) == {BoolVal(b) : b \in {c \in BOOLEAN : w = <<IF c THEN "true" ELSE "false">>}}

OrFailed(opt) == IF opt = {} THEN Failed ELSE CHOOSE v \in opt : TRUE

\* The text of a value inside a string.
value_to_display(v) ==
    CASE v.k = "str"  -> v.w
      [] v.k = "bool" -> <<IF v.b THEN "true" ELSE "false">>
      [] v.k = "int"  -> <<ToString(v.n)>>
      [] OTHER        -> <<ToString(v)>>

-----------------------------------------------------------------------------
(* Operators.                                                              *)

apply_unary(op, v) ==
    CASE op = "not" /\ v.k = "bool"  -> BoolVal(~v.b)
      [] op = "neg" /\ v.k = "int"   -> IntVal(Wrapped(-v.n))
      [] op = "neg" /\ v.k = "float" -> [v EXCEPT !.n = -@]
      [] OTHER                       -> Failed

apply_cast(v, to) ==
    CASE v.k \notin {"int", "float", "bool", "str"} -> Failed
      [] to = "int" ->
           CASE v.k = "int"   -> v
             [] v.k = "float" -> IF v.d = 0 THEN Failed ELSE IntVal(Quotient(v.n, v.d))
             [] v.k = "bool"  -> IntVal(IF v.b THEN 1 ELSE 0)
             [] OTHER         -> OrFailed(AsInt(trim(v.w)))
      [] to = "float" ->
           CASE v.k = "int"   -> FloatVal(v.n, 1)
             [] v.k = "float" -> v
             [] v.k = "bool"  -> FloatVal(IF v.b THEN 1 ELSE 0, 1)
             [] OTHER         -> OrFailed(AsFloat(trim(v.w)))
      [] to = "bool" ->
           CASE v.k = "bool"  -> v
             [] v.k = "str"   -> OrFailed(AsBool(v.w))
             [] OTHER         -> BoolVal(v.n # 0)

\* Values of different kinds are never equal, an integer and a float neither.
values_equal(a, b) == a.k = b.k /\ a = b

IntBinary(op, a, b) ==
    CASE op = "add" -> IntVal(Wrapped(a + b))
      [] op = "sub" -> IntVal(Wrapped(a - b))
      [] op = "mul" -> IntVal(Wrapped(a * b))
      [] op = "div" /\ b # 0 -> IntVal(Quotient(a, b))
      [] op = "rem" /\ b # 0 -> IntVal(Remainder(a, b))
      [] op = "pow" /\ b \in 0 .. MaxExponent -> IntVal(Wrapped(Power(a, b)))
      [] op = "lt" -> BoolVal(a < b)
      [] op = "le" -> BoolVal(a <= b)
      [] op = "gt" -> BoolVal(a > b)
      [] op = "ge" -> BoolVal(a >= b)
      [] OTHER     -> Failed

FloatLess(a, b) == a.n * b.d < b.n * a.d

\* There is no float remainder.
FloatBinary(op, a, b) ==
    CASE op = "add" -> FloatVal(a.n * b.d + b.n * a.d, a.d * b.d)
      [] op = "sub" -> FloatVal(a.n * b.d - b.n * a.d, a.d * b.d)
      [] op = "mul" -> FloatVal(a.n * b.n, a.d * b.d)
      [] op = "div" -> FloatVal(a.n * b.d, a.d * b.n)
      [] op = "pow" -> PowerOf(a, b)
      [] op = "lt"  -> BoolVal(FloatLess(a, b))
      [] op = "le"  -> BoolVal(~FloatLess(b, a))
      [] op = "gt"  -> BoolVal(FloatLess(b, a))
      [] op = "ge"  -> BoolVal(~FloatLess(a, b))
      [] OTHER      -> Failed

apply_binary(op, a, b) ==
    CASE "failed" \in {a.k, b.k}                  -> Failed
      [] op \in {"eq", "ne"}                      -> BoolVal(values_equal(a, b) <=> op = "eq")
      [] a.k = "int" /\ b.k = "int"               -> IntBinary(op, a.n, b.n)
      [] a.k = "float" /\ b.k = "float"           -> FloatBinary(op, a, b)
      [] op = "add" /\ a.k = "str" /\ b.k = "str" -> StrVal(a.w \o b.w)
      [] OTHER                                    -> Failed

\* The right side is not evaluated when the left one decides.
Logical(op, a, b) ==
    CASE a.k # "bool"                    -> Failed
      [] a.b = (op = "or")               -> a
      [] b.k # "bool"                    -> Failed
      [] OTHER                           -> b

is_truthy(v) ==
    CASE v.k = "bool" -> v.b
      [] v.k \in {"int", "float"} -> v.n # 0
      [] v.k = "str" -> v.w # <<>>
      [] OTHER -> TRUE

-----------------------------------------------------------------------------
(* A view is what the request gives the three sources: missing, a text, a  *)
(* number of the JSON body or a truth value of it.                         *)

FieldOf(raw) ==
    CASE raw.sort = "text"   -> StrVal(raw.w)
      [] raw.sort = "number" -> raw.v
      [] raw.sort = "truth"  -> BoolVal(raw.b)
      [] OTHER               -> Failed         \* no field

RECURSIVE Eval(_, _)
RECURSIVE Interpolated(_, _)

\* The parts of a string literal, joined.
Interpolated(parts, view) ==
    IF parts = <<>> THEN StrVal(<<>>)
    ELSE LET head == Eval(Head(parts), view)
             rest == Interpolated(Tail(parts), view)
         IN  IF "failed" \in {head.k, rest.k} THEN Failed
             ELSE StrVal(value_to_display(head) \o rest.w)

Eval(e, view) ==
    CASE e.t = "lit"  -> e.v
      [] e.t = "seg"  -> StrVal(e.w)
      [] e.t = "get"  -> FieldOf(view[e.src])
      [] e.t = "body" -> [k |-> "whole", of |-> view.body]
      [] e.t = "cast" -> apply_cast(Eval(e.e, view), e.to)
      [] e.t = "un"   -> apply_unary(e.op, Eval(e.e, view))
      [] e.t = "text" -> Interpolated(e.parts, view)
      [] e.t = "bin" /\ e.op \in {"and", "or"} ->
           Logical(e.op, Eval(e.l, view), Eval(e.r, view))
      [] OTHER -> apply_binary(e.op, Eval(e.l, view), Eval(e.r, view))

-----------------------------------------------------------------------------
(* Answers.  The body of an answer is nothing, a JSON value or the values  *)
(* of an object's fields; a failed handler answers 500 with its message.   *)

Answer(status, body) == [status |-> status, body |-> body]
ServerError == Answer(500, [j |-> "message"])
NotFound == Answer(404, [j |-> "message"])
NoBody == [j |-> "none"]

\* JSON has one sort of number; a float that is not finite becomes null.
value_to_json(v) ==
    CASE v.k \in {"int", "float"} ->
           IF v.d = 0 THEN [j |-> "null"] ELSE [j |-> "num", n |-> v.n, d |-> v.d]
      [] v.k = "str"  -> [j |-> "str", w |-> v.w]
      [] v.k = "bool" -> [j |-> "bool", b |-> v.b]
      [] OTHER        -> [j |-> v.k, of |-> v.of]

status_disallows_body(status) == status \in 100 .. 199 \cup {204, 304}

\* A payload is nothing, a value or an object of fields.
Respond(s, view) ==
    LET sent == IF s.status \in 100 .. 999 THEN s.status ELSE 500
        values == [i \in DOMAIN s.payload.es |-> Eval(s.payload.es[i], view)]
    IN  IF \E i \in DOMAIN values : values[i].k = "failed" THEN ServerError
        ELSE Answer(sent,
               CASE status_disallows_body(sent) \/ s.payload.p = "void" -> NoBody
                 [] s.payload.p = "value" -> value_to_json(values[1])
                 [] OTHER -> [j |-> "object",
                              of |-> [i \in DOMAIN values |-> value_to_json(values[i])]])

\* What a block answers, as a set of at most one answer: a response ends the
\* handler, a block that ends without one answers nothing.
RECURSIVE RunBlock(_, _)
RunBlock(block, view) ==
    IF block = <<>> THEN {}
    ELSE LET s == Head(block)
             first ==
               CASE s.s = "respond" -> {Respond(s, view)}
                 [] s.s = "if" ->
                      LET c == Eval(s.cond, view)
                      IN  IF c.k = "failed" THEN {ServerError}
                          ELSE RunBlock(IF is_truthy(c) THEN s.then ELSE s.else, view)
                 [] OTHER -> {}
         IN  IF first # {} THEN first ELSE RunBlock(Tail(block), view)

-----------------------------------------------------------------------------
(* Routes.  A path is the sequence of its segments, each a text; "/a/" has *)
(* an empty last segment.  A pattern is AnyPath or a sequence of segments: *)
(* literals, parameters with the literal that follows the name, and the    *)
(* parameter that takes the rest of the path.                              *)

AnyPath == <<>>                 \* the pattern "*"

Missing == [sort |-> "missing"]
Text(w) == [sort |-> "text", w |-> w]
Truth(b) == [sort |-> "truth", b |-> b, w |-> <<IF b THEN "true" ELSE "false">>]
\* A number of a JSON body is an integer where it is spelled like one.
Number(a) ==
    LET n == Numerals[a]
    IN  [sort |-> "number", w |-> <<a>>,
         v |-> IF n.d = 1 THEN IntVal(n.n) ELSE FloatVal(n.n, n.d)]

\* Trailing slashes go, but one segment stays.
normalize_path(path) ==
    LET full == {i \in DOMAIN path : path[i] # <<>>}
    IN  SubSeq(path, 1, IF full = {} THEN 1 ELSE Lib!Max(full))

\* What a pattern's segment takes of a path's segment, as a set of at most one
\* capture.
match_route_segment(p, w) ==
    IF p.seg = "lit" THEN IF p.w = w THEN {Missing} ELSE {}
    ELSE LET stem == Len(w) - Len(p.suffix)
         IN  IF stem >= 0 /\ SubSeq(w, stem + 1, Len(w)) = p.suffix
             THEN {Text(SubSeq(w, 1, stem))} ELSE {}

\* The segments of the rest, joined by slashes.
RECURSIVE Joined(_)
Joined(path) ==
    IF Len(path) = 1 THEN path[1] ELSE path[1] \o <<"/">> \o Joined(Tail(path))

\* The last of the captures, as the map of parameters keeps it.
LastCapture(captures) ==
    LET texts == {i \in DOMAIN captures : captures[i].sort = "text"}
    IN  IF texts = {} THEN Missing ELSE captures[Lib!Max(texts)]

match_route(pattern, path) ==
    IF pattern = AnyPath THEN {Missing}
    ELSE LET n == Len(pattern)
             rest == pattern[n].seg = "rest"
             fixed == IF rest THEN n - 1 ELSE n
             caught == [i \in 1 .. Lib!Min({fixed, Len(path)}) |->
                          match_route_segment(pattern[i], path[i])]
         IN  IF \/ IF rest THEN Len(path) < n ELSE Len(path) # n
                \/ \E i \in DOMAIN caught : caught[i] = {}
             THEN {}
             ELSE {IF rest THEN Text(Joined(SubSeq(path, n, Len(path))))
                   ELSE LastCapture([i \in DOMAIN caught |-> OrFailed(caught[i])])}

View(param, req) == [route |-> param, query |-> req.query, body |-> req.body]

\* The first route of the method whose pattern matches answers the request.  A
\* handler that ends without a response answers the value of its last statement,
\* here nothing.
RECURSIVE ReferenceAnswer(_, _)
ReferenceAnswer(routes, req) ==
    IF routes = <<>> THEN NotFound
    ELSE LET r == Head(routes)
             caught == match_route(r.pattern, normalize_path(req.path))
         IN  IF r.method \notin {"*", req.method} \/ caught = {}
             THEN ReferenceAnswer(Tail(routes), req)
             ELSE LET given == RunBlock(r.block, View(OrFailed(caught), req))
                  IN  IF given = {} THEN Answer(200, NoBody) ELSE OrFailed(given)
=============================================================================
