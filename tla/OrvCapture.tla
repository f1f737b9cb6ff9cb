------------------------------ MODULE OrvCapture ------------------------------
(***************************************************************************)
(* How the compiler lowers a route handler to response artifacts           *)
(* (orv-compiler/src/server_artifacts.rs): which expressions over captures *)
(* it recognises and which operation, on which operands, it writes into    *)
(* the artifact of a field or of a condition.                              *)
(*                                                                         *)
(* The code returns Option at every step; here an option is a set of at    *)
(* most one element and First takes the first alternative that has one.    *)
(* A captured value is                                                     *)
(*   src, kind  the first capture and what it is cast to ("str" if plain)  *)
(*   op, form   the operation ("" for none) and the shape of its operand:  *)
(*              "" plain, "scaled" k * c, "product" c * d,                 *)
(*              "scaled_product" k * c * d, "triple_product" c * d * e,    *)
(*              "product_product" a first product against another,         *)
(*              "product_static" a first product against a constant        *)
(*   stat       the constant operand                                       *)
(*   ops        the captures of the operand, in order                      *)
(***************************************************************************)
EXTENDS OrvHandler

Opt(b, x) == IF b THEN {x} ELSE {}
The(opt) == CHOOSE x \in opt : TRUE
First(alternatives) ==
    LET some == {i \in DOMAIN alternatives : alternatives[i] # {}}
    IN  IF some = {} THEN {} ELSE alternatives[CHOOSE i \in some : \A j \in some : i <= j]

Six == {"eq", "ne", "lt", "le", "gt", "ge"}
Five == {"add", "sub", "mul", "div", "rem"}
Comparisons == Six \cup {"and", "or"}

-----------------------------------------------------------------------------
(* Constants of the handler.                                               *)

static_integer(e) ==
    CASE e.t = "lit" /\ e.v.k = "int" -> {e.v}
      [] e.t = "un" /\ e.op = "neg" /\ e.e.t = "lit" /\ e.e.v.k = "int" -> {IntVal(-e.e.v.n)}
      [] OTHER -> {}

\* The text of the literal is kept: an integer literal stays one.
static_float(e) ==
    CASE e.t = "lit" /\ e.v.k \in {"int", "float"} -> {e.v}
      [] e.t = "un" /\ e.op = "neg" /\ e.e.t = "lit" /\ e.e.v.k \in {"int", "float"} ->
           {[e.e.v EXCEPT !.n = -@]}
      [] OTHER -> {}

static_bool(e) == Opt(e.t = "lit" /\ e.v.k = "bool", e.v)

IsPlainText(e) == e.t = "text" /\ \A i \in DOMAIN e.parts : e.parts[i].t = "seg"

static_string_expr(e) == IF IsPlainText(e) THEN {Interpolated(e.parts, <<>>).w} ELSE {}

static_json_payload(e) ==
    First(<<static_float(e), static_bool(e),
            IF IsPlainText(e) THEN {Interpolated(e.parts, <<>>)} ELSE {}>>)

-----------------------------------------------------------------------------
(* Operands: the captures an expression multiplies.                        *)

captured_string_operand(e) == IF e.t = "get" THEN {e.src} ELSE {}

Cast(kind, e) ==
    IF e.t = "cast" /\ e.to = kind THEN captured_string_operand(e.e) ELSE {}
captured_integer_operand(e) == Cast("int", e)
captured_float_operand(e) == Cast("float", e)
captured_bool_operand(e) == Cast("bool", e)

captured_negated_bool_operand(e) ==
    IF e.t = "un" /\ e.op = "not" THEN captured_bool_operand(e.e) ELSE {}

IsProduct(e) == e.t = "bin" /\ e.op = "mul"

Pair(A, B) == {<<a, b>> : a \in A, b \in B}

captured_scaled_integer_operand(e) ==
    IF ~IsProduct(e) THEN {}
    ELSE First(<<Pair(static_integer(e.r), captured_integer_operand(e.l)),
                 Pair(static_integer(e.l), captured_integer_operand(e.r))>>)
captured_scaled_float_operand(e) ==
    IF ~IsProduct(e) THEN {}
    ELSE First(<<Pair(static_float(e.r), captured_float_operand(e.l)),
                 Pair(static_float(e.l), captured_float_operand(e.r))>>)

captured_product_integer_operand(e) ==
    IF IsProduct(e) THEN Pair(captured_integer_operand(e.l), captured_integer_operand(e.r))
    ELSE {}
captured_product_float_operand(e) ==
    IF IsProduct(e) THEN Pair(captured_float_operand(e.l), captured_float_operand(e.r))
    ELSE {}

\* The factors of nested products from left to right.
RECURSIVE Factors(_)
Factors(e) == IF IsProduct(e) THEN Factors(e.l) \o Factors(e.r) ELSE <<e>>

Captures(kind, e) == SelectSeq(Factors(e), LAMBDA f : Cast(kind, f) # {})
Sources(kind, e) == LET c == Captures(kind, e) IN [i \in DOMAIN c |-> c[i].e.src]

\* Two captures and one constant, in any order; every other factor refuses.
captured_scaled_product_integer_operand(e) ==
    LET rest == SelectSeq(Factors(e), LAMBDA f : Cast("int", f) = {})
    IN  IF Len(Captures("int", e)) = 2 /\ Len(rest) = 1
        THEN Pair(static_integer(rest[1]), {Sources("int", e)}) ELSE {}
captured_scaled_product_float_operand(e) ==
    LET rest == SelectSeq(Factors(e), LAMBDA f : Cast("float", f) = {})
    IN  IF Len(Captures("float", e)) = 2 /\ Len(rest) = 1
        THEN Pair(static_float(rest[1]), {Sources("float", e)}) ELSE {}

captured_triple_product_integer_operand(e) ==
    Opt(Len(Factors(e)) = 3 /\ Captures("int", e) = Factors(e), Sources("int", e))
captured_triple_product_float_operand(e) ==
    Opt(Len(Factors(e)) = 3 /\ Captures("float", e) = Factors(e), Sources("float", e))

-----------------------------------------------------------------------------
(* Captured values.                                                        *)

captured_response_value(src, kind) ==
    [src |-> src, kind |-> kind, op |-> "", form |-> "", stat |-> {}, ops |-> <<>>]

has_operation(v) == v.op # ""
IsNumeric(v) == v.kind \in {"int", "float"}

Static(v, e) == IF v.kind = "int" THEN static_integer(e) ELSE static_float(e)
With(v, op, form, stat, ops) ==
    [v EXCEPT !.op = op, !.form = form, !.stat = stat, !.ops = ops]

captured_response_value_is_plain_product(v) ==
    v.op = "mul" /\ v.form = "" /\ Len(v.ops) = 1 /\ IsNumeric(v)

captured_product_static_response_operation(v, op, e) ==
    IF captured_response_value_is_plain_product(v)
    THEN {With(v, op, "product_static", {s}, v.ops) : s \in Static(v, e)} ELSE {}

captured_product_product_response_operation(v, op, e) ==
    IF captured_response_value_is_plain_product(v)
    THEN {With(v, op, "product_product", {}, v.ops \o p) :
             p \in IF v.kind = "int" THEN captured_product_integer_operand(e)
                   ELSE captured_product_float_operand(e)}
    ELSE {}

captured_scaled_response_operation(v, op, e) ==
    IF has_operation(v) \/ ~IsNumeric(v) THEN {}
    ELSE {With(v, op, "scaled", {p[1]}, <<p[2]>>) :
             p \in IF v.kind = "int" THEN captured_scaled_integer_operand(e)
                   ELSE captured_scaled_float_operand(e)}

captured_product_response_operation(v, op, e) ==
    IF has_operation(v) \/ ~IsNumeric(v) THEN {}
    ELSE {With(v, op, "product", {}, p) :
             p \in IF v.kind = "int" THEN captured_product_integer_operand(e)
                   ELSE captured_product_float_operand(e)}

captured_scaled_product_response_operation(v, op, e) ==
    IF has_operation(v) \/ ~IsNumeric(v) THEN {}
    ELSE {With(v, op, "scaled_product", {p[1]}, p[2]) :
             p \in IF v.kind = "int" THEN captured_scaled_product_integer_operand(e)
                   ELSE captured_scaled_product_float_operand(e)}

captured_triple_product_response_operation(v, op, e) ==
    IF has_operation(v) \/ ~IsNumeric(v) THEN {}
    ELSE {With(v, op, "triple_product", {}, p) :
             p \in IF v.kind = "int" THEN captured_triple_product_integer_operand(e)
                   ELSE captured_triple_product_float_operand(e)}

StaticOperation(v, op, e) == {With(v, op, "", {s}, <<>>) : s \in Static(v, e)}
CaptureOperation(v, op, e) == {With(v, op, "", {}, <<s>>) : s \in Cast(v.kind, e)}

-----------------------------------------------------------------------------
(* Arithmetic.  The left side is tried as the captured value first, then   *)
(* the right side with the operation turned around: rsub is k - v.         *)

Bug_Turned(op) == CASE op = "sub" -> "rsub" [] op = "div" -> "rdiv" [] op = "pow" -> "rpow"
                    [] OTHER -> op      \* mutant: k % v becomes v % k
Turned(op) == CASE op = "sub" -> "rsub" [] op = "div" -> "rdiv" [] op = "rem" -> "rrem"
                [] op = "pow" -> "rpow" [] OTHER -> op

captured_numeric_response_operation(v, op, e) ==
    LET wide == op \in Five IN
    First(<<
        IF wide THEN captured_product_product_response_operation(v, op, e) ELSE {},
        IF wide THEN captured_product_static_response_operation(v, op, e) ELSE {},
        IF wide THEN captured_scaled_product_response_operation(v, op, e) ELSE {},
        IF wide THEN captured_triple_product_response_operation(v, op, e) ELSE {},
        IF has_operation(v) \/ ~IsNumeric(v) THEN {}
        ELSE First(<<StaticOperation(v, op, e),
                     IF wide THEN captured_scaled_response_operation(v, op, e) ELSE {},
                     IF wide THEN captured_product_response_operation(v, op, e) ELSE {},
                     CaptureOperation(v, op, e)>>)>>)

captured_string_concat_response_operation(v, e) ==
    IF has_operation(v) THEN {}
    ELSE First(<<{With(v, "concat", "", {w}, <<>>) : w \in static_string_expr(e)},
                 {With(v, "concat", "", {}, <<s>>) : s \in captured_string_operand(e)}>>)

captured_string_prefix_concat_response_operation(v, e) ==
    IF has_operation(v) THEN {}
    ELSE {With(v, "concat_prefix", "", {w}, <<>>) : w \in static_string_expr(e)}

captured_arithmetic_response_operation(v, op, e) ==
    IF op = "add" /\ v.kind = "str" THEN captured_string_concat_response_operation(v, e)
    ELSE captured_numeric_response_operation(v, op, e)

captured_static_left_numeric_arithmetic_response_operation(v, op, e) ==
    IF has_operation(v) \/ ~IsNumeric(v) THEN {} ELSE StaticOperation(v, Turned(op), e)

\* What the right side makes of a left side that is no captured value.
FromRight(v, op, e, withTriple) ==
    LET wide == op \in Five IN
    First(<<
        IF wide THEN captured_scaled_response_operation(v, Turned(op), e) ELSE {},
        IF wide THEN captured_product_response_operation(v, Turned(op), e) ELSE {},
        IF wide THEN captured_scaled_product_response_operation(v, Turned(op), e) ELSE {},
        IF withTriple THEN captured_triple_product_response_operation(v, op, e) ELSE {},
        IF wide THEN captured_product_static_response_operation(v, Turned(op), e) ELSE {},
        captured_static_left_numeric_arithmetic_response_operation(v, op, e)>>)

OnRight(right, op, l, withTriple) ==
    IF right = {} THEN {} ELSE FromRight(The(right), op, l, withTriple)
OnLeft(left, op, r) ==
    IF left = {} THEN {} ELSE captured_arithmetic_response_operation(The(left), op, r)

captured_add_response_operation(left, right, l, r) ==
    First(<<OnLeft(left, "add", r),
            IF right # {} /\ The(right).kind = "str"
            THEN captured_string_prefix_concat_response_operation(The(right), l)
            ELSE OnRight(right, "add", l, TRUE)>>)
captured_mul_response_operation(left, right, l, r) ==
    First(<<OnLeft(left, "mul", r), OnRight(right, "mul", l, TRUE)>>)
\* No triple product on the left of sub, div and rem.
captured_ordered_arithmetic_response_operation(left, right, op, l, r) ==
    First(<<OnLeft(left, op, r), OnRight(right, op, l, FALSE)>>)

captured_numeric_neg_response_operation(v) ==
    Opt(~has_operation(v) /\ IsNumeric(v), [v EXCEPT !.op = "neg"])

-----------------------------------------------------------------------------
(* Strings with interpolation: one plain capture with a constant before    *)
(* and behind it, or two with a constant between them.                     *)

JoinConst(parts) == Interpolated(parts, <<>>).w
IsSeg(p) == p.t = "seg"
Interps(parts) == {i \in DOMAIN parts : ~IsSeg(parts[i])}

captured_joined_string_interpolation_response_operation(first, parts) ==
    LET n == Len(parts) IN
    IF ~(n >= 2 /\ Interps(parts) = {1, n}) THEN {}
    ELSE {With(v, "concat_join", "", {JoinConst(SubSeq(parts, 2, n - 1))}, <<s>>) :
             v \in {u \in first : ~has_operation(u) /\ u.kind = "str"},
             s \in captured_string_operand(parts[n])}

\* first is what the first interpolated expression captures.
captured_string_interpolation_response_operation(first, parts) ==
    LET at == CHOOSE i \in Interps(parts) : \A j \in Interps(parts) : i <= j
        prefix == JoinConst(SubSeq(parts, 1, at - 1))
        suffix == JoinConst(SubSeq(parts, at + 1, Len(parts)))
        affixed(v) ==
            CASE prefix = <<>> /\ suffix = <<>> -> v
              [] suffix = <<>> -> With(v, "concat_prefix", "", {prefix}, <<>>)
              [] prefix = <<>> -> With(v, "concat", "", {suffix}, <<>>)
              [] OTHER -> With(v, "concat_affix", "", {<<prefix, suffix>>}, <<>>)
    IN  First(<<captured_joined_string_interpolation_response_operation(first, parts),
                IF Cardinality(Interps(parts)) # 1 THEN {}
                ELSE {affixed(v) : v \in {u \in first : ~has_operation(u) /\ u.kind = "str"}}>>)

-----------------------------------------------------------------------------
(* Comparisons and logic of a field.                                       *)

\* a < b is b > a; and, or have no turned form.
reverse_comparison_op(op) ==
    CASE op \in {"eq", "ne"} -> {op}
      [] op = "lt" -> {"gt"} [] op = "le" -> {"ge"}
      [] op = "gt" -> {"lt"} [] op = "ge" -> {"le"}
      [] OTHER -> {}

captured_string_comparison_response_operation(v, op, e) ==
    IF has_operation(v) \/ op \notin {"eq", "ne"} THEN {}
    ELSE First(<<{With(v, op, "", {w}, <<>>) : w \in static_string_expr(e)},
                 {With(v, op, "", {}, <<s>>) : s \in captured_string_operand(e)}>>)

captured_bool_response_operation(v) ==
    Opt(~has_operation(v) /\ v.kind = "bool", [v EXCEPT !.op = "not"])

captured_bool_comparison_response_operation(v, op, e) ==
    LET name == CASE v.op = "" /\ op \in {"eq", "ne", "and", "or"} -> op
                  [] v.op = "not" /\ op = "and" -> "not_and"
                  [] v.op = "not" /\ op = "or"  -> "not_or"
                  [] OTHER -> ""
        negated == IF name \in {"and", "or"} THEN captured_negated_bool_operand(e) ELSE {}
    IN  IF name = "" \/ v.stat # {} \/ v.ops # <<>> THEN {}
        ELSE First(<<{With(v, name, "", {b}, <<>>) : b \in static_bool(e)},
                     {With(v, name \o "_not", "", {}, <<s>>) : s \in negated},
                     {With(v, name, "", {}, <<s>>) : s \in captured_bool_operand(e)}>>)

captured_numeric_comparison_response_operation(v, op, e) ==
    IF has_operation(v) \/ op \notin Six \/ ~IsNumeric(v) THEN {}
    ELSE First(<<StaticOperation(v, op, e),
                 captured_scaled_response_operation(v, op, e),
                 captured_product_response_operation(v, op, e),
                 CaptureOperation(v, op, e)>>)

captured_comparison_response_operation(v, op, e) ==
    CASE v.kind = "str"  -> captured_string_comparison_response_operation(v, op, e)
      [] v.kind = "bool" -> captured_bool_comparison_response_operation(v, op, e)
      [] OTHER           -> captured_numeric_comparison_response_operation(v, op, e)

captured_static_comparison_lhs_is_supported(v, e) ==
    CASE v.kind = "str"  -> static_string_expr(e) # {}
      [] v.kind = "bool" -> static_bool(e) # {}
      [] OTHER           -> Static(v, e) # {}

ComparedFromLeft(v, op, e) ==
    LET six == op \in Six IN
    First(<<
        IF six THEN captured_product_product_response_operation(v, op, e) ELSE {},
        IF six THEN captured_product_static_response_operation(v, op, e) ELSE {},
        IF six THEN captured_scaled_product_response_operation(v, op, e) ELSE {},
        IF six THEN captured_triple_product_response_operation(v, op, e) ELSE {},
        captured_comparison_response_operation(v, op, e)>>)

ComparedFromRight(v, op, e) ==
    First(<<
        captured_product_static_response_operation(v, op, e),
        captured_scaled_response_operation(v, op, e),
        captured_product_response_operation(v, op, e),
        captured_scaled_product_response_operation(v, op, e),
        captured_triple_product_response_operation(v, op, e),
        IF captured_static_comparison_lhs_is_supported(v, e)
        THEN captured_comparison_response_operation(v, op, e) ELSE {}>>)

captured_response_comparison_operation(left, right, op, l, r) ==
    LET turned == reverse_comparison_op(op) IN
    First(<<IF left = {} THEN {} ELSE ComparedFromLeft(The(left), op, r),
            IF right = {} \/ turned = {} THEN {}
            ELSE ComparedFromRight(The(right), The(turned), l)>>)

-----------------------------------------------------------------------------
(* What a field's expression captures from one source.                     *)

\* left and right are what the two sides capture themselves.
BinaryValue(e, left, right) ==
    CASE e.op \in Comparisons -> captured_response_comparison_operation(left, right, e.op, e.l, e.r)
      [] e.op = "add" -> captured_add_response_operation(left, right, e.l, e.r)
      [] e.op = "mul" -> captured_mul_response_operation(left, right, e.l, e.r)
      [] OTHER -> captured_ordered_arithmetic_response_operation(left, right, e.op, e.l, e.r)

RECURSIVE FieldValue(_, _)
FieldValue(src, e) ==
    CASE e.t = "text" ->
           IF Interps(e.parts) = {} THEN {}
           ELSE LET at == CHOOSE i \in Interps(e.parts) : \A j \in Interps(e.parts) : i <= j
                IN  captured_string_interpolation_response_operation(
                        FieldValue(src, e.parts[at]), e.parts)
      [] e.t = "bin" ->
           BinaryValue(e, FieldValue(src, e.l), FieldValue(src, e.r))
      [] e.t = "un" ->
           UNION {IF e.op = "neg" THEN captured_numeric_neg_response_operation(v)
                  ELSE captured_bool_response_operation(v) : v \in FieldValue(src, e.e)}
      [] OTHER ->
           First(<<{captured_response_value(src, "str") :
                       s \in captured_string_operand(e) \cap {src}},
                   {captured_response_value(src, e.to) :
                       s \in IF e.t = "cast" THEN Cast(e.to, e) \cap {src} ELSE {}}>>)

route_param_field_value(e) == FieldValue("route", e)
query_param_field_value(e) == FieldValue("query", e)
request_body_field_value(e) == FieldValue("body", e)

-----------------------------------------------------------------------------
(* Conditions of guarded responses, in the shape of captured values.       *)

Cond(src, kind, op, form, stat, ops) ==
    [src |-> src, kind |-> kind, op |-> op, form |-> form, stat |-> stat, ops |-> ops]

\* One side is a capture, the other any operand shape.
CondAgainst(src, kind, op, e) ==
    LET scaled == IF kind = "int" THEN captured_scaled_integer_operand(e)
                  ELSE captured_scaled_float_operand(e)
        scaledProduct == IF kind = "int" THEN captured_scaled_product_integer_operand(e)
                         ELSE captured_scaled_product_float_operand(e)
        product == IF kind = "int" THEN captured_product_integer_operand(e)
                   ELSE captured_product_float_operand(e)
        triple == IF kind = "int" THEN captured_triple_product_integer_operand(e)
                  ELSE captured_triple_product_float_operand(e)
        static == IF kind = "int" THEN static_integer(e) ELSE static_float(e)
    IN  First(<<{Cond(src, kind, op, "", {k}, <<>>) : k \in static},
                {Cond(src, kind, op, "scaled", {p[1]}, <<p[2]>>) : p \in scaled},
                {Cond(src, kind, op, "scaled_product", {p[1]}, p[2]) : p \in scaledProduct},
                {Cond(src, kind, op, "product", {}, p) : p \in product},
                {Cond(src, kind, op, "triple_product", {}, p) : p \in triple}>>)

ProductStaticCond(kind, op, product, static) ==
    {Cond(p[1], kind, op, "product_static", {k}, <<p[2]>>) : p \in product, k \in static}

native_captured_product_static_int_response_condition(op, l, r) ==
    First(<<ProductStaticCond("int", op, captured_product_integer_operand(l), static_integer(r)),
            ProductStaticCond("int", The(reverse_comparison_op(op)),
                              captured_product_integer_operand(r), static_integer(l))>>)
native_captured_product_static_float_response_condition(op, l, r) ==
    First(<<ProductStaticCond("float", op, captured_product_float_operand(l), static_float(r)),
            ProductStaticCond("float", The(reverse_comparison_op(op)),
                              captured_product_float_operand(r), static_float(l))>>)

ProductProductCond(kind, op, left, right) ==
    {Cond(p[1], kind, op, "product_product", {}, <<p[2]>> \o q) : p \in left, q \in right}
native_captured_product_product_int_response_condition(op, l, r) ==
    ProductProductCond("int", op, captured_product_integer_operand(l),
                       captured_product_integer_operand(r))
native_captured_product_product_float_response_condition(op, l, r) ==
    ProductProductCond("float", op, captured_product_float_operand(l),
                       captured_product_float_operand(r))

\* A captured left side is compared with the right one; otherwise the right
\* side has to be the capture.
CaptureCond(kind, op, l, r) ==
    LET left == Cast(kind, l)
        right == Cast(kind, r)
    IN  IF left # {}
        THEN First(<<CondAgainst(The(left), kind, op, r),
                     {Cond(The(left), kind, op, "", {}, <<s>>) : s \in right}>>)
        ELSE UNION {CondAgainst(s, kind, The(reverse_comparison_op(op)), l) : s \in right}

native_captured_int_response_condition(op, l, r) ==
    IF op \notin Six THEN {}
    ELSE First(<<native_captured_product_product_int_response_condition(op, l, r),
                 native_captured_product_static_int_response_condition(op, l, r),
                 CaptureCond("int", op, l, r)>>)
native_captured_float_response_condition(op, l, r) ==
    IF op \notin Six THEN {}
    ELSE First(<<native_captured_product_product_float_response_condition(op, l, r),
                 native_captured_product_static_float_response_condition(op, l, r),
                 CaptureCond("float", op, l, r)>>)

native_captured_bool_response_condition(op, l, r) ==
    LET cond(src, name, stat, ops) == Cond(src, "bool", name, "", stat, ops)
        logic == op \in {"and", "or"}
        notLeft == IF logic THEN captured_negated_bool_operand(l) ELSE {}
        notRight == IF logic THEN captured_negated_bool_operand(r) ELSE {}
        left == captured_bool_operand(l)
        right == captured_bool_operand(r)
    IN  CASE op \notin {"eq", "ne", "and", "or"} -> {}
          [] notLeft # {} ->
               First(<<{cond(The(notLeft), "not_" \o op, {b}, <<>>) : b \in static_bool(r)},
                       {cond(The(notLeft), "not_" \o op, {}, <<s>>) : s \in right}>>)
          [] notLeft = {} /\ left # {} ->
               First(<<{cond(The(left), op, {b}, <<>>) : b \in static_bool(r)},
                       {cond(The(left), op \o "_not", {}, <<s>>) : s \in notRight},
                       {cond(The(left), op, {}, <<s>>) : s \in right}>>)
          [] OTHER -> {cond(s, op, {b}, <<>>) : s \in right, b \in static_bool(l)}

native_captured_response_condition(op, l, r) ==
    LET left == captured_string_operand(l)
        right == captured_string_operand(r)
    IN  IF left # {}
        THEN First(<<{Cond(The(left), "str", op, "", {w}, <<>>) : w \in static_string_expr(r)},
                     {Cond(The(left), "str", op, "", {}, <<s>>) : s \in right}>>)
        ELSE {Cond(s, "str", op, "", {w}, <<>>) : s \in right, w \in static_string_expr(l)}

\* A cast to bool alone is compared with true.
native_captured_bool_truthy_response_condition(e) ==
    {Cond(s, "bool", "eq", "", {BoolVal(TRUE)}, <<>>) : s \in captured_bool_operand(e)}
native_captured_bool_negated_response_condition(e) ==
    {Cond(s, "bool", "ne", "", {BoolVal(TRUE)}, <<>>) : s \in captured_bool_operand(e)}

native_response_condition(e) ==
    CASE e.t = "bin" /\ e.op \in Comparisons ->
           First(<<native_captured_float_response_condition(e.op, e.l, e.r),
                   native_captured_int_response_condition(e.op, e.l, e.r),
                   native_captured_bool_response_condition(e.op, e.l, e.r),
                   IF e.op \in {"eq", "ne"}
                   THEN native_captured_response_condition(e.op, e.l, e.r) ELSE {}>>)
      [] e.t = "un" /\ e.op = "not" -> native_captured_bool_negated_response_condition(e.e)
      [] OTHER -> native_captured_bool_truthy_response_condition(e)

-----------------------------------------------------------------------------
(* Responses.  A lowered field is a constant, the whole body or a captured *)
(* value; kind says which code the response gets.                          *)

Const(v) == [a |-> "static", v |-> v]
Whole == [a |-> "body"]
Captured(v) == [a |-> "capture", v |-> v]

Lower(src, e) == {Captured(v) : v \in FieldValue(src, e)}
WholeBody(e) == Opt(e.t = "body", Whole)

mixed_response_object_field(e) ==
    First(<<{[from |-> "static", f |-> Const(v)] : v \in static_json_payload(e)},
            {[from |-> "route", f |-> f] : f \in Lower("route", e)},
            {[from |-> "query", f |-> f] : f \in Lower("query", e)},
            {[from |-> "whole", f |-> f] : f \in WholeBody(e)},
            {[from |-> "body", f |-> f] : f \in Lower("body", e)}>>)

\* All options of a sequence, or none.
AllOf(opts) ==
    Opt(\A i \in DOMAIN opts : opts[i] # {}, [i \in DOMAIN opts |-> The(opts[i])])

mixed_object_json_payload(es) ==
    {[i \in DOMAIN fs |-> fs[i].f] :
        fs \in {gs \in AllOf([i \in DOMAIN es |-> mixed_response_object_field(es[i])]) :
                  LET from == {gs[i].from : i \in DOMAIN gs}
                  IN  from \ {"static"} # {} /\ Cardinality(from) > 1}}
route_param_json_payload(es) == AllOf([i \in DOMAIN es |-> Lower("route", es[i])])
query_param_json_payload(es) == AllOf([i \in DOMAIN es |-> Lower("query", es[i])])
request_body_json_payload(es) == AllOf([i \in DOMAIN es |-> WholeBody(es[i])])
request_body_field_json_payload(es) == AllOf([i \in DOMAIN es |-> Lower("body", es[i])])
StaticObject(es) ==
    AllOf([i \in DOMAIN es |-> {Const(v) : v \in static_json_payload(es[i])}])

ResponseBody(kind, fields) == [kind |-> kind, fields |-> fields]

server_object_body(es) ==
    First(<<{ResponseBody("mixed_json", f) : f \in mixed_object_json_payload(es)},
            {ResponseBody("route_param_json", f) : f \in route_param_json_payload(es)},
            {ResponseBody("query_param_json", f) : f \in query_param_json_payload(es)},
            {ResponseBody("request_body_json", f) : f \in request_body_json_payload(es)},
            {ResponseBody("request_body_field_json", f) : f \in request_body_field_json_payload(es)}>>)

server_response_body(s) ==
    LET p == s.payload
        static == IF p.p = "void" THEN {} ELSE StaticObject(p.es)
        empty == p.p = "void" \/ (status_disallows_body(s.status) /\ static # {})
    IN  The(First(<<Opt(empty, ResponseBody("empty", <<>>)),
                    {ResponseBody("static_json", f) : f \in static},
                    IF p.p = "object" THEN server_object_body(p.es) ELSE {},
                    {ResponseBody("dynamic", <<>>)}>>))

\* g is a response and, as an option, the condition it is guarded by.
server_response_artifact(g) ==
    [cond |-> g.cond, status |-> g.s.status, object |-> g.s.payload.p = "object"]
        @@ server_response_body(g.s)

-----------------------------------------------------------------------------
(* The flows a handler may have: an if-else chain of responses, or ifs     *)
(* that respond before a last response.  Every other handler gives each of *)
(* its responses as it is found, without a condition.                      *)

IsResponse(block) == Len(block) = 1 /\ block[1].s = "respond"

Guarded(s, cond) == [s |-> s, cond |-> cond]

\* The guarded response of an if, as an option.
Guard(s) ==
    IF s.s = "if" /\ IsResponse(s.then)
    THEN {Guarded(s.then[1], {c}) : c \in native_response_condition(s.cond)}
    ELSE {}

RECURSIVE collect_if_else_response_artifacts(_)
collect_if_else_response_artifacts(s) ==
    UNION {CASE IsResponse(s.else) -> {<<g, Guarded(s.else[1], {})>>}
             [] Len(s.else) = 1 /\ ~IsResponse(s.else) ->
                  {<<g>> \o rest : rest \in collect_if_else_response_artifacts(s.else[1])}
             [] OTHER -> {} : g \in Guard(s)}

RECURSIVE collect_guarded_response_artifacts_from_if(_)
collect_guarded_response_artifacts_from_if(s) ==
    UNION {CASE s.else = <<>> -> {<<g>>}
             [] Len(s.else) = 1 ->
                  {<<g>> \o rest : rest \in collect_guarded_response_artifacts_from_if(s.else[1])}
             [] OTHER -> {} : g \in Guard(s)}

\* The elements of a sequence of sequences, in order.
RECURSIVE Flat(_)
Flat(seqs) == IF seqs = <<>> THEN <<>> ELSE Head(seqs) \o Flat(Tail(seqs))

guarded_route_response_artifacts(block) ==
    LET n == Len(block)
        before == AllOf([i \in 1 .. n - 1 |-> collect_guarded_response_artifacts_from_if(block[i])])
    IN  CASE n = 1 -> collect_if_else_response_artifacts(block[1])
          [] n >= 2 /\ block[n].s = "respond" ->
               {Flat(b) \o <<Guarded(block[n], {})>> : b \in before}
          [] OTHER -> {}

RECURSIVE collect_block_response_artifacts(_)
collect_block_response_artifacts(block) ==
    Flat([i \in DOMAIN block |->
            CASE block[i].s = "respond" -> <<Guarded(block[i], {})>>
              [] block[i].s = "if" -> collect_block_response_artifacts(block[i].then)
                                        \o collect_block_response_artifacts(block[i].else)
              [] OTHER -> <<>>])

route_response_artifacts(block) ==
    LET found == The(First(<<guarded_route_response_artifacts(block),
                             {collect_block_response_artifacts(block)}>>))
    IN  [i \in DOMAIN found |-> server_response_artifact(found[i])]
=============================================================================
