------------------------------ MODULE OrvNative ------------------------------
(***************************************************************************)
(* The native server of a build (orv-compiler/src/native.rs): which        *)
(* artifacts are compiled to a server of their own (is_direct), what its   *)
(* generated code answers, and that this is what the reference server      *)
(* answers (OrvHandler).                                                   *)
(*                                                                         *)
(* Each push_... writes the code of one arm and returns whether it could;  *)
(* here it is what that code computes, as an option: {} where the code     *)
(* generator writes none, {Failed} where the code answers 500.  params is  *)
(* whether the route declares the parameter the captures name.             *)
(***************************************************************************)
EXTENDS OrvCapture

CONSTANTS Programs, Requests    \* the programs and the requests explored

Ordered == {"add", "sub", "rsub", "mul", "div", "rdiv", "rem", "rrem"}

-----------------------------------------------------------------------------
(* What can be compiled.                                                   *)

native_captured_operand_is_direct(src, params) == src # "route" \/ params

OperandsAreDirect(v, params) ==
    \A i \in DOMAIN v.ops : native_captured_operand_is_direct(v.ops[i], params)

native_string_operation_is_direct(v, params) ==
    /\ OperandsAreDirect(v, params)
    /\ v.op \in CASE v.stat # {} /\ v.ops = <<>> -> {"eq", "ne", "concat", "concat_prefix", "concat_affix"}
                  [] v.stat # {} -> {"concat_join"}
                  [] OTHER       -> {"eq", "ne", "concat"}

BoolVerbs == {"eq", "ne", "and", "or", "not_and", "not_or", "and_not", "or_not"}
native_bool_operation_is_direct(v, params) ==
    /\ OperandsAreDirect(v, params)
    /\ IF v.stat = {} /\ v.ops = <<>> THEN v.op = "not" ELSE v.op \in BoolVerbs

\* The verbs of a shape of operands, the same for integers and floats.
NumericVerbs(v) ==
    CASE v.form \in {"product_product", "triple_product"} -> Five \cup Six
      [] v.form \in {"product", "scaled_product", "scaled", "product_static"} -> Ordered \cup Six
      [] v.form = "" /\ v.stat # {} -> Ordered \cup Six \cup {"pow", "rpow"}
      [] v.form = "" /\ v.ops # <<>> -> Five \cup Six \cup {"pow"}
      [] OTHER -> {"neg"}
native_int_operation_is_direct(v, params) ==
    /\ v.op \in NumericVerbs(v)
    /\ \A k \in v.stat : k.k = "int"
    /\ OperandsAreDirect(v, params)
native_float_operation_is_direct(v, params) ==
    /\ v.op \in NumericVerbs(v)
    /\ \A k \in v.stat : k.d # 0
    /\ OperandsAreDirect(v, params)

native_captured_field_operation_is_direct(v, params) ==
    \/ ~has_operation(v)
    \/ v.kind = "str" /\ native_string_operation_is_direct(v, params)
    \/ v.kind = "bool" /\ native_bool_operation_is_direct(v, params)
    \/ v.kind = "int" /\ native_int_operation_is_direct(v, params)
    \/ v.kind = "float" /\ native_float_operation_is_direct(v, params)

CaptureIsDirect(f, params) ==
    /\ native_captured_operand_is_direct(f.v.src, params)
    /\ native_captured_field_operation_is_direct(f.v, params)

native_server_response_uses_object_fields(r, params) ==
    /\ r.kind = "mixed_json" /\ r.fields # <<>>
    /\ \A i \in DOMAIN r.fields : r.fields[i].a = "capture" => CaptureIsDirect(r.fields[i], params)
native_server_response_uses_captures(r, params) ==
    /\ r.kind \in {"route_param_json", "query_param_json", "request_body_field_json"}
    /\ r.fields # <<>>
    /\ \A i \in DOMAIN r.fields : CaptureIsDirect(r.fields[i], params)

native_server_response_is_direct(r, params) ==
    /\ r.status \in 0 .. 65535
    /\ \/ r.kind \in {"empty", "static_json"}
       \/ native_server_response_uses_object_fields(r, params)
       \/ native_server_response_uses_captures(r, params)
       \/ r.kind = "request_body_json" /\ r.fields # <<>>

\* A scale is a number of the kind of the condition.
native_response_condition_operand_scale_is_direct(c) ==
    \A k \in c.stat : CASE c.kind = "int" -> k.k = "int" [] c.kind = "float" -> k.d # 0 [] OTHER -> TRUE

native_response_condition_operand_kind(c) ==
    CASE c.kind = "str" -> {"eq", "ne"} [] c.kind = "bool" -> BoolVerbs [] OTHER -> Six

native_server_response_condition_is_direct(c, params) ==
    /\ c.op \in native_response_condition_operand_kind(c)
    /\ native_captured_operand_is_direct(c.src, params)
    /\ OperandsAreDirect(c, params)
    /\ native_response_condition_operand_scale_is_direct(c)

\* One response has no condition; of several, all but the last have one.
native_server_route_has_native_response(r) ==
    LET n == Len(r.responses) IN
    /\ n > 0
    /\ \A i \in 1 .. n : /\ native_server_response_is_direct(r.responses[i], r.params)
                         /\ \A c \in r.responses[i].cond :
                               native_server_response_condition_is_direct(c, r.params)
                         /\ (r.responses[i].cond = {}) = (i = n)

native_server_direct_http_capable(artifact) ==
    \A i \in DOMAIN artifact : native_server_route_has_native_response(artifact[i])

-----------------------------------------------------------------------------
(* What the code of an operand computes.  A text that is missing is empty. *)

\* The text of a source, as an option.
Looked(view, src) == IF view[src].sort = "missing" THEN {} ELSE {view[src].w}

TextOf(view, src) == IF view[src].sort = "missing" THEN <<>> ELSE view[src].w

native_int_operand(view, src) == AsInt(trim(TextOf(view, src)))
native_float_operand(view, src) == AsFloat(trim(TextOf(view, src)))
native_bool_operand(view, src) == AsBool(trim(TextOf(view, src)))

\* checked_add and the like.
Checked(op, a, b) ==
    LET exact == CASE op = "add" -> {a + b}
                   [] op = "sub" -> {a - b}
                   [] op = "mul" -> {a * b}
                   [] op = "div" /\ b # 0 -> {Quotient(a, b)}
                   [] op = "rem" /\ b # 0 /\ InRange(Quotient(a, b)) -> {Remainder(a, b)}
                   [] op = "pow" /\ b \in 0 .. MaxExponent -> {Power(a, b)}
                   [] OTHER -> {}
    IN  {IntVal(n) : n \in {m \in exact : InRange(m)}}

FloatRemainder(a, b) ==
    FloatVal(a.n * b.d - b.n * a.d * Quotient(a.n * b.d, b.n * a.d), a.d * b.d)

native_float_arithmetic_expr(op, a, b) ==
    IF op # "rem" THEN FloatBinary(op, a, b)
    ELSE IF b.n = 0 THEN FloatVal(0, 0) ELSE FloatRemainder(a, b)

is_finite(v) == v.k = "power" \/ v.d # 0

\* A constant next to a float is written as it was in the source.
AsOperand(kind, k) == IF kind = "float" THEN FloatVal(k.n, k.d) ELSE k

\* The operation of a turned verb, whose sides change places.
native_static_left_arithmetic_method(op) ==
    CASE op = "rsub" -> "sub" [] op = "rdiv" -> "div" [] op = "rrem" -> "rem"
      [] op = "rpow" -> "pow"
native_arithmetic_method(op, a, b) ==
    IF a.k = "int" THEN Checked(op, a.n, b.n)
    ELSE {v \in {native_float_arithmetic_expr(op, a, b)} : is_finite(v)}

\* Both sides are options: a capture that is no number, a product that does
\* not fit.
Arithmetic(op, left, right) ==
    UNION {IF op \in {"rsub", "rdiv", "rrem", "rpow"}
           THEN native_arithmetic_method(native_static_left_arithmetic_method(op), b, a)
           ELSE native_arithmetic_method(op, a, b) : a \in left, b \in right}

native_comparison_operator(op, a, b) ==
    CASE op = "eq" -> a = b
      [] op = "ne" -> a # b
      [] op = "lt" -> FloatLess(a, b)
      [] op = "le" -> ~FloatLess(b, a)
      [] op = "gt" -> FloatLess(b, a)
      [] op = "ge" -> ~FloatLess(a, b)
Compared(op, left, right) ==
    {BoolVal(native_comparison_operator(op, a, b)) : a \in left, b \in right}

\* The product of captures from left to right.
RECURSIVE IntProduct(_, _)
IntProduct(view, srcs) ==
    LET n == Len(srcs) IN
    IF n = 1 THEN native_int_operand(view, srcs[1])
    ELSE Arithmetic("mul", IntProduct(view, SubSeq(srcs, 1, n - 1)),
                    native_int_operand(view, srcs[n]))
RECURSIVE FloatProduct(_, _)
FloatProduct(view, srcs) ==
    LET n == Len(srcs) IN
    IF n = 1 THEN native_float_operand(view, srcs[1])
    ELSE Arithmetic("mul", FloatProduct(view, SubSeq(srcs, 1, n - 1)),
                    native_float_operand(view, srcs[n]))

Constant(v) == {AsOperand(v.kind, k) : k \in v.stat}

-----------------------------------------------------------------------------
(* Integers.  v is the captured value, x its first capture as an option.   *)
(* Arm(b, o) is an arm that is written where b, with the outcome o.        *)

Arm(b, outcome) == IF b THEN {OrFailed(outcome)} ELSE {}

\* x with c * d
push_native_int_product_arithmetic_success_arm(v, x, view) ==
    Arm(v.op \in Ordered, Arithmetic(v.op, x, IntProduct(view, v.ops)))
push_native_int_product_comparison_success_arm(v, x, view) ==
    Arm(v.op \in Six, Compared(v.op, x, IntProduct(view, v.ops)))

\* x with (c * d) * k
push_native_int_scaled_product_arithmetic_success_arm(v, x, view) ==
    Arm(v.op \in Ordered,
        Arithmetic(v.op, x, Arithmetic("mul", IntProduct(view, v.ops), Constant(v))))
push_native_int_scaled_product_comparison_success_arm(v, x, view) ==
    Arm(v.op \in Six,
        Compared(v.op, x, Arithmetic("mul", IntProduct(view, v.ops), Constant(v))))

\* x * c with d * e
push_native_int_product_product_arithmetic_success_arm(v, x, view) ==
    Arm(v.op \in Five,
        Arithmetic(v.op, Arithmetic("mul", x, native_int_operand(view, v.ops[1])),
                   IntProduct(view, Tail(v.ops))))
push_native_int_product_product_comparison_success_arm(v, x, view) ==
    Arm(v.op \in Six,
        Compared(v.op, Arithmetic("mul", x, native_int_operand(view, v.ops[1])),
                 IntProduct(view, Tail(v.ops))))

\* x with (c * d) * e
\* mutant: division and remainder have no arm.
Bug_TripleArm(v, x, view) ==
    Arm(v.op \in {"add", "sub", "mul"}, Arithmetic(v.op, x, IntProduct(view, v.ops)))
push_native_int_triple_product_arithmetic_success_arm(v, x, view) ==
    Arm(v.op \in Five, Arithmetic(v.op, x, IntProduct(view, v.ops)))
push_native_int_triple_product_comparison_success_arm(v, x, view) ==
    Arm(v.op \in Six, Compared(v.op, x, IntProduct(view, v.ops)))

\* x * c with k
push_native_int_product_static_arithmetic_success_arm(v, x, view) ==
    Arm(v.op \in Ordered,
        Arithmetic(v.op, Arithmetic("mul", x, native_int_operand(view, v.ops[1])), Constant(v)))
push_native_int_product_static_comparison_success_arm(v, x, view) ==
    Arm(v.op \in Six,
        Compared(v.op, Arithmetic("mul", x, native_int_operand(view, v.ops[1])), Constant(v)))

\* x with c * k
push_native_int_scaled_success_arm(v, x, view) ==
    Arm(v.op \in Ordered,
        Arithmetic(v.op, x, Arithmetic("mul", native_int_operand(view, v.ops[1]), Constant(v))))
push_native_int_scaled_captured_comparison_success_arm(v, x, view) ==
    Arm(v.op \in Six,
        Compared(v.op, x, Arithmetic("mul", native_int_operand(view, v.ops[1]), Constant(v))))

\* x with k, x with c
push_native_int_static_success_arm(v, x) ==
    Arm(v.op \in Ordered \cup {"pow", "rpow"}, Arithmetic(v.op, x, Constant(v)))
push_native_int_static_comparison_success_arm(v, x) ==
    Arm(v.op \in Six, Compared(v.op, x, Constant(v)))
push_native_int_captured_success_arm(v, x, view) ==
    Arm(v.op \in Five \cup {"pow"}, Arithmetic(v.op, x, native_int_operand(view, v.ops[1])))
push_native_int_captured_comparison_success_arm(v, x, view) ==
    Arm(v.op \in Six, Compared(v.op, x, native_int_operand(view, v.ops[1])))

push_native_int_success_arm(v, x, view) ==
    LET six == v.op \in Six IN
    CASE v.form = "scaled_product" /\ six -> push_native_int_scaled_product_comparison_success_arm(v, x, view)
      [] v.form = "product" /\ six -> push_native_int_product_comparison_success_arm(v, x, view)
      [] v.form = "triple_product" /\ six -> push_native_int_triple_product_comparison_success_arm(v, x, view)
      [] v.form = "product_product" /\ six -> push_native_int_product_product_comparison_success_arm(v, x, view)
      [] v.form = "product_static" /\ six -> push_native_int_product_static_comparison_success_arm(v, x, view)
      [] v.form = "scaled_product" /\ ~six -> push_native_int_scaled_product_arithmetic_success_arm(v, x, view)
      [] v.form = "product_product" /\ ~six -> push_native_int_product_product_arithmetic_success_arm(v, x, view)
      [] v.form = "triple_product" /\ ~six -> push_native_int_triple_product_arithmetic_success_arm(v, x, view)
      [] v.form = "product_static" /\ ~six -> push_native_int_product_static_arithmetic_success_arm(v, x, view)
      [] v.form = "product" /\ ~six -> push_native_int_product_arithmetic_success_arm(v, x, view)
      [] v.form = "scaled" /\ six -> push_native_int_scaled_captured_comparison_success_arm(v, x, view)
      [] v.form = "scaled" /\ ~six -> push_native_int_scaled_success_arm(v, x, view)
      [] v.op = "" -> {OrFailed(x)}
      [] v.op = "neg" -> {OrFailed(Arithmetic("rsub", x, {IntVal(0)}))}
      [] v.form = "" /\ v.stat # {} /\ six -> push_native_int_static_comparison_success_arm(v, x)
      [] v.form = "" /\ v.stat # {} /\ ~six -> push_native_int_static_success_arm(v, x)
      [] v.form = "" /\ v.ops # <<>> /\ six -> push_native_int_captured_comparison_success_arm(v, x, view)
      [] v.form = "" /\ v.ops # <<>> /\ ~six -> push_native_int_captured_success_arm(v, x, view)
      [] OTHER -> {}

-----------------------------------------------------------------------------
(* Floats, the same: every capture and every result has to be finite.      *)

\* x with c * d
push_native_float_product_arithmetic_success_arm(v, x, view) ==
    Arm(v.op \in Ordered, Arithmetic(v.op, x, FloatProduct(view, v.ops)))
push_native_float_product_comparison_success_arm(v, x, view) ==
    Arm(v.op \in Six, Compared(v.op, x, FloatProduct(view, v.ops)))

\* x with (c * d) * k
push_native_float_scaled_product_arithmetic_success_arm(v, x, view) ==
    Arm(v.op \in Ordered,
        Arithmetic(v.op, x, Arithmetic("mul", FloatProduct(view, v.ops), Constant(v))))
push_native_float_scaled_product_comparison_success_arm(v, x, view) ==
    Arm(v.op \in Six,
        Compared(v.op, x, Arithmetic("mul", FloatProduct(view, v.ops), Constant(v))))

\* x * c with d * e
push_native_float_product_product_arithmetic_success_arm(v, x, view) ==
    Arm(v.op \in Five,
        Arithmetic(v.op, Arithmetic("mul", x, native_float_operand(view, v.ops[1])),
                   FloatProduct(view, Tail(v.ops))))
push_native_float_product_product_comparison_success_arm(v, x, view) ==
    Arm(v.op \in Six,
        Compared(v.op, Arithmetic("mul", x, native_float_operand(view, v.ops[1])),
                 FloatProduct(view, Tail(v.ops))))

\* x with (c * d) * e
push_native_float_triple_product_arithmetic_success_arm(v, x, view) ==
    Arm(v.op \in Five, Arithmetic(v.op, x, FloatProduct(view, v.ops)))
push_native_float_triple_product_comparison_success_arm(v, x, view) ==
    Arm(v.op \in Six, Compared(v.op, x, FloatProduct(view, v.ops)))

\* x * c with k
push_native_float_product_static_arithmetic_success_arm(v, x, view) ==
    Arm(v.op \in Ordered,
        Arithmetic(v.op, Arithmetic("mul", x, native_float_operand(view, v.ops[1])), Constant(v)))
push_native_float_product_static_comparison_success_arm(v, x, view) ==
    Arm(v.op \in Six,
        Compared(v.op, Arithmetic("mul", x, native_float_operand(view, v.ops[1])), Constant(v)))

\* x with c * k
push_native_float_scaled_success_arm(v, x, view) ==
    Arm(v.op \in Ordered,
        Arithmetic(v.op, x, Arithmetic("mul", native_float_operand(view, v.ops[1]), Constant(v))))
push_native_float_scaled_captured_comparison_success_arm(v, x, view) ==
    Arm(v.op \in Six,
        Compared(v.op, x, Arithmetic("mul", native_float_operand(view, v.ops[1]), Constant(v))))

\* x with k, x with c
push_native_float_static_success_arm(v, x) ==
    Arm(v.op \in Ordered \cup {"pow", "rpow"}, Arithmetic(v.op, x, Constant(v)))
push_native_float_static_comparison_success_arm(v, x) ==
    Arm(v.op \in Six, Compared(v.op, x, Constant(v)))
push_native_float_captured_success_arm(v, x, view) ==
    Arm(v.op \in Five \cup {"pow"}, Arithmetic(v.op, x, native_float_operand(view, v.ops[1])))
push_native_float_captured_comparison_success_arm(v, x, view) ==
    Arm(v.op \in Six, Compared(v.op, x, native_float_operand(view, v.ops[1])))

push_native_float_success_arm(v, x, view) ==
    LET six == v.op \in Six IN
    CASE v.form = "scaled_product" /\ six -> push_native_float_scaled_product_comparison_success_arm(v, x, view)
      [] v.form = "product" /\ six -> push_native_float_product_comparison_success_arm(v, x, view)
      [] v.form = "triple_product" /\ six -> push_native_float_triple_product_comparison_success_arm(v, x, view)
      [] v.form = "product_product" /\ six -> push_native_float_product_product_comparison_success_arm(v, x, view)
      [] v.form = "product_static" /\ six -> push_native_float_product_static_comparison_success_arm(v, x, view)
      [] v.form = "scaled_product" /\ ~six -> push_native_float_scaled_product_arithmetic_success_arm(v, x, view)
      [] v.form = "product_product" /\ ~six -> push_native_float_product_product_arithmetic_success_arm(v, x, view)
      [] v.form = "triple_product" /\ ~six -> push_native_float_triple_product_arithmetic_success_arm(v, x, view)
      [] v.form = "product_static" /\ ~six -> push_native_float_product_static_arithmetic_success_arm(v, x, view)
      [] v.form = "product" /\ ~six -> push_native_float_product_arithmetic_success_arm(v, x, view)
      [] v.form = "scaled" /\ six -> push_native_float_scaled_captured_comparison_success_arm(v, x, view)
      [] v.form = "scaled" /\ ~six -> push_native_float_scaled_success_arm(v, x, view)
      [] v.op = "" -> {OrFailed(x)}
      [] v.op = "neg" -> {OrFailed(Arithmetic("rsub", x, {FloatVal(0, 1)}))}
      [] v.form = "" /\ v.stat # {} /\ six -> push_native_float_static_comparison_success_arm(v, x)
      [] v.form = "" /\ v.stat # {} /\ ~six -> push_native_float_static_success_arm(v, x)
      [] v.form = "" /\ v.ops # <<>> /\ six -> push_native_float_captured_comparison_success_arm(v, x, view)
      [] v.form = "" /\ v.ops # <<>> /\ ~six -> push_native_float_captured_success_arm(v, x, view)
      [] OTHER -> {}

-----------------------------------------------------------------------------
(* Texts and truth values.                                                 *)

\* What a text is compared or joined with.
StringOperand(v, view) ==
    IF v.ops = <<>> THEN CHOOSE w \in v.stat : TRUE ELSE TextOf(view, v.ops[1])

push_native_string_comparison_json_value(v, view) ==
    LET same == TextOf(view, v.src) = StringOperand(v, view)
    IN  {BoolVal(same = (v.op = "eq"))}
push_native_string_concat_json_value(v, view) ==
    {StrVal(TextOf(view, v.src) \o StringOperand(v, view))}
push_native_string_prefix_concat_json_value(v, view) ==
    {StrVal(k \o TextOf(view, v.src)) : k \in v.stat}
push_native_string_affix_concat_json_value(v, view) ==
    {StrVal(k[1] \o TextOf(view, v.src) \o k[2]) : k \in v.stat}
push_native_string_join_concat_json_value(v, view) ==
    {StrVal(TextOf(view, v.src) \o k \o TextOf(view, v.ops[1])) : k \in v.stat}

push_native_string_operation_json_value(v, view) ==
    CASE v.op \in {"eq", "ne"}    -> push_native_string_comparison_json_value(v, view)
      [] v.op = "concat"          -> push_native_string_concat_json_value(v, view)
      [] v.op = "concat_prefix"   -> push_native_string_prefix_concat_json_value(v, view)
      [] v.op = "concat_affix"    -> push_native_string_affix_concat_json_value(v, view)
      [] v.op = "concat_join"     -> push_native_string_join_concat_json_value(v, view)
      [] OTHER                    -> {}

native_bool_binary_result(op, left, right) ==
    CASE op = "eq"      -> left = right
      [] op = "ne"      -> left # right
      [] op = "and"     -> left /\ right
      [] op = "or"      -> left \/ right
      [] op = "not_and" -> ~left /\ right
      [] op = "not_or"  -> ~left \/ right
      [] op = "and_not" -> left /\ ~right
      [] op = "or_not"  -> left \/ ~right

BoolBinary(op, left, right) ==
    {BoolVal(native_bool_binary_result(op, a.b, b.b)) : a \in left, b \in right}

native_bool_json_outputs(v, x) ==
    CASE v.op = "" -> {OrFailed(x)}
      [] v.op = "not" -> {OrFailed({BoolVal(~a.b) : a \in x})}
      [] v.op \in BoolVerbs /\ v.stat # {} -> {OrFailed(BoolBinary(v.op, x, v.stat))}
      [] OTHER -> {}

\* Both truth values are read before they are joined.
push_native_bool_captured_operand_json_value(v, x, view) ==
    Arm(v.op \in BoolVerbs /\ v.ops # <<>>,
        BoolBinary(v.op, x, native_bool_operand(view, v.ops[1])))

push_native_captured_json_value(v, view) ==
    CASE v.kind = "str" ->
           IF has_operation(v) THEN push_native_string_operation_json_value(v, view)
           ELSE {StrVal(TextOf(view, v.src))}
      [] v.kind = "int" -> push_native_int_success_arm(v, native_int_operand(view, v.src), view)
      [] v.kind = "float" -> push_native_float_success_arm(v, native_float_operand(view, v.src), view)
      [] v.kind = "bool" ->
           LET x == native_bool_operand(view, v.src)
           IN  First(<<native_bool_json_outputs(v, x),
                       push_native_bool_captured_operand_json_value(v, x, view)>>)

-----------------------------------------------------------------------------
(* Conditions.  A guard whose captures cannot be read or whose products do *)
(* not fit is false.                                                       *)

Holds(outcome) == outcome = {BoolVal(TRUE)}

push_native_float_response_condition(c, view) ==
    LET left == CASE c.form \in {"product_static", "product_product"} ->
                       FloatProduct(view, <<c.src, c.ops[1]>>)
                  [] OTHER -> native_float_operand(view, c.src)
        right == CASE c.form = "product_product" -> FloatProduct(view, Tail(c.ops))
                   [] c.form = "product_static" \/ c.ops = <<>> -> Constant(c)
                   [] c.form \in {"scaled", "scaled_product"} ->
                        Arithmetic("mul", FloatProduct(view, c.ops), Constant(c))
                   [] OTHER -> FloatProduct(view, c.ops)
    IN  Holds(Compared(c.op, left, right))

push_native_int_response_condition(c, view) ==
    LET left == CASE c.form \in {"product_static", "product_product"} ->
                       IntProduct(view, <<c.src, c.ops[1]>>)
                  [] OTHER -> native_int_operand(view, c.src)
        right == CASE c.form = "product_product" -> IntProduct(view, Tail(c.ops))
                   [] c.form = "product_static" \/ c.ops = <<>> -> Constant(c)
                   [] c.form \in {"scaled", "scaled_product"} ->
                        Arithmetic("mul", IntProduct(view, c.ops), Constant(c))
                   [] OTHER -> IntProduct(view, c.ops)
    IN  Holds(Compared(c.op, left, right))

push_native_bool_response_condition(c, view) ==
    Holds(BoolBinary(c.op, native_bool_operand(view, c.src),
                     IF c.ops = <<>> THEN c.stat ELSE native_bool_operand(view, c.ops[1])))

\* A missing text differs from every text.
push_native_string_response_condition(c, view) ==
    LET operand == IF c.ops = <<>> THEN c.stat ELSE Looked(view, c.ops[1])
    IN  (Looked(view, c.src) = operand) = (c.op = "eq")

push_native_response_condition(c, view) ==
    CASE c.kind = "float" -> push_native_float_response_condition(c, view)
      [] c.kind = "int"   -> push_native_int_response_condition(c, view)
      [] c.kind = "bool"  -> push_native_bool_response_condition(c, view)
      [] OTHER            -> push_native_string_response_condition(c, view)

-----------------------------------------------------------------------------
(* Responses and routes.                                                   *)

\* Where no code was written there is no answer.
NoCode == Answer(0, [j |-> "no code"])

push_native_field_json_value(f, view) ==
    CASE f.a = "static"  -> {f.v}
      [] f.a = "body"    -> {[k |-> "whole", of |-> view.body]}
      [] OTHER           -> push_native_captured_json_value(f.v, view)

\* values are the options of the fields.
BodyReturn(r, values) ==
    CASE r.kind = "empty" -> Answer(r.status, NoBody)
      [] \E i \in DOMAIN values : values[i] = {} -> NoCode
      [] \E i \in DOMAIN values : values[i] = {Failed} -> ServerError
      [] r.object -> Answer(r.status, [j |-> "object",
                                       of |-> [i \in DOMAIN values |-> value_to_json(The(values[i]))]])
      [] OTHER -> Answer(r.status, value_to_json(The(values[1])))

push_native_response_body_return(r, view) ==
    BodyReturn(r, [i \in DOMAIN r.fields |-> push_native_field_json_value(r.fields[i], view)])

Sendable(status) == status \in 100 .. 999

\* The code behind the last response: the body is not lowered, or, where every
\* route was, the end of the thread.
Unlowered(artifact) ==
    IF \A i \in DOMAIN artifact : \/ Len(artifact[i].responses) > 1
                                  \/ Sendable(artifact[i].responses[1].status)
    THEN Answer(0, [j |-> "panic"]) ELSE Answer(501, [j |-> "message"])

\* A response whose status cannot be sent is skipped.
Sent(r, view) ==
    SelectSeq(r.responses, LAMBDA a : Sendable(a.status)
                             /\ \A c \in a.cond : push_native_response_condition(c, view))

FirstSent(artifact, sent, view) ==
    IF sent = <<>> THEN Unlowered(artifact)
    ELSE push_native_response_body_return(Head(sent), view)

orv_native_handle_route(artifact, r, view) == FirstSent(artifact, Sent(r, view), view)

\* The body of a status that has none is not sent.
orv_native_http_response(answer) ==
    IF status_disallows_body(answer.status) THEN [answer EXCEPT !.body = NoBody] ELSE answer

\* The first of the captures; there is no normalisation of the path.
FirstCapture(captures) ==
    LET texts == SelectSeq(captures, LAMBDA c : c.sort = "text")
    IN  IF texts = <<>> THEN Missing ELSE Head(texts)

orv_native_route_path_params(pattern, path) ==
    IF pattern = AnyPath THEN {Missing}
    ELSE LET n == Len(pattern)
             rest == pattern[n].seg = "rest"
             fixed == IF rest THEN n - 1 ELSE n
             caught == [i \in 1 .. fixed |-> IF i \in DOMAIN path
                           THEN match_route_segment(pattern[i], path[i]) ELSE {}]
         IN  IF \/ IF rest THEN Len(path) < n ELSE Len(path) # n
                \/ \E i \in 1 .. fixed : caught[i] = {}
             THEN {}
             ELSE {FirstCapture([i \in 1 .. fixed |-> The(caught[i])]
                       \o IF rest THEN <<Text(Joined(SubSeq(path, n, Len(path))))>> ELSE <<>>)}

orv_native_match_route(artifact, req) ==
    {i \in DOMAIN artifact :
        /\ artifact[i].method = req.method
        /\ orv_native_route_path_params(artifact[i].pattern, req.path) # {}}

orv_native_dispatch_with_request(artifact, req) ==
    LET hits == orv_native_match_route(artifact, req)
    IN  IF hits = {} THEN NotFound
        ELSE LET r == artifact[CHOOSE i \in hits : \A j \in hits : i <= j]
                 param == The(orv_native_route_path_params(r.pattern, req.path))
             IN  orv_native_http_response(orv_native_handle_route(artifact, r, View(param, req)))

-----------------------------------------------------------------------------
(* The build: what the compiler makes of a program, and what rustc makes   *)
(* of the generated code.  A negative constant in front of a method is the *)
(* negation of its result, and an integer constant is no float.            *)

native_server_route_param_names(pattern) ==
    \E i \in DOMAIN pattern : pattern[i].seg # "lit"

RouteArtifact(r) ==
    [method |-> r.method, pattern |-> r.pattern,
     params |-> native_server_route_param_names(r.pattern),
     responses |-> route_response_artifacts(r.block)]

RefusedByRustc(v) ==
    \E k \in v.stat :
        \/ /\ v.kind = "int" /\ k.n < 0
           /\ \/ v.form = "" /\ v.op \in {"rsub", "rdiv", "rrem", "rpow"}
              \/ v.form = "product_static" /\ v.op \in {"rsub", "rdiv", "rrem"}
        \/ v.kind = "float" /\ k.k = "int" /\ v.op # "rpow"

Refused(artifact) ==
    \E i \in DOMAIN artifact : \E j \in DOMAIN artifact[i].responses :
        LET r == artifact[i].responses[j] IN
        \/ \E c \in r.cond : RefusedByRustc(c)
        \/ \E f \in DOMAIN r.fields : r.fields[f].a = "capture" /\ RefusedByRustc(r.fields[f].v)

-----------------------------------------------------------------------------

VARIABLES
    program,    \* the routes of the source
    artifact,   \* what was made of them
    server,     \* "none", "bridge" to the reference server, "refused" or "direct"
    request,    \* the request that is being answered, or NoRequest
    native,     \* what the native server answers it
    reference   \* what the reference server answers it

vars == <<program, artifact, server, request, native, reference>>

NoRequest == [method |-> "none"]
NoAnswer == Answer(0, NoBody)

Init == /\ program = <<>> /\ artifact = <<>> /\ server = "none"
        /\ request = NoRequest /\ native = NoAnswer /\ reference = NoAnswer

Compile(p) ==
    /\ server = "none"
    /\ program' = p
    /\ artifact' = [i \in DOMAIN p |-> RouteArtifact(p[i])]
    /\ server' = CASE ~native_server_direct_http_capable(artifact') -> "bridge"
                   [] Refused(artifact') -> "refused"
                   [] OTHER -> "direct"
    /\ UNCHANGED <<request, native, reference>>

\* One request of one connection.
Ask(q) ==
    /\ server = "direct" /\ request = NoRequest
    /\ request' = q
    /\ native' = orv_native_dispatch_with_request(artifact, q)
    /\ reference' = ReferenceAnswer(program, q)
    /\ UNCHANGED <<program, artifact, server>>

Close ==
    /\ request # NoRequest
    /\ request' = NoRequest /\ native' = NoAnswer /\ reference' = NoAnswer
    /\ UNCHANGED <<program, artifact, server>>

Next == \/ \E p \in Programs : Compile(p)
        \/ \E q \in Requests : Ask(q)
        \/ Close

Spec == Init /\ [][Next]_vars

-----------------------------------------------------------------------------
(* Properties.                                                             *)

RECURSIVE Parts(_)
\* An expression and the expressions it is made of.
Parts(e) ==
    {e} \cup CASE e.t \in {"cast", "un"} -> Parts(e.e)
               [] e.t = "bin"  -> Parts(e.l) \cup Parts(e.r)
               [] e.t = "text" -> UNION {Parts(e.parts[i]) : i \in DOMAIN e.parts}
               [] OTHER        -> {}

RECURSIVE ExprsOf(_)
\* The conditions and the values of a block.
ExprsOf(block) ==
    UNION {CASE block[i].s = "respond" ->
                  {block[i].payload.es[j] : j \in DOMAIN block[i].payload.es}
             [] block[i].s = "if" ->
                  {block[i].cond} \cup ExprsOf(block[i].then) \cup ExprsOf(block[i].else)
             [] OTHER -> {} : i \in DOMAIN block}

\* The request spells a capture like the value it is cast to.
Canonical(raw, to) ==
    CASE to = "bool"  -> raw.sort \in {"truth", "text"} /\ AsBool(raw.w) # {}
      [] to = "int"   -> raw.sort \in {"text", "number"} /\ AsInt(trim(raw.w)) # {}
      [] to = "float" -> raw.sort \in {"text", "number"} /\ AsFloat(trim(raw.w)) # {}

RECURSIVE Readable(_, _)
Readable(e, view) ==
    CASE e.t = "cast" /\ e.e.t = "get" -> Canonical(view[e.e.src], e.to)
      [] e.t = "get"  -> view[e.src].sort = "text"
      [] e.t \in {"un", "cast"} -> Readable(e.e, view)
      [] e.t = "bin"  -> Readable(e.l, view) /\ Readable(e.r, view)
      [] e.t = "text" -> \A i \in DOMAIN e.parts : Readable(e.parts[i], view)
      [] OTHER        -> TRUE

RECURSIVE ProductOf(_)
ProductOf(ns) == IF ns = {} THEN 1
                 ELSE LET x == CHOOSE y \in ns : TRUE IN x[2] * ProductOf(ns \ {x})

Arithmetics == Five \cup {"pow"}

\* No result of the expression overflows, in whatever order its products are
\* multiplied, nothing is divided by zero, and the operator exists.
Fits(e, view) ==
    \A p \in Parts(e) :
        /\ p.t = "un" /\ p.op = "neg" =>
             LET v == Eval(p.e, view) IN v.k = "int" => InRange(-v.n)
        /\ p.t = "bin" /\ p.op \in Arithmetics =>
             LET a == Eval(p.l, view)
                 b == Eval(p.r, view)
             IN  CASE a.k = "int" /\ b.k = "int" -> Checked(p.op, a.n, b.n) # {}
                   [] a.k = "float" /\ b.k = "float" ->
                        /\ p.op # "rem"
                        /\ is_finite(FloatBinary(p.op, a, b))
                   [] OTHER -> a.k = "str" /\ b.k = "str"
        /\ IsProduct(p) =>
             LET fs == Factors(p)
                 vs == [i \in DOMAIN fs |-> Eval(fs[i], view)]
             IN  (\A i \in DOMAIN vs : vs[i].k = "int") =>
                     \A I \in SUBSET DOMAIN vs : InRange(ProductOf({<<i, vs[i].n>> : i \in I}))

\* The handler does nothing but respond, along a flow the compiler knows (which
\* then guards a response) and with statuses that can be sent.
Shaped(block, responses) ==
    /\ \A i \in DOMAIN responses : Sendable(responses[i].status)
    /\ (\E i \in DOMAIN block : block[i].s = "if") => \E i \in DOMAIN responses : responses[i].cond # {}
    /\ \A i \in DOMAIN block : block[i].s # "effect"

\* The handler is one response that casts every capture to a number.
Numeric(block) ==
    /\ Len(block) = 1 /\ block[1].s = "respond"
    /\ \A e \in ExprsOf(block) : \A p \in Parts(e) :
          /\ p.t \notin {"text", "seg"}
          /\ p.t = "cast" => p.to # "bool"
          /\ p.t = "bin" => p.op \notin {"and", "or", "rem"}
          /\ p.t = "get" => \E q \in Parts(e) : q.t = "cast" /\ q.e = p

\* The reference server takes the parameter and the trailing slashes of the
\* path as the native one does.
SamePath(req) == normalize_path(req.path) = req.path

AnswersAlike(block, responses, view) ==
    /\ /\ Shaped(block, responses)
       /\ \A e \in ExprsOf(block) : Readable(e, view) /\ Fits(e, view)
       => native = reference
    /\ Numeric(block) /\ reference = ServerError => native = ServerError

\* What a native server answers is what the reference server answers the same
\* request: nothing found, the same response with the same values, and, where a
\* capture is no number, an error of the server.  Covers every shape of operands
\* the compiler recognises, turned around or not (server_artifacts.rs 1200-2600),
\* and the code written for it (native.rs 2843-5872).
NativeAnswersLikeReference ==
    server = "direct" /\ request # NoRequest /\ SamePath(request) =>
        LET hits == {i \in DOMAIN program :
                        /\ program[i].method = request.method
                        /\ match_route(program[i].pattern, request.path) # {}}
            first == CHOOSE i \in hits : \A j \in hits : i <= j
        IN  IF hits = {} THEN native = NotFound
            ELSE AnswersAlike(program[first].block, artifact[first].responses,
                              View(The(match_route(program[first].pattern, request.path)), request))

\* Whatever is accepted for a server of its own has code for each of its
\* operations (is_direct, native.rs 543-1386, against the arms that are written,
\* whose refusal handle_route drops, native.rs 1873-2140).
DirectHandlersGenerated ==
    server = "direct" /\ request # NoRequest => native # NoCode
=============================================================================
