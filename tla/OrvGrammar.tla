----------------------------- MODULE OrvGrammar -----------------------------
(***************************************************************************)
(* The recursive-descent parser (orv-syntax/src/parser.rs) as data: each   *)
(* parse function is a sequence of items, which OrvParser carries out one  *)
(* by one.  What the functions build is left out, but for the kind of the  *)
(* expression, where the code asks for it.  Tokens are classes of tokens:  *)
(* "id" stands for the identifiers no rule asks for by name, "Id" for the  *)
(* capitalised ones, "@tag" for the tags of HTML.                          *)
(***************************************************************************)
EXTENDS Naturals, Sequences, FiniteSets

(* Classes of tokens.                                                      *)

Names    == {"id", "Id", "test", "assert", "spawn", "token", "where", "_",
             "exempt", "emit", "stream"}
Keywords == {"let", "mut", "const", "function", "async", "await", "return", "if",
             "else", "when", "for", "in", "while", "break", "try", "catch", "throw",
             "struct", "enum", "type", "define", "pub", "import", "void", "as"}
Literals == {"int", "str", "true", "regex"}
Ats      == {"@x", "@X", "@tag", "@body", "@form", "@param", "@route", "@respond",
             "@server", "@redirect", "@serve", "@csrf", "@job", "@fs", "@db", "@fetch",
             "@ws", "@on", "@stream", "@content", "@cache", "@hint", "@where",
             "@order", "@limit", "@field", "@match", "@rank", "@near"}
Words    == Names \cup Keywords

\* The closing bracket of each opening one.
Brackets == [b \in {"(", "[", "{"} |->
               CASE b = "(" -> ")" [] b = "[" -> "]" [] b = "{" -> "}"]

AssignOps == {"=", "+="}

\* [<<left, right>>] for the binary operators, one of each level.
BindingPower ==
  [t \in {"??", "||", "&&", "|", "^", "&", "==", "<", ">", "<<", "+", "-", "*", "/", "%", "**"} |->
     CASE t = "??" -> <<1, 1>>   [] t = "||" -> <<2, 3>>  [] t = "&&" -> <<4, 5>>
       [] t = "|"  -> <<6, 7>>   [] t = "^"  -> <<8, 9>>  [] t = "&"  -> <<10, 11>>
       [] t = "==" -> <<12, 13>> [] t \in {"<", ">"} -> <<14, 15>>
       [] t = "<<" -> <<16, 17>> [] t \in {"+", "-"} -> <<18, 19>>
       [] t \in {"*", "/", "%"} -> <<20, 21>> [] t = "**" -> <<23, 22>>]

ExprStart == (Literals \cup Names \cup Ats
              \cup {"void", "if", "when", "$", "(", "{", "!", "-"})

DomainArgStart == (Literals \cup Names \cup Ats
                   \cup {"void", "await", "(", "{", "!", "-"})

MultilineArgStart == (DomainArgStart \ Ats) \cup {"if", "when"}

IoArgStart == DomainArgStart \cup {".", "/"}

Multiline   == {"@X", "@tag"}            \* allows_multiline_domain_args
HtmlBoolean == {"@tag"}                  \* allows_html_boolean_shorthand
ZeroArg     == {"@body", "@param"}       \* is_zero_arg_state_domain
Binding     == {"@body", "@form"}        \* is_request_binding_domain
References  == {"@cache"}                \* is_reference_parenless_callee

-----------------------------------------------------------------------------
(* Items.                                                                  *)

Take      == [do |-> "take"]             \* advance over a token looked at
Skip      == [do |-> "skip"]             \* advance over whatever comes
Want(S)   == [do |-> "want", on |-> S]   \* expect
Error     == [do |-> "error"]
Fail      == [do |-> "fail"]             \* return None
Break     == [do |-> "break"]
Round     == [do |-> "round"]            \* continue
Mark      == [do |-> "mark"]             \* args is not empty any more
Named     == [do |-> "named"]            \* advance over the @ of a domain
Yield(k)  == [do |-> "yield", kind |-> k]
Binary    == [do |-> "binary"]           \* a binary operator that binds, or Break
Loop(b)   == [do |-> "loop", body |-> b]
Call(r)   == [do |-> "call", rule |-> r, bp |-> 0]
At(bp)    == [do |-> "call", rule |-> "expr", bp |-> bp]
Try(r)    == [do |-> "try", rule |-> r]  \* the result of r, or "none"

\* A block of code that gives its tokens back when it fails.
Attempt(b, else) == [do |-> "attempt", body |-> b, else |-> else]

\* Whether the k-th token from here is in S.
See(k, S, a, b) == [do |-> "see", at |-> k, on |-> S, then |-> a, else |-> b]
If(S, a, b)     == See(1, S, a, b)
Switch(arms, b) == [do |-> "switch", arms |-> arms, else |-> b]

IfGlued(a, b)   == [do |-> "gap", on |-> {"glued"}, then |-> a, else |-> b]
IfLParenGlued(a, b) == If({"("}, <<IfGlued(a, b)>>, b)
IfNewline(a, b) == [do |-> "gap", on |-> {"newline"}, then |-> a, else |-> b]
IfBp(n, a, b)   == [do |-> "bp", max |-> n, then |-> a, else |-> b]
IfKind(S, a, b) == [do |-> "kind", on |-> S, then |-> a, else |-> b]
SwitchName(arms, b) == [do |-> "names", arms |-> arms, else |-> b]
IfName(S, a, b) == SwitchName(<<[on |-> S, go |-> a]>>, b)
IfMoved(a, b)   == [do |-> "moved", then |-> a, else |-> b]
IfMarked(a, b)  == [do |-> "marked", then |-> a, else |-> b]
IfLambda(a, b)  == [do |-> "lambda", then |-> a, else |-> b]
Either(a, b)    == [do |-> "either", then |-> a, else |-> b]

Eat(S)          == If(S, <<Take>>, <<>>)
IfEat(S, a)     == If(S, <<Take>> \o a, <<>>)
While(S, b)     == Loop(<<If(S, b, <<Break>>)>>)
Until(S, b)     == Loop(<<If(S \cup {"eof"}, <<Break>>, b)>>)
CommaOrBreak    == If({","}, <<Take>>, <<Break>>)
Comma           == Eat({","})
Ident           == Want(Names)
PropKey         == Want(Words)
Expr            == At(0)

\* a list in brackets that are open already.
List(close, b)  == <<Until({close}, b), Want({close})>>

IfPropArg(a, b) == If(Words, <<See(2, {"="}, a, b)>>, b)
PropArg(value)  == <<PropKey, Want({"="})>> \o value

\* What follows an opening brace: an object, or not.
IfObject(a, b) ==
  See(2, {"}", "..."}, a, <<See(2, Words, <<See(3, {":", ",", "}"}, a, b)>>, b)>>)

BoolTerminators == {"}", ")", "eof"} \cup Keywords \cup Ats \cup Names \cup (Literals \ {"regex"})

IfBoolShorthand(a, b) == If(Names, <<See(2, BoolTerminators, a, b)>>, b)

-----------------------------------------------------------------------------
(* Programs, statements and declarations.                                  *)

\* A statement that fails before its first token is stepped over.
Statements(close, after) ==
  Until(close, <<Try("stmt"), IfKind({"none"}, <<IfMoved(<<>>, <<Skip>>)>>, <<>>)>> \o after)

ParseProgram == <<Statements({}, <<>>)>>

ParseBlock == <<Want({"{"}), Statements({"}"}, <<While({";"}, <<Take>>)>>), Want({"}"}),
                Yield("block")>>

ParseReturn == <<Take, If(ExprStart, <<Expr>>, <<>>)>>

ParseSpawn == <<Take, Call("block")>>

ParseAssert == <<Take, Expr>>

ParseStmt ==
  <<Switch(<<
      [on |-> {"let"},      go |-> <<Call("let")>>],
      [on |-> {"const"},    go |-> <<Call("const")>>],
      [on |-> {"function"}, go |-> <<Call("function")>>],
      [on |-> {"async"},    go |-> <<Take, If({"function"}, <<Call("function")>>, <<Error, Fail>>)>>],
      [on |-> {"define"},   go |-> <<Call("define")>>],
      [on |-> {"pub"},      go |->
        <<Take, IfEat({"async"}, <<If({"function"}, <<>>, <<Error, Fail>>)>>),
          Switch(<<[on |-> {"function"}, go |-> <<Call("function")>>],
                   [on |-> {"define"},   go |-> <<Call("define")>>],
                   [on |-> {"struct"},   go |-> <<Call("struct")>>],
                   [on |-> {"enum"},     go |-> <<Call("enum")>>],
                   [on |-> {"const"},    go |-> <<Call("const")>>]>>, <<Error, Fail>>)>>],
      [on |-> {"struct"},   go |-> <<Call("struct")>>],
      [on |-> {"enum"},     go |-> <<Call("enum")>>],
      [on |-> {"type"},     go |-> <<Call("type_alias")>>],
      [on |-> {"return"},   go |-> ParseReturn],
      [on |-> {"import"},   go |-> <<Call("import")>>],
      [on |-> {"test"},     go |-> <<Call("test")>>],
      [on |-> {"assert"},   go |-> ParseAssert],
      [on |-> {"spawn"},    go |-> ParseSpawn]>>,
    <<Expr, If(AssignOps, <<IfKind({"ident", "field", "callee", "index"}, <<Take, Expr>>,
                                   <<Take, Expr, Error>>)>>, <<>>)>>)>>

ParseLet ==
  <<Take, Eat({"mut"}),
    If({"("}, <<Take, Until({")"}, <<Ident, CommaOrBreak>>), Want({")"})>>, <<Ident>>),
    If({":"}, <<Take, Call("type"), IfEat({"="}, <<Expr>>)>>, <<Want({"="}), Expr>>)>>

ParseConst == <<Take, Ident, IfEat({":"}, <<Call("type")>>), Want({"="}), Expr>>

Param == <<PropKey, IfEat({":"}, <<Call("type")>>)>>

\* A function without parameters has parentheses, a definition need not.
Function(define) ==
  <<Take, Ident, Call("skip_generics"),
    If({"("}, <<Take, Until({")"}, Param \o <<If({","}, <<Take>>, <<If(Names, <<>>, <<Break>>)>>)>>),
                Want({")"})>>,
              IF define THEN <<If({"{"}, <<>>, <<Want({"("})>>)>> ELSE <<Want({"("})>>),
    IfEat({":"}, <<Call("type")>>),
    If({"->"}, <<Take>>, <<If({"{"}, <<>>, <<Error, Fail>>)>>),
    If({"{"}, <<Call(IF define THEN "define_block" ELSE "function_block")>>, <<Expr>>)>>

ParseFunctionBlock == <<Want({"{"}), Statements({"}"}, <<>>), Want({"}"})>>

ParseDefineBlock ==
  <<Want({"{"}),
    While({"token"}, <<Try("token_slot"), IfKind({"none"}, <<Break>>, <<>>)>>),
    Statements({"}"}, <<>>), Want({"}"})>>

Slot == <<Ident, Want({":"}), Call("type")>>

ParseTokenSlot ==
  <<Take, If({"{"}, <<Take>> \o List("}", Slot \o <<Comma>>), Slot)>>

ParseEnum ==
  <<Take, Ident, Want({"{"})>> \o List("}", <<Ident, IfEat({"="}, <<Expr>>), Comma>>)

ParseTypeAlias ==
  <<Take, Ident, If({"<"}, <<Call("generic_params")>>, <<>>), Want({"="}), Call("type")>>

\* A parameter that is no name is reported, and met again.
ParseGenericParams ==
  <<Take, Until({">"}, <<If(Names, <<Take>>, <<Error>>), Comma>>), Eat({">"})>>

ParseSkipGenerics ==
  <<IfEat({"<"}, <<Until({">"}, <<Skip, Comma>>), Eat({">"})>>)>>

\* Annotations of a field are stepped over up to the end of the line.
ParseStruct ==
  <<Take, Ident, Call("skip_generics"), Want({"{"})>>
  \o List("}", <<Ident, Want({":"}), Call("type"),
                 While(Ats, <<Take, Until({"}"}, <<IfNewline(<<Break>>, <<Skip>>)>>)>>), Comma>>)

\* The token after `test` is taken before it is looked at.
ParseTest == <<Take, If({"str"}, <<Take, Call("block")>>, <<Skip, Error, Fail>>)>>

ParseImport ==
  <<Take, Ident,
    While({"."},
      <<Take,
        Switch(<<[on |-> {"*"}, go |-> <<Take, Break>>],
                 [on |-> {"{"}, go |-> <<Take>> \o List("}", <<Ident, Comma>>) \o <<Break>>],
                 [on |-> Names, go |-> <<Take>>]>>, <<Error, Fail>>)>>)>>

-----------------------------------------------------------------------------
(* Types.                                                                  *)

ParseType ==
  <<Call("non_union_type"), While({"|"}, <<Take, Call("non_union_type"), Yield("type")>>),
    IfEat({"where"}, <<Try("where"), Yield("type")>>)>>

ParseNonUnionType ==
  <<Call("type_primary"),
    Loop(<<Switch(<<[on |-> {"?"}, go |-> <<Take, Yield("type")>>],
                    [on |-> {"["}, go |-> <<See(2, {"]"}, <<Take, Take, Yield("type")>>, <<Break>>)>>]>>,
                  <<Break>>)>>),
    Call("constraints")>>

\* A type argument that is no type is reported, and met again.
ParseTypePrimary ==
  <<Switch(<<
      [on |-> {"{"}, go |-> <<Take>> \o List("}", <<Ident, Want({":"}), Call("type"), Comma>>)
                            \o <<Yield("type")>>],
      [on |-> {"("}, go |-> <<Take>> \o List(")", <<Call("type"), Comma>>) \o <<Yield("type")>>],
      [on |-> {"str", "true"}, go |-> <<Take, Yield("type"), Call("constraints")>>],
      [on |-> Ats, go |-> <<Take, While({"."}, <<Take, Ident>>), Call("skip_generics"),
                            Yield("named"), Call("constraints")>>]>>,
    <<If({"void"}, <<Take>>, <<Ident>>),
      IfEat({"<"}, <<Until({">"}, <<Try("type"), Comma>>), Eat({">"})>>),
      Yield("named"), Call("constraints")>>)>>

\* What is no constraint is stepped over, and the end need not come.
ParseConstraints ==
  <<IfEat({"("},
      <<Until({")"}, <<Try("constraint"),
                       IfKind({"none"}, <<Skip>>, <<Yield("type")>>), Comma>>),
        If({")"}, <<Take>>, <<Skip>>)>>)>>

ConstraintValue ==
  <<Eat({"-"}), If({"int", "str", "true"} \cup Words, <<Take>>, <<Fail>>)>>

ParseConstraint ==
  <<Eat({"-"}),
    Switch(<<[on |-> {"int"}, go |-> <<Take, IfEat({".."}, <<Eat({"-"}), Eat({"int"})>>)>>],
             [on |-> {".."},  go |-> <<Take, Eat({"-"}), Eat({"int"})>>],
             [on |-> Words,   go |-> <<Take, IfEat({"="}, ConstraintValue)>>]>>, <<Fail>>),
    Yield("type")>>

-----------------------------------------------------------------------------
(* Expressions.                                                            *)

Glued(S) == Loop(<<IfGlued(<<If(S, <<Take>>, <<Break>>)>>, <<Break>>)>>)

BareAttr(other) ==
  If(Words \cup {"int"}, <<Take, Glued(Words \cup {"int", ".", "/", "-"})>>, other)

CallArg == IfPropArg(PropArg(<<Expr>>), <<Expr>>)

FinishCall == <<Take, Until({")"}, <<CallArg, CommaOrBreak>>), Want({")"}), Yield("call")>>

FinishParenless ==
  <<Loop(<<If(DomainArgStart,
              <<IfNewline(<<Break>>, <<IfPropArg(PropArg(<<Expr>>), <<At(31)>>), Comma>>)>>,
              <<Break>>)>>), Yield("call")>>

Index ==
  <<Take, If({":"}, <<Take, If({"]"}, <<>>, <<Expr>>), Want({"]"}), Yield("slice")>>,
                    <<Expr, If({":"}, <<Take, If({"]"}, <<>>, <<Expr>>), Want({"]"}), Yield("slice")>>,
                                      <<Want({"]"}), Yield("index")>>)>>)>>

Field == <<Take, Ident, IfKind({"reference"}, <<Yield("callee")>>, <<Yield("field")>>)>>

OptionalField == <<Take, Take, Ident, Yield("optional")>>

BlockOrExpr == If({"{"}, <<Call("block")>>, <<Expr>>)

ParseTernaryBranch == <<If({"{"}, <<IfObject(<<Call("object")>>, <<Call("block")>>)>>, <<At(3)>>)>>

\* The arguments of `@plugin.method a b`, or an operator.
Operator ==
  IfKind({"callee"},
    <<If(DomainArgStart,
         <<IfNewline(<<Binary>>, <<IfBp(30, <<Call("finish_parenless")>>, <<Binary>>)>>)>>,
         <<Binary>>)>>,
    <<Binary>>)

\* The minimum binding power is the bp of the rule.
ParseExprBp ==
  <<Call("prefix"),
    Loop(<<Switch(<<
      [on |-> {"("}, go |-> <<IfGlued(<<IfBp(30, <<Call("finish_call")>>, <<Operator>>)>>, <<Operator>>)>>],
      [on |-> {"["}, go |-> <<IfGlued(<<IfBp(30, <<Call("index")>>, <<Break>>)>>, <<Break>>)>>],
      [on |-> {"."}, go |-> <<IfBp(30, <<Call("field")>>, <<Break>>)>>],
      [on |-> {"?"}, go |->
         <<See(2, {"."}, <<IfBp(30, <<Call("optional_field")>>, <<Break>>)>>,
               <<IfBp(2, <<Take, Call("ternary_branch"), Want({":"}), Call("ternary_branch"),
                           Yield("other")>>, <<Break>>)>>)>>],
      [on |-> {"->"}, go |->
         <<IfBp(0, <<IfKind({"ident", "unit"}, <<Take, BlockOrExpr, Yield("other")>>, <<Break>>)>>,
                <<Break>>)>>],
      [on |-> AssignOps, go |->
         <<IfBp(0, <<IfKind({"ident", "field", "callee", "index"}, <<Take, Expr, Yield("other")>>,
                                                         <<Take, Expr, Error>>)>>, <<Break>>)>>],
      [on |-> {"as"}, go |-> <<IfBp(22, <<Take, Call("type"), Yield("other")>>, <<Break>>)>>],
      [on |-> {".."}, go |-> <<IfBp(15, <<Take, At(16), Yield("other")>>, <<Break>>)>>]>>,
      <<Operator>>)>>)>>

ParsePrefix == <<If({"!", "-"}, <<Take, Call("prefix"), Yield("unary")>>, <<Call("atom")>>)>>

Parenthesized ==
  <<Take,
    If({")"}, <<Take, Yield("unit")>>,
      <<Expr,
        Switch(<<[on |-> {","}, go |-> <<Take, Until({")"}, <<Expr, CommaOrBreak>>)>>],
                 [on |-> DomainArgStart, go |-> <<Until({")"}, <<Expr, Comma>>)>>]>>, <<>>),
        Want({")"}), Yield("other")>>)>>

\* What is interpolated into a string has a parser of its own; it reports
\* something or not.
ParseStringSegments == <<Take, Either(<<>>, <<Error>>), Yield("other")>>

ParseAtom ==
  <<Switch(<<
      [on |-> {"str"}, go |-> ParseStringSegments],
      [on |-> {"Id"}, go |-> <<Take, If({"{"}, <<Call("typed_object")>>, <<Yield("ident")>>)>>],
      [on |-> Names \cup {"type", "$"}, go |-> <<Take, Yield("ident")>>],
      [on |-> (Literals \cup {"void", "break"}), go |-> <<Take, Yield("other")>>],
      [on |-> {"("}, go |-> <<IfLambda(<<Call("lambda")>>, Parenthesized)>>],
      [on |-> {"throw"}, go |-> <<Take, Expr, Yield("other")>>],
      [on |-> {"await"}, go |-> <<Take, At(30), Yield("other")>>],
      [on |-> {"try"}, go |-> <<Call("try")>>],
      [on |-> {"["}, go |-> <<Call("array")>>],
      [on |-> {"{"}, go |-> <<IfObject(<<Call("object")>>, <<Call("block")>>)>>],
      [on |-> {"if"}, go |-> <<Call("if")>>],
      [on |-> {"when"}, go |-> <<Call("when")>>],
      [on |-> {"for"}, go |-> <<Call("for")>>],
      [on |-> {"while"}, go |-> <<Take, Expr, Call("block"), Yield("other")>>],
      [on |-> Ats, go |-> <<Call("domain")>>]>>,
    <<Error, Fail>>)>>

Spread == <<Take, Expr, Comma>>

ParseObject ==
  <<Take>> \o List("}", <<If({"..."}, Spread, <<PropKey, IfEat({":"}, <<Expr>>), Comma>>)>>)
  \o <<Yield("other")>>

\* The keys and values of a Map are checked, so that it may report something.
ParseTypedObject ==
  <<Take>> \o List("}", <<If({"..."}, Spread, <<Expr, IfEat({":"}, <<Expr>>), Either(<<>>, <<Error>>), Comma>>)>>)
  \o <<Yield("other")>>

ParseLambda ==
  <<Take, Until({")"}, Param \o <<Comma>>), Want({")"}), Want({"->"}), BlockOrExpr, Yield("other")>>

ParseTry ==
  <<Take, Call("block"),
    IfEat({"catch"}, <<Eat(Names), IfEat({":"}, <<Call("type")>>), Call("block")>>), Yield("other")>>

ParseArray ==
  <<Take,
    If({"{"}, <<IfObject(<<Until({"]"}, <<Expr, Comma>>)>>,
                         <<While({"{"}, <<Call("block"), Comma>>)>>)>>,
              <<Until({"]"}, <<Expr, Comma>>)>>),
    Want({"]"}), Yield("other")>>

BlockOrSingleLine == <<If({":"}, <<Take, Call("stmt")>>, <<Call("block")>>)>>

ParseIf ==
  <<Take, Expr>> \o BlockOrSingleLine
  \o <<IfEat({"else"}, <<If({"if"}, <<Call("if")>>, BlockOrSingleLine)>>), Yield("other")>>

ParsePattern ==
  <<Switch(<<[on |-> {"_"}, go |-> <<Take>>],
             [on |-> {"!", "in"}, go |-> <<Take, Expr>>]>>, <<Expr>>)>>

ParseWhen ==
  <<Take, Expr, Want({"{"})>>
  \o List("}", ParsePattern \o <<Want({"->"}), Expr, While({";", ","}, <<Take>>)>>)
  \o <<Yield("other")>>

ParseFor ==
  <<Take, Eat({"await"}),
    If({"("}, <<Take, Ident, Want({","}), Ident, Want({")"})>>, <<Ident>>),
    Want({"in"}), Expr, Call("block"), Yield("other")>>

-----------------------------------------------------------------------------
(* Domains.                                                                *)

\* An interpolated property in braces is an expression or, once that has
\* failed, a block.
IfBraced(a, b) ==
  If({"{"}, <<See(2, {"}", "..."}, b, <<See(2, Words, <<See(3, {":", ","}, b, a)>>, a)>>)>>, b)

BracedProp == Attempt(<<Take, Expr, If({"}"}, <<Take>>, <<Fail>>)>>, <<Call("block")>>)

\* Of the keys of a tag some take bare text.
ParsePropValue ==
  LET other == <<IfName({"@X"}, <<Expr>>, <<Either(<<BareAttr(<<Expr>>)>>, <<Expr>>)>>)>>
  IN  <<IfBraced(<<BracedProp>>, other)>>

BracedList(item) == <<Take, Until({")"}, item \o <<CommaOrBreak>>), Want({")"})>>

\* A new line ends the arguments, but before a block and what a tag may have.
Boundary ==
  IfNewline(<<If({"{"}, <<>>,
    <<IfName(Multiline, <<IfPropArg(<<>>, <<If(MultilineArgStart, <<>>, <<Break>>)>>)>>,
             <<Break>>)>>)>>, <<>>)

ParseUserDomain ==
  <<If({"("}, BracedList(<<Expr>>),
    <<Loop(<<Boundary,
        IfPropArg(PropArg(<<Call("prop_value")>>),
          <<IfBoolShorthand(<<Take>>,
              <<If(DomainArgStart \ Ats, <<Expr, IfKind({"block"}, <<Break>>, <<>>)>>,
                   <<Break>>)>>)>>)>>)>>)>>

ParseTag ==
  LET argument == <<If(DomainArgStart,
                       <<IfMarked(<<If(Ats, <<Break>>, <<>>)>>, <<>>), Expr, Mark,
                         IfKind({"block"}, <<Break>>, <<>>)>>,
                       <<Break>>)>>
  IN  <<Loop(<<Boundary,
          IfPropArg(PropArg(<<Call("prop_value")>>) \o <<Mark>>,
            <<IfName(HtmlBoolean,
                <<IfBoolShorthand(<<Either(<<Take, Mark>>, argument)>>, argument)>>,
                argument)>>)>>)>>

ParseRequestBinding == <<Take, Call("type"), IfKind({"named"}, <<>>, <<Error>>)>>

\* The path is all there is up to the block.
ParseRoute ==
  <<Switch(<<[on |-> Names \cup {"*"}, go |-> <<Take>>], [on |-> {"/"}, go |-> <<>>]>>,
           <<Error, Fail>>),
    If({"/", "*"}, <<Until({"{"}, <<Skip>>), Call("block")>>, <<Error, Fail>>)>>

ParseRespond  == <<Expr, If(DomainArgStart, <<Expr>>, <<>>)>>
ParseRedirect == <<Expr, If(DomainArgStart \ Ats, <<Expr>>, <<>>)>>
ParseCsrf     == <<If({"exempt"}, <<Expr>>, <<>>)>>

ParseServer   == <<If({"{"}, <<Call("block")>>, <<Error, Fail>>)>>

\* A name alone is no path, and given back.
ParseBarePath ==
  LET rest == Glued(Names \cup {"int", ".", "/", "-"})
  IN  <<Switch(<<
          [on |-> Names, go |->
             <<Attempt(<<Take, IfGlued(<<If({".", "/", "-"}, <<>>, <<Fail>>)>>, <<Fail>>), rest>>,
                       <<Fail>>)>>],
          [on |-> {".", "/"}, go |-> <<Take, rest>>]>>, <<Fail>>),
        Yield("path")>>

PathOr(other) == <<Try("bare_path"), IfKind({"none"}, other, <<>>)>>

ParseServe == PathOr(<<If(DomainArgStart, <<Expr>>, <<>>)>>)

ParseEventName == <<If(Words, <<Take, Glued(Words \cup {"-"}), Yield("event")>>, <<Fail>>)>>

ParseJob ==
  <<Try("event_name"), Loop(<<IfPropArg(PropArg(<<Call("prop_value")>>), <<Break>>)>>),
    If({"("}, BracedList(<<PropKey, IfEat({":"}, <<Try("type")>>)>>), <<>>),
    IfEat({"->"}, <<If({"{"}, <<>>, <<Try("type")>>), If({"{"}, <<Call("block")>>, <<>>)>>)>>

PercentProperty == <<Want({"%"}), Ident, Want({"="}), Expr>>

FinishDbCall == <<Take, Until({")"}, <<CallArg, CommaOrBreak>>), Want({")"}), Yield("call")>>

DbArgs ==
  Loop(<<If(Ats \cup {"}", "eof"}, <<Break>>, <<IfNewline(<<Break>>,
    <<Switch(<<
        [on |-> Names, go |-> <<IfMarked(<<Expr>>, <<Take, Mark>>)>>],
        [on |-> {"%"}, go |-> PercentProperty \o <<Mark>>],
        [on |-> {"{"}, go |-> <<Call("db_braced"), IfKind({"args"}, <<Mark>>, <<>>)>>],
        [on |-> DomainArgStart, go |-> <<Expr, Mark>>]>>, <<Break>>)>>)>>)>>)

\* The method is `transaction` or another.
ParseDb ==
  <<Want({"."}), Ident,
    IfLParenGlued(FinishDbCall, <<Either(<<Call("db_transaction")>>, <<DbArgs>>)>>)>>

ParseDbTransaction ==
  <<Loop(<<If({"}", "eof"}, <<Break>>,
      <<IfNewline(<<If({"{"}, <<>>, <<Break>>)>>, <<>>),
        Switch(<<[on |-> {"@hint"}, go |-> <<Call("hint")>>],
                 [on |-> Ats, go |-> <<Break>>],
                 [on |-> {"{"}, go |-> <<Call("block"), Break>>],
                 [on |-> DomainArgStart, go |-> <<Expr>>]>>, <<Break>>)>>)>>)>>

ParseHint ==
  LET value == <<BareAttr(<<At(22)>>)>>
  IN  <<Take, Loop(<<If({"{", "}", "eof"} \cup Ats, <<Break>>, <<IfNewline(<<Break>>,
                <<IfPropArg(PropArg(value), <<If(DomainArgStart, value, <<Break>>)>>)>>)>>)>>)>>

\* What is no argument is stepped over.
ParseDbBraced ==
  <<Want({"{"}), Yield("empty"),
    Until({"}"},
      <<Switch(<<
          [on |-> {"%"}, go |-> PercentProperty \o <<Yield("args")>>],
          [on |-> {"@where", "@order", "@limit", "@field", "@match", "@rank", "@near"},
           go |-> <<Call("db_clause"), Yield("args")>>],
          [on |-> DomainArgStart, go |-> <<Expr, Yield("args")>>]>>, <<Skip>>), Comma>>),
    Want({"}"})>>

DbWhere ==
  LET compared == <<If({"=", "==", "<", ">"}, <<Take, At(22)>>, <<Error, Fail>>)>>
  IN  <<Take, PropKey, If({"in"}, <<See(2, {"="}, <<Take, Take, At(22)>>, compared)>>, compared)>>

DbOrder == <<Take, PropKey, Want({"="}), If(Words, <<Take>>, <<At(1)>>)>>
DbField == <<Take, If(Words, <<Take>>, <<At(1)>>)>>
DbRank  == <<Take, If(Words, <<Take>>, <<At(1)>>)>>
DbInt   == <<Take, At(1)>>
DbMatch == <<Take, PropKey, Want({"="}), At(1)>>
DbNear  == <<Take, PropKey, Want({"="}), At(22), Loop(<<IfPropArg(PropArg(<<At(22)>>), <<Break>>)>>)>>

DbClause ==
  <<Switch(<<[on |-> {"@where"}, go |-> DbWhere], [on |-> {"@order"}, go |-> DbOrder],
             [on |-> {"@field"}, go |-> DbField], [on |-> {"@rank"}, go |-> DbRank],
             [on |-> {"@limit"}, go |-> DbInt],   [on |-> {"@match"}, go |-> DbMatch]>>, DbNear)>>

LastBlock == <<IfObject(<<Call("object")>>, <<Call("block")>>), Break>>

ParseEventBound ==
  <<Want({"."}), Ident, Try("event_name"),
    Loop(<<If(Ats \cup {"}", "eof"}, <<Break>>, <<IfNewline(<<Break>>,
      <<If({"{"}, LastBlock, <<If(DomainArgStart, <<Expr>>, <<Break>>)>>)>>)>>)>>)>>

PathUntilBlock == Until({"{"}, <<IfNewline(<<Break>>, <<Skip>>)>>)

ParseRealtime == <<If({"/"}, <<PathUntilBlock>>, <<>>), If({"{"}, <<Call("block")>>, <<>>)>>

DottedRoute == <<Want({"."}), Ident>> \o ParseRealtime

EventName == <<Try("event_name"), IfKind({"none"}, <<>>, <<Mark>>)>>

ParseEvent ==
  EventName \o <<IfName({"@stream"}, EventName, <<>>),
    Loop(<<If({"}", "eof"}, <<Break>>,
      <<IfNewline(<<If({"{"}, <<>>, <<Break>>)>>, <<>>),
        IfPropArg(PropArg(<<Expr>>) \o <<Mark>>,
          <<If({"{"}, LastBlock,
               <<If(Ats, <<IfMarked(<<Break>>, <<>>)>>, <<>>),
                 If(DomainArgStart, <<Expr, Mark>>, <<Break>>)>>)>>)>>)>>)>>

IoArgs ==
  Loop(<<If(Ats, <<Break>>,
    <<If(IoArgStart, <<IfNewline(<<Break>>, PathOr(<<Expr>>))>>, <<Break>>)>>)>>)

ParseIo ==
  <<While({"."}, <<See(2, Names, <<Take, Ident>>, <<Break>>)>>),
    If({"("}, <<IfNewline(<<IoArgs>>, BracedList(<<Expr>>))>>, <<IoArgs>>)>>

ParseFetch == <<If(Names, <<IfNewline(<<>>, <<Take>>)>>, <<>>), IoArgs>>

\* The name of the domain says which rule its arguments follow.
ParseDomainCall ==
  LET plain   == <<SwitchName(<<
                     [on |-> {"@fetch"},          go |-> ParseFetch],
                     [on |-> {"@ws"},             go |-> ParseRealtime],
                     [on |-> {"@on", "@stream"},  go |-> <<Call("event")>>],
                     [on |-> {"@X"},              go |-> <<Call("user_domain")>>],
                     [on |-> {"@content"},        go |-> <<>>]>>, <<Call("tag")>>)>>
      dotted  == <<If({"."}, <<See(2, {"stream"}, <<See(3, {"/"}, DottedRoute, plain)>>,
                                   <<See(2, {"emit"}, <<Call("event_bound")>>, plain)>>)>>, plain)>>
      zeroArg == <<IfName({"@param"}, <<>>, <<IfName({"@body"}, <<If({"{"}, dotted, <<>>)>>, dotted)>>)>>
  IN  <<Named,
        IfName({"@X"}, <<While({"."}, <<See(2, {"Id"}, <<Take, Ident>>, <<Break>>)>>)>>, <<>>),
        SwitchName(<<
          [on |-> {"@route"},    go |-> <<Call("route")>>],
          [on |-> {"@respond"},  go |-> ParseRespond],
          [on |-> {"@server"},   go |-> ParseServer],
          [on |-> Binding,       go |-> <<If({":"}, ParseRequestBinding, zeroArg)>>],
          [on |-> {"@redirect"}, go |-> ParseRedirect],
          [on |-> {"@serve"},    go |-> ParseServe],
          [on |-> {"@csrf"},     go |-> ParseCsrf],
          [on |-> {"@job"},      go |-> ParseJob],
          [on |-> ZeroArg,       go |-> <<>>],
          [on |-> {"@fs"},       go |-> <<If({"."}, ParseIo, dotted)>>],
          [on |-> {"@db"},       go |-> <<If({"."}, ParseDb, dotted)>>]>>, dotted),
        IfName(References, <<Yield("reference")>>, <<Yield("other")>>)>>

-----------------------------------------------------------------------------

Rules ==
  [program |-> ParseProgram, block |-> ParseBlock, stmt |-> ParseStmt, let |-> ParseLet,
   const |-> ParseConst, function |-> Function(FALSE), define |-> Function(TRUE),
   function_block |-> ParseFunctionBlock, define_block |-> ParseDefineBlock,
   token_slot |-> ParseTokenSlot, struct |-> ParseStruct, enum |-> ParseEnum,
   type_alias |-> ParseTypeAlias, generic_params |-> ParseGenericParams,
   skip_generics |-> ParseSkipGenerics, import |-> ParseImport, test |-> ParseTest,
   type |-> ParseType, non_union_type |-> ParseNonUnionType, type_primary |-> ParseTypePrimary,
   constraints |-> ParseConstraints, constraint |-> ParseConstraint, where |-> <<At(1)>>,
   expr |-> ParseExprBp, prefix |-> ParsePrefix, atom |-> ParseAtom,
   finish_call |-> FinishCall, finish_parenless |-> FinishParenless, index |-> Index,
   field |-> Field, optional_field |-> OptionalField, ternary_branch |-> ParseTernaryBranch,
   object |-> ParseObject, typed_object |-> ParseTypedObject, lambda |-> ParseLambda,
   try |-> ParseTry, array |-> ParseArray, if |-> ParseIf, when |-> ParseWhen,
   for |-> ParseFor, domain |-> ParseDomainCall, user_domain |-> ParseUserDomain,
   tag |-> ParseTag, prop_value |-> ParsePropValue, route |-> ParseRoute,
   bare_path |-> ParseBarePath, event_name |-> ParseEventName, event |-> ParseEvent,
   event_bound |-> ParseEventBound, hint |-> ParseHint, db_transaction |-> ParseDbTransaction,
   db_braced |-> ParseDbBraced, db_clause |-> DbClause]

==============================================================================
