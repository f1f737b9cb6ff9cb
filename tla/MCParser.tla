------------------------------ MODULE MCParser ------------------------------
(***************************************************************************)
(* Instances of OrvParser for TLC: programs that begin with what leads to  *)
(* a group of rules, and the tokens these rules ask for.                   *)
(***************************************************************************)
EXTENDS OrvParser, OrvPaths

Begins(most, beginnings, tokens) ==
  {[begins |-> b, tokens |-> tokens, most |-> most] : b \in beginnings}

TypePrograms ==
  Begins(4, {<<"let", "id", ":">>},
    {"id", "int", "(", ")", "<", ">", "{", "}", "[", "]", "|", "?", ":", "=", "where", "@x"})

DeclarationPrograms ==
  Begins(4, {<<"struct", "id">>, <<"enum", "id">>, <<"type", "id">>},
    {"id", "{", "}", "<", ">", "=", ":", "@x", "int", ","})
  \cup Begins(4, {<<"function", "id">>, <<"define", "id">>, <<"define", "id", "{", "token">>},
    {"(", ")", "id", "{", "}", ":", "->", "int", "token"})

StatementPrograms ==
  Begins(4, {<<>>},
    {"pub", "async", "function", "const", "return", "import", "test", "assert", "spawn",
     "str", ".", "{", "}", "let", "mut", "id", "="})

ExpressionPrograms ==
  Begins(3, {<<"id">>, <<"!">>, <<"(">>, <<"{">>},
    {"id", "(", ")", "[", "]", ".", "?", ":", "??", "+", "-", "..", "as", "=", "->", ",", "..."})
  \cup Begins(3, {<<"[">>, <<"Id", "{">>}, {"id", "{", "}", "]", ":", ",", "..."})

ControlPrograms ==
  Begins(3, {<<"if", "id">>, <<"when", "id", "{">>, <<"for">>, <<"while">>, <<"try", "{">>},
    {"else", "if", "in", "catch", "{", "}", "id", "->", ":", "_", "(", ")", ",", "$"})

TagPrograms ==
  Begins(3, {<<"@tag">>, <<"@X">>, <<"@x">>, <<"@cache", ".">>},
    {"id", "=", "{", "}", "str", "@tag", "(", ")", "-", "if"})

ServerPrograms ==
  Begins(3, {<<"@route">>, <<"@respond">>, <<"@redirect">>, <<"@serve">>, <<"@server">>,
          <<"@csrf">>, <<"@body">>, <<"@param">>, <<"@job">>},
    {"id", "/", "{", "}", "int", "str", ":", "(", ")", "->", "=", "exempt", "@x"})

DbPrograms ==
  Begins(3, {<<"@db", ".", "id">>},
    {"id", "{", "}", "(", ")", "@where", "@order", "@limit", "@near", "@hint", "int"})
  \cup Begins(3, {<<"@db", ".", "id", "{">>},
    {"id", "{", "}", "%", "=", "@where", "@order", "@hint", "in", "int"})

IoPrograms ==
  Begins(3, {<<"@on">>, <<"@stream">>, <<"@ws">>, <<"@fs", ".">>, <<"@fetch">>, <<"@x", ".", "emit">>,
          <<"@x", ".", "stream">>},
    {"id", "/", "{", "}", "-", "=", "(", ")", "@x", "."})

AllPrograms ==
  TypePrograms \cup DeclarationPrograms \cup StatementPrograms \cup ExpressionPrograms
  \cup ControlPrograms \cup TagPrograms \cup ServerPrograms \cup DbPrograms \cup IoPrograms
==============================================================================
