------------------------------ MODULE OrvParser ------------------------------
(***************************************************************************)
(* The recursive-descent parser (orv-syntax/src/parser.rs) at work on the  *)
(* rules of OrvGrammar: a stack of rules, loops and attempts, over tokens  *)
(* that are chosen when the parser looks at them.  A program is one of the *)
(* given beginnings and any sequence of a few tokens behind it, with any   *)
(* space in between: the parser must cope with what is being typed.        *)
(***************************************************************************)
EXTENDS OrvGrammar, FiniteSetsExt

CONSTANT Programs \* beginnings, the tokens that may follow each, and how many may

ASSUME ProgramsAssumption == \A p \in Programs : p.begins \in Seq({p.begins[i] : i \in DOMAIN p.begins})

VARIABLES alphabet, \* the tokens of the program
          left,     \* tokens that may still come
          look,     \* tokens that were looked at and not taken
          stack,    \* the rules under way
          kind,     \* the kind of the last result, "none" for a failure
          errors,   \* there is a diagnostic
          open,     \* the brackets that are open (history)
          tainted   \* a bracket was stepped over, or never closed (history)

history == <<errors, open, tainted>>
vars    == <<alphabet, left, look, stack, kind, history>>

Frame(rule, bp, code) ==
  [is |-> "rule", rule |-> rule, bp |-> bp, name |-> "", code |-> code, body |-> <<>>,
   tried |-> FALSE, moved |-> FALSE, marked |-> FALSE, trail |-> <<>>, saved |-> <<>>]

Init ==
  /\ \E p \in Programs :
       /\ alphabet = p.tokens
       /\ left = p.most
       /\ look = [i \in DOMAIN p.begins |-> [token |-> p.begins[i], gap |-> "any"]]
  /\ stack = <<Frame("program", 0, Rules.program)>>
  /\ kind = "other"
  /\ errors = FALSE /\ open = <<>> /\ tainted = FALSE

Top  == stack[Len(stack)]
Item == Head(Top.code)
Tok(k) == IF k <= Len(look) THEN look[k].token ELSE "eof"

AtEnd == look # <<>> /\ look[Len(look)].token = "eof"

-----------------------------------------------------------------------------
(* Tokens.                                                                 *)

\* looks_like_lambda: the parenthesis that closes the first one is followed by
\* an arrow, with no brace in between.
ClosedAt ==
  LET depth(i) == Cardinality({k \in 1 .. i : Tok(k) = "("}) - Cardinality({k \in 1 .. i : Tok(k) = ")"})
      ends == {i \in 2 .. Len(look) : Tok(i) \in {"eof", "{", "}"} \/ depth(i) = 0}
  IN  IF ends = {} THEN 0 ELSE Min(ends)

LooksLikeLambda ==
  /\ Tok(2) \in Names \cup {")"}
  /\ ClosedAt > 0 /\ Tok(ClosedAt) = ")" /\ Tok(ClosedAt + 1) = "->"

\* How many tokens the next item looks at.
Ahead ==
  CASE Item.do = "see" -> Item.at
    [] Item.do \in {"want", "switch", "binary", "gap", "take", "skip", "named"} -> 1
    [] Item.do = "lambda" ->
         IF Len(look) < 2 THEN 2
         ELSE IF Tok(2) \notin Names \cup {")"} THEN 1
         ELSE IF ClosedAt = 0 THEN Len(look) + 1 ELSE ClosedAt + 1
    [] OTHER -> 0

Running == stack # <<>> /\ Top.code # <<>>
Ready   == Running /\ (AtEnd \/ Len(look) >= Ahead)

NextToken ==
  /\ Running /\ ~Ready
  /\ \E t \in alphabet \cup {"eof"} :
       /\ t # "eof" => left > 0
       /\ look' = Append(look, [token |-> t, gap |-> "any"])
       /\ left' = IF t = "eof" THEN 0 ELSE left - 1
  /\ UNCHANGED <<alphabet, stack, kind, history>>

NextGap ==
  /\ Ready /\ Item.do = "gap" /\ look[1].gap = "any"
  /\ \E g \in {"glued", "space", "newline"} : look' = [look EXCEPT ![1].gap = g]
  /\ UNCHANGED <<alphabet, left, stack, kind, history>>

-----------------------------------------------------------------------------
(* Moving on.                                                              *)

Attempts == {i \in DOMAIN stack : stack[i].is = "attempt"}
Innermost == Max({0} \cup Attempts)

Goto(code) == stack' = [stack EXCEPT ![Len(stack)].code = code]

\* The history of brackets, until something else is known of the program.
Opened(t) ==
  IF errors \/ tainted THEN <<>>
  ELSE IF t \in DOMAIN Brackets THEN Append(open, t)
  ELSE IF t \notin {Brackets[b] : b \in DOMAIN Brackets} THEN open
  ELSE IF open # <<>> /\ open[Len(open)] \in DOMAIN Brackets /\ Brackets[open[Len(open)]] = t
       THEN SubSeq(open, 1, Len(open) - 1)
       ELSE Append(open, "mismatch")

\* Mutant: an attempt looks at its tokens and takes none.
Bug_Advance(code) ==
  IF Tok(1) = "eof" \/ Innermost > 0 THEN Goto(code) /\ UNCHANGED look
  ELSE /\ look' = Tail(look)
       /\ stack' = [i \in DOMAIN stack |->
            [stack[i] EXCEPT !.moved = TRUE, !.code = IF i = Len(stack) THEN code ELSE @]]

\* advance: an attempt keeps what it takes, to give it back.
Advance(code) ==
  IF Tok(1) = "eof" THEN Goto(code) /\ UNCHANGED look
  ELSE /\ look' = Tail(look)
       /\ stack' = [i \in DOMAIN stack |->
            [stack[i] EXCEPT !.moved = @ \/ i >= Innermost,
                             !.trail = IF i = Innermost THEN Append(@, look[1]) ELSE @,
                             !.code  = IF i = Len(stack) THEN code ELSE @]]

Doing(what) == Ready /\ Item.do \in what /\ UNCHANGED <<alphabet, left>>

\* Mutant: what is expected may be any token.
Bug_TakeToken ==
  /\ Doing({"take", "want"})
  /\ Advance(Tail(Top.code))
  /\ open' = Opened(Tok(1))
  /\ UNCHANGED <<kind, errors, tainted>>

TakeToken ==
  /\ \/ Doing({"take"})
     \/ Doing({"want"}) /\ Tok(1) \in Item.on
  /\ Advance(Tail(Top.code))
  /\ open' = Opened(Tok(1))
  /\ UNCHANGED <<kind, errors, tainted>>

\* Mutant: a token nobody looked at is not stepped over.
Bug_SkipToken ==
  /\ Doing({"skip"})
  /\ Goto(Tail(Top.code))
  /\ UNCHANGED <<look, kind, history>>

\* A token nobody looked at: the brackets are not accounted for.
SkipToken ==
  /\ Doing({"skip"})
  /\ Advance(Tail(Top.code))
  /\ tainted' = (tainted \/ Tok(1) \in {"(", ")", "[", "]", "{", "}", "eof"})
  /\ open' = IF tainted' THEN <<>> ELSE open
  /\ UNCHANGED <<kind, errors>>

TakeName ==
  /\ Doing({"named"})
  /\ look' = Tail(look)
  /\ stack' = [i \in DOMAIN stack |->
       [stack[i] EXCEPT !.moved = @ \/ i >= Innermost,
                        !.trail = IF i = Innermost THEN Append(@, look[1]) ELSE @,
                        !.code  = IF i = Len(stack) THEN Tail(@) ELSE @,
                        !.name  = IF i = Len(stack) THEN Tok(1) ELSE @]]
  /\ UNCHANGED <<kind, history>>

\* A binary operator of enough binding power takes a right side.
TakeOperator ==
  /\ Doing({"binary"})
  /\ Tok(1) \in DOMAIN BindingPower /\ BindingPower[Tok(1)][1] >= Top.bp
  /\ Advance(<<At(BindingPower[Tok(1)][2]), Yield("other")>> \o Tail(Top.code))
  /\ UNCHANGED <<kind, history>>

-----------------------------------------------------------------------------
(* Conditions.                                                             *)

Arm(arms, else, x) ==
  LET fit == {i \in DOMAIN arms : x \in arms[i].on}
  IN  IF fit = {} THEN else ELSE arms[Min(fit)].go

Branch ==
  CASE Item.do = "see"    -> IF Tok(Item.at) \in Item.on THEN Item.then ELSE Item.else
    [] Item.do = "switch" -> Arm(Item.arms, Item.else, Tok(1))
    [] Item.do = "names"  -> Arm(Item.arms, Item.else, Top.name)
    [] Item.do = "gap"    -> IF look[1].gap \in Item.on THEN Item.then ELSE Item.else
    [] Item.do = "bp"     -> IF Item.max >= Top.bp THEN Item.then ELSE Item.else
    [] Item.do = "kind"   -> IF kind \in Item.on THEN Item.then ELSE Item.else
    [] Item.do = "moved"  -> IF Top.moved THEN Item.then ELSE Item.else
    [] Item.do = "marked" -> IF Top.marked THEN Item.then ELSE Item.else
    [] Item.do = "lambda" -> IF LooksLikeLambda THEN Item.then ELSE Item.else

Decide ==
  /\ Doing({"see", "switch", "names", "bp", "kind", "moved", "marked", "lambda", "gap"})
  /\ Item.do = "gap" => look[1].gap # "any"
  /\ Goto(Branch \o Tail(Top.code))
  /\ UNCHANGED <<look, kind, history>>

Choose ==
  /\ Doing({"either"})
  /\ \/ Goto(Item.then \o Tail(Top.code))
     \/ Goto(Item.else \o Tail(Top.code))
  /\ UNCHANGED <<look, kind, history>>

Note ==
  /\ Doing({"mark", "yield"})
  /\ IF Item.do = "mark"
     THEN /\ stack' = [stack EXCEPT ![Len(stack)].code = Tail(@), ![Len(stack)].marked = TRUE]
          /\ UNCHANGED kind
     ELSE kind' = Item.kind /\ Goto(Tail(Top.code))
  /\ UNCHANGED <<look, history>>

-----------------------------------------------------------------------------
(* Rules, loops and attempts.                                              *)

Push(frame) ==
  stack' = Append([stack EXCEPT ![Len(stack)].code = Tail(@)], frame)

EnterRule ==
  /\ Doing({"call", "try"})
  /\ LET bp == IF Item.do = "call" THEN Item.bp ELSE 0
     IN  Push([Frame(Item.rule, bp, Rules[Item.rule]) EXCEPT
                 !.tried = Item.do = "try", !.name = Top.name])
  /\ UNCHANGED <<look, kind, history>>

EnterLoop ==
  /\ Doing({"loop"})
  /\ Push([Top EXCEPT !.is = "loop", !.code = Item.body, !.body = Item.body,
                      !.tried = FALSE, !.moved = FALSE, !.trail = <<>>, !.saved = <<>>])
  /\ UNCHANGED <<look, kind, history>>

EnterAttempt ==
  /\ Doing({"attempt"})
  /\ Push([Top EXCEPT !.is = "attempt", !.code = Item.body, !.body = Item.else,
                      !.tried = FALSE, !.moved = FALSE, !.trail = <<>>, !.saved = history])
  /\ UNCHANGED <<look, kind, history>>

Below == SubSeq(stack, 1, Len(stack) - 1)

Finished(what) ==
  /\ stack # <<>> /\ Top.code = <<>> /\ Top.is \in what
  /\ UNCHANGED <<alphabet, left, look, history>>

LeaveRule ==
  /\ Finished({"rule", "again"})
  /\ stack' = Below
  /\ kind' = IF kind = "none" THEN "other" ELSE kind

NextRound ==
  /\ Finished({"loop"})
  /\ stack' = [stack EXCEPT ![Len(stack)].code = Top.body, ![Len(stack)].moved = FALSE]
  /\ UNCHANGED kind

\* The attempt has come through: what it took is taken.
Commit ==
  /\ Finished({"attempt"})
  /\ LET outer == Max({0} \cup (Attempts \ {Len(stack)}))
     IN  stack' = [i \in DOMAIN Below |->
           [stack[i] EXCEPT !.moved = @ \/ i >= outer,
                            !.trail = IF i = outer THEN @ \o Top.trail ELSE @]]
  /\ UNCHANGED kind

LeaveLoop ==
  /\ \/ Doing({"break"})
     \/ /\ Doing({"binary"})
        /\ ~(Tok(1) \in DOMAIN BindingPower /\ BindingPower[Tok(1)][1] >= Top.bp)
  /\ stack' = Below
  /\ UNCHANGED <<look, kind, history>>

\* None, up to the caller that goes on, or the attempt that starts again.
Unwind ==
  LET j == Max({i \in DOMAIN stack : stack[i].tried \/ stack[i].is = "attempt"})
  IN  IF stack[j].tried
      THEN /\ stack' = SubSeq(stack, 1, j - 1)
           /\ kind' = "none"
           /\ UNCHANGED look
      ELSE /\ stack' = [SubSeq(stack, 1, j) EXCEPT
                          ![j].is = "again", ![j].code = stack[j].body, ![j].moved = FALSE,
                          ![j].body = <<>>, ![j].trail = <<>>, ![j].saved = <<>>]
           /\ look' = stack[j].trail \o look
           /\ UNCHANGED kind

FailRule ==
  /\ Doing({"fail"})
  /\ Unwind
  /\ IF stack[Max({i \in DOMAIN stack : stack[i].tried \/ stack[i].is = "attempt"})].tried
     THEN UNCHANGED history
     ELSE LET was == stack[Innermost].saved
          IN  errors' = was[1] /\ open' = was[2] /\ tainted' = was[3]

Report ==
  /\ Doing({"error"})
  /\ errors' = TRUE /\ open' = <<>>
  /\ Goto(Tail(Top.code))
  /\ UNCHANGED <<look, kind, tainted>>

\* Mutant: what is missing is not reported.
Bug_Refuse ==
  /\ Doing({"want"}) /\ Tok(1) \notin Item.on
  /\ Goto(<<Fail>>)
  /\ UNCHANGED <<look, kind, history>>

\* expect, of a token that is not there.
Refuse ==
  /\ Doing({"want"}) /\ Tok(1) \notin Item.on
  /\ errors' = TRUE /\ open' = <<>>
  /\ Goto(<<Fail>>)
  /\ UNCHANGED <<look, kind, tainted>>

Step ==
  \/ NextToken \/ NextGap \/ TakeToken \/ SkipToken \/ TakeName \/ TakeOperator
  \/ Decide \/ Choose \/ Note \/ EnterRule \/ EnterLoop \/ EnterAttempt
  \/ LeaveRule \/ NextRound \/ Commit \/ LeaveLoop \/ FailRule \/ Report \/ Refuse

Spec == Init /\ [][Step]_vars

-----------------------------------------------------------------------------
(* Properties.                                                             *)

\* "무한 루프 방지" (parser.rs:188): every round of every loop takes a token.
RoundsAdvance ==
  stack # <<>> /\ Top.is = "loop" /\ Top.code = <<>> => Top.moved

\* That is so but for the lists of type arguments and type parameters.
OnlyGenericsStall ==
  stack # <<>> /\ Top.rule \notin {"type_primary", "generic_params"} => RoundsAdvance

\* No rule comes back to itself without a token taken in between.
NoLeftRecursion ==
  \A i, j \in DOMAIN stack :
    i < j /\ stack[i].is = "rule" /\ stack[j].is = "rule"
          /\ stack[i].rule = stack[j].rule /\ stack[i].bp = stack[j].bp
    => \E k \in i .. j : stack[k].moved

\* A statement is given up with a diagnostic only.
FailureReported ==
  kind = "none" /\ Running /\ Item.do = "kind"
    /\ Top.rule \in {"program", "block", "function_block", "define_block"} => errors

\* A program without diagnostics has balanced brackets, but where the parser
\* steps over tokens.
AcceptedIsBalanced == stack = <<>> /\ ~errors /\ ~tainted => open = <<>>

\* An operator before an expression is applied after those behind it.
PostfixFirst ==
  stack # <<>> /\ Top.is = "rule" /\ Top.rule \in {"finish_call", "index", "field", "optional_field"}
    /\ Top.code = Rules[Top.rule] => kind # "unary"
==============================================================================
