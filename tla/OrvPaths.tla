------------------------------- MODULE OrvPaths -------------------------------
(***************************************************************************)
(* Every path through every rule of OrvGrammar, whatever tokens come.  A   *)
(* state is one frame of the parser, a rule or a loop or an attempt of     *)
(* one, with the code still to carry out and what is certain there.  What  *)
(* a rule that is called does is not followed from where it is called: it  *)
(* starts from what Entry says, and gives what Gains says.  There are      *)
(* finitely many such states, so that what holds in each holds of programs *)
(* of any length; OrvParserProofs takes it from there.  PathsAssumption    *)
(* says that it holds in each: it is about the grammar and no constant, so *)
(* that TLC, which evaluates it, leaves nothing out.                       *)
(***************************************************************************)
EXTENDS OrvGrammar

\* What is known of a token: it is one of a set, or not.
Among(S)   == [of |-> "these", set |-> S]
Other(S)   == [of |-> "others", set |-> S]
AnyToken   == Other({})
Fits(t, k) == (k.of = "these" /\ t \in k.set) \/ (k.of = "others" /\ t \notin k.set)

Only(k, S) == Among(IF k.of = "these" THEN k.set \cap S ELSE S \ k.set)
Not(k, S)  == IF k.of = "these" THEN Among(k.set \ S) ELSE Other(k.set \cup S)
Possible(k) == k # Among({})
Within(k, l) ==
  \/ l.of = "these" /\ k.of = "these" /\ k.set \subseteq l.set
  \/ l.of = "others" /\ IF k.of = "these" THEN k.set \cap l.set = {} ELSE l.set \subseteq k.set

\* What is known of the space in front of a token; "any" was not looked at.
Gaps == {"any", "glued", "space", "newline"}

(***************************************************************************)
(* What the rules may rely on, and what their callers may.                 *)
(***************************************************************************)
\* Rules that fail without a diagnostic.
Silent == {"constraint", "bare_path", "event_name"}

\* Rules whose statements may fail.
Recovering == {"program", "block", "function_block", "define_block"}

\* Rules with loops that may go round without a token.
Stalling == {"type_primary", "generic_params"}

\* The token a rule starts with, where it does not look at it.
Starts ==
  [let |-> {"let"}, const |-> {"const"}, function |-> {"function"}, define |-> {"define"},
   struct |-> {"struct"}, enum |-> {"enum"}, type_alias |-> {"type"}, import |-> {"import"},
   test |-> {"test"}, token_slot |-> {"token"}, generic_params |-> {"<"}, finish_call |-> {"("},
   finish_parenless |-> DomainArgStart, index |-> {"["}, field |-> {"."}, optional_field |-> {"?"},
   object |-> {"{"}, typed_object |-> {"{"}, lambda |-> {"("}, try |-> {"try"}, array |-> {"["},
   if |-> {"if"}, when |-> {"when"}, for |-> {"for"}, domain |-> Ats, hint |-> {"@hint"},
   db_clause |-> {"@where", "@order", "@limit", "@field", "@match", "@rank", "@near"}]

EntryToken(rule)  == IF rule \in DOMAIN Starts THEN Among(Starts[rule]) ELSE AnyToken
EntrySecond(rule) == IF rule = "optional_field" THEN Among({"."}) ELSE AnyToken
EntryGap(rule)    == IF rule = "finish_parenless" THEN {"glued", "space"} ELSE Gaps

\* Rules that may succeed without a token.
Idle == {"program", "skip_generics", "constraints", "tag", "user_domain", "event", "event_bound",
         "route", "db_transaction", "ternary_branch"}

Gains(rule) == IF rule \in Idle THEN {} ELSE {"moved", "far"}

\* A loop that takes a token before it ends, and one that ends at known tokens.
LoopGains(rule) == IF rule = "finish_parenless" THEN {"moved", "far"} ELSE {}
LoopExit(rule)  == IF rule = "constraints" THEN Among({")", "eof"}) ELSE AnyToken

\* Until a rule has taken a token it only calls rules of a lower rank.
Rank(rule) ==
  CASE rule = "program" -> 7
    [] rule = "stmt"    -> 6
    [] rule \in {"where", "prop_value", "route", "ternary_branch", "tag", "user_domain", "event",
                 "event_bound", "finish_parenless", "db_transaction"} -> 5
    [] rule \in {"expr", "type"}             -> 4
    [] rule \in {"prefix", "non_union_type"} -> 3
    [] rule \in {"atom", "type_primary"}     -> 2
    [] OTHER -> 1

(***************************************************************************)
(* The paths.  sure holds "moved" where the frame has taken a token, "far" *)
(* where it has or its rule had before, and "told" where there is a        *)
(* diagnostic; result is the kind of the last result as far as it is       *)
(* known, opens the brackets the frame has opened.                         *)
(***************************************************************************)
Entry(rule) ==
  [rule |-> rule, is |-> "rule", body |-> <<>>, code |-> Rules[rule], sure |-> {}, result |-> "any",
   next |-> EntryToken(rule), second |-> EntrySecond(rule), gap |-> EntryGap(rule), opens |-> <<>>]

\* A loop or an attempt of the same rule.
Inner(p, is, body, code) ==
  [p EXCEPT !.is = is, !.body = body, !.code = code, !.sure = @ \cap {"far"}, !.result = "any",
            !.opens = <<>>]

\* Nothing is known of the tokens to come.
Unseen(p) == [p EXCEPT !.next = AnyToken, !.second = AnyToken, !.gap = Gaps]

\* After a call, an attempt or a loop.
Back(p, gains) == [Unseen(p) EXCEPT !.code = Tail(@), !.sure = (@ \ {"told"}) \cup gains, !.result = "any"]

Goes(p, code) == [p EXCEPT !.code = code \o Tail(@)]

\* With one of the tokens of k taken.
Takes(p, opens) ==
  [p EXCEPT !.code = Tail(@), !.sure = @ \cup {"moved", "far"}, !.next = p.second, !.second = AnyToken,
            !.gap = Gaps, !.opens = opens]

BracketTokens == {"(", ")", "[", "]", "{", "}"}

Opens(opens, t) ==
  IF t \in DOMAIN Brackets THEN Append(opens, t)
  ELSE IF t \in BracketTokens THEN SubSeq(opens, 1, Len(opens) - 1)
  ELSE opens

\* A bracket that is closed was opened last, in the same frame.
Closes(opens, t) ==
  t \in BracketTokens \ DOMAIN Brackets =>
    opens # <<>> /\ opens[Len(opens)] \in DOMAIN Brackets /\ Brackets[opens[Len(opens)]] = t

Took(p, k) == {Takes(p, Opens(p.opens, t)) : t \in k.set}

Earlier(arms, i) == UNION {arms[j].on : j \in 1 .. i - 1}
AtArm(p, arms, i) == Only(Not(p.next, Earlier(arms, i)), arms[i].on)
AtElse(p, arms) == Not(p.next, Earlier(arms, Len(arms) + 1))

Branches(p, item) ==
  CASE item.do = "see" /\ item.at = 1 ->
         {[Goes(p, item.then) EXCEPT !.next = k] : k \in {l \in {Only(p.next, item.on)} : Possible(l)}}
         \cup {[Goes(p, item.else) EXCEPT !.next = k] : k \in {l \in {Not(p.next, item.on)} : Possible(l)}}
    [] item.do = "see" /\ item.at = 2 ->
         {[Goes(p, item.then) EXCEPT !.second = k] : k \in {l \in {Only(p.second, item.on)} : Possible(l)}}
         \cup {[Goes(p, item.else) EXCEPT !.second = k] : k \in {l \in {Not(p.second, item.on)} : Possible(l)}}
    [] item.do = "switch" ->
         {[Goes(p, item.arms[i].go) EXCEPT !.next = AtArm(p, item.arms, i)] :
            i \in {j \in DOMAIN item.arms : Possible(AtArm(p, item.arms, j))}}
         \cup {[Goes(p, item.else) EXCEPT !.next = k] : k \in {l \in {AtElse(p, item.arms)} : Possible(l)}}
    [] item.do = "names" ->
         {Goes(p, item.arms[i].go) : i \in DOMAIN item.arms} \cup {Goes(p, item.else)}
    [] item.do = "gap" ->
         {[Goes(p, item.then) EXCEPT !.gap = g] : g \in {p.gap \cap item.on} \ {{}}}
         \cup {[Goes(p, item.else) EXCEPT !.gap = g] : g \in {p.gap \ (item.on \cup {"any"})} \ {{}}}
    [] item.do = "kind" /\ item.on = {"none"} ->
         {[Goes(p, item.then) EXCEPT !.result = "none"] : x \in {p.result} \ {"some"}}
         \cup {[Goes(p, item.else) EXCEPT !.result = "some"] : x \in {p.result} \ {"none"}}
    [] item.do = "moved" ->
         {[Goes(p, item.then) EXCEPT !.sure = @ \cup {"moved", "far"}], Goes(p, item.else)}
    [] OTHER -> {Goes(p, item.then), Goes(p, item.else)}

\* A call that fails leaves a token there was, or has taken it.
Failed(p, rule) ==
  LET told == IF rule \in Silent THEN {} ELSE {"told"}
      p1   == [Back(p, told) EXCEPT !.result = "none"]
  IN  {[p1 EXCEPT !.sure = @ \cup {"moved", "far"}],
       [p1 EXCEPT !.next = IF "moved" \notin p.sure /\ ~Fits("eof", p.next) THEN Other({"eof"}) ELSE @]}

Returned(p, rule) == [Back(p, Gains(rule)) EXCEPT !.result = "some"]

After(p) ==
  IF p.code = <<>>
  THEN IF p.is = "loop" THEN {Inner(Unseen(p), "loop", p.body, p.body)} ELSE {}
  ELSE LET item == Head(p.code) IN
    CASE item.do \in {"take", "named"} -> Took(p, p.next)
      [] item.do = "want" ->
           Took(p, Only(p.next, item.on))
           \cup {[p EXCEPT !.code = <<Fail>>, !.sure = @ \cup {"told"}, !.next = k] :
                   k \in {l \in {Not(p.next, item.on)} : Possible(l)}}
      [] item.do = "skip" ->
           {Takes(p, p.opens) : k \in {p.next} \ {Among({"eof"})}}
           \cup {[p EXCEPT !.code = Tail(@), !.next = Among({"eof"}), !.opens = <<>>] :
                   k \in {l \in {p.next} : Fits("eof", l)}}
      [] item.do = "binary" ->
           {[Takes(p, p.opens) EXCEPT !.code = <<At(BindingPower[t][2]), Yield("other")>> \o @] :
              t \in Only(p.next, DOMAIN BindingPower).set}
      [] item.do = "mark"  -> {[p EXCEPT !.code = Tail(@)]}
      [] item.do = "yield" -> {[p EXCEPT !.code = Tail(@), !.result = "some"]}
      [] item.do = "error" -> {[p EXCEPT !.code = Tail(@), !.sure = @ \cup {"told"}]}
      [] item.do = "call"  -> {Entry(item.rule), Returned(p, item.rule)}
      [] item.do = "try"   -> {Entry(item.rule), Returned(p, item.rule)} \cup Failed(p, item.rule)
      [] item.do = "loop"  ->
           {Inner(p, "loop", item.body, item.body),
            [Back(p, LoopGains(p.rule)) EXCEPT !.next = LoopExit(p.rule)]}
      [] item.do = "attempt" ->
           {Inner(p, "attempt", item.else, item.body), Inner(Unseen(p), "again", <<>>, item.else),
            Back(p, {"moved", "far"})}
      [] item.do \in {"fail", "break"} -> {}
      [] OTHER -> Branches(p, item)

(***************************************************************************)
(* What must hold on every path.                                           *)
(***************************************************************************)
Tells(p) == "told" \in p.sure
Moved(p) == "moved" \in p.sure

\* A frame ends with its brackets closed, and with a token if one is due.
EndsWell(p) ==
  /\ p.opens = <<>>
  /\ p.is = "rule" /\ Gains(p.rule) # {} => Moved(p)
  /\ p.is = "loop" /\ p.rule \notin Stalling => Moved(p)
  /\ p.is = "again" => Moved(p)

\* A token is taken that is there, and a closing bracket where it was opened.
TakesWell(p, item) ==
  /\ item.do \in {"take", "named"} =>
       /\ p.next.of = "these" /\ ~Fits("eof", p.next)
       /\ \A t \in p.next.set : Closes(p.opens, t)
  /\ item.do = "named" => p.next.set \cap BracketTokens = {}
  /\ item.do = "want" =>
       "eof" \notin item.on /\ \A t \in Only(p.next, item.on).set : Closes(p.opens, t)

\* A rule is called with what it relies on, and one of a lower rank before a
\* token is taken.
CallsWell(p, item) ==
  /\ item.do \in {"call", "try"} =>
       /\ Within(p.next, EntryToken(item.rule)) /\ Within(p.second, EntrySecond(item.rule))
       /\ p.gap \subseteq EntryGap(item.rule)
       /\ "far" \in p.sure \/ Rank(item.rule) < Rank(p.rule)
       /\ item.rule \in DOMAIN Rules \ {"program"}
  /\ item.do = "call" => item.rule \notin Silent
  /\ item.do = "loop" /\ LoopGains(p.rule) # {} => p.is = "rule"
  /\ item.do = "attempt" => p.opens = <<>> /\ (p.rule \in Silent => p.is = "rule")
  /\ p.rule = "program" => item.do \notin {"call", "attempt", "want", "fail"}

\* A loop is left between its rounds' brackets, with the token that is due.
BreaksWell(p, item) ==
  item.do \in {"break", "binary"} =>
    /\ p.is = "loop" /\ p.opens = <<>>
    /\ LoopGains(p.rule) # {} => "far" \in p.sure
    /\ Within(p.next, LoopExit(p.rule))

\* A rule fails with a diagnostic, or is one of those that may do without; and a
\* statement that has failed is given up with one.
FailsWell(p, item) ==
  /\ item.do = "fail" =>
       \/ Tells(p)
       \/ p.is = "attempt"
       \/ p.rule \in Silent /\ p.is \in {"rule", "again"} /\ p.opens = <<>>
  /\ item.do = "kind" /\ p.rule \in Recovering => p.result = "some" \/ Tells(p)

\* A path is a record of sequences, and of a space that was looked at or not.
Formed(p) ==
  /\ DOMAIN p = {"rule", "is", "body", "code", "sure", "result", "next", "second", "gap", "opens"}
  /\ p.code \in Seq({p.code[k] : k \in DOMAIN p.code})
  /\ p.opens \in Seq(BracketTokens)
  /\ p.gap = Gaps \/ "any" \notin p.gap

\* The arms of a switch are in order, and what a rule yields is no failure.
ItemFormed(item) ==
  /\ item.do \in {"switch", "names"} => DOMAIN item.arms = 1 .. Len(item.arms) /\ Len(item.arms) \in Nat
  /\ item.do = "yield" => item.kind # "none"

Sound(p) ==
  /\ Formed(p)
  /\ p.code = <<>> => EndsWell(p)
  /\ p.code # <<>> =>
       LET item == Head(p.code)
       IN  /\ ItemFormed(item)
           /\ TakesWell(p, item) /\ CallsWell(p, item) /\ BreaksWell(p, item) /\ FailsWell(p, item)

\* A set of paths that no step leaves, all of them sound.
Complete(T) == Entry("program") \in T /\ \A p \in T : After(p) \subseteq T /\ Sound(p)

GrammarIsSound == \E T : Complete(T)

\* The paths that are reached, found by rounds from the start of a program.
Rounds[n \in Nat] ==
  IF n = 0 THEN [all |-> {Entry("program")}, new |-> {Entry("program")}]
  ELSE LET r     == Rounds[n - 1]
           found == UNION {After(p) : p \in r.new} \ r.all
       IN  [all |-> r.all \cup found, new |-> found]

\* More rounds than it takes: Complete says that there is nothing left to find.
MostRounds == 150

ASSUME PathsAssumption == Complete(Rounds[MostRounds].all)
==============================================================================
