--------------------------- MODULE OrvParserProofs ---------------------------
(***************************************************************************)
(* Proofs about OrvParser, for programs of any length: every frame of the  *)
(* stack follows a path of OrvPaths, and what is certain on the path holds *)
(* of the frame.                                                           *)
(***************************************************************************)
EXTENDS OrvParser, OrvPaths, SequenceTheorems, WellFoundedInduction, TLAPS

\* The paths, if the grammar is sound.
Paths == CHOOSE T : Complete(T)

(***************************************************************************)
(* Types.                                                                  *)
(***************************************************************************)
Items     == UNION {{p.code[k] : k \in DOMAIN p.code} : p \in Paths}
\* The tokens there may be, and what stands for no token.
Texts ==
  (UNION {p.tokens \cup {p.begins[i] : i \in DOMAIN p.begins} : p \in Programs})
    \cup BracketTokens \cup {"eof", "mismatch", ""}

Tokens    == [token : Texts, gap : Gaps]
Histories == BOOLEAN \X Seq(Texts) \X BOOLEAN

Frames ==
  [is : {"rule", "loop", "attempt", "again"}, rule : {p.rule : p \in Paths},
   bp : {0} \cup {item.bp : item \in Items}, name : Texts, code : Seq(Items),
   body : {p.body : p \in Paths}, tried : BOOLEAN, moved : BOOLEAN, marked : BOOLEAN,
   trail : Seq(Tokens), saved : {<<>>} \cup Histories]

TypeOK ==
  /\ alphabet \subseteq Texts
  /\ look \in Seq(Tokens)
  /\ stack \in Seq(Frames)
  /\ errors \in BOOLEAN /\ open \in Seq(Texts) /\ tainted \in BOOLEAN
  /\ \A i \in 1 .. Len(stack) : stack[i].is = "attempt" => stack[i].saved \in Histories

(***************************************************************************)
(* The stack by itself.                                                    *)
(***************************************************************************)
\* At the bottom is the program.
Grounded ==
  /\ stack # <<>> => stack[1].is = "rule" /\ stack[1].rule = "program" /\ ~stack[1].tried
  /\ \A i \in 1 .. Len(stack) : stack[i].tried => stack[i].is = "rule"
  /\ \A i \in 1 .. Len(stack) : stack[i].rule # "program" => \E k \in 1 .. i : stack[k].tried

\* A token taken by a frame is taken by those below it, but for an attempt's.
MovedBelow ==
  \A i \in 2 .. Len(stack) : stack[i].moved /\ stack[i].is # "attempt" => stack[i - 1].moved

\* Until a rule has taken a token, what is above it is of a lower rank, or a
\* loop or an attempt of its own.
Ranked ==
  \A i, j \in 1 .. Len(stack) : i < j /\ stack[i].is = "rule" =>
    \/ \E k \in i .. j - 1 : stack[k].moved
    \/ Rank(stack[j].rule) < Rank(stack[i].rule)
    \/ stack[j].is # "rule" /\ stack[j].rule = stack[i].rule

\* What an attempt gives back are tokens.
Trails == \A i \in 1 .. Len(stack) : \A k \in 1 .. Len(stack[i].trail) : stack[i].trail[k].token # "eof"

Order == Grounded /\ MovedBelow /\ Ranked /\ Trails

(***************************************************************************)
(* The stack beside a path for each frame.                                 *)
(***************************************************************************)
Mirrors(p, f) == p.is = f.is /\ p.rule = f.rule /\ p.body = f.body

\* The item of frame f that frame g carries out.
Calls(item, f, g) ==
  \/ item.do = "call" /\ g.is = "rule" /\ g.rule = item.rule /\ ~g.tried
  \/ item.do = "try"  /\ g.is = "rule" /\ g.rule = item.rule /\ g.tried
  \/ item.do = "loop" /\ g.is = "loop" /\ g.rule = f.rule /\ ~g.tried
  \/ /\ item.do = "attempt" /\ g.rule = f.rule /\ ~g.tried
     /\ (g.is = "attempt" /\ g.body = item.else) \/ g.is = "again"

Suspends(p, f, g) == p.code # <<>> /\ f.code = Tail(p.code) /\ Calls(Head(p.code), f, g)

Linked(w) ==
  /\ Len(w) = Len(stack)
  /\ \A i \in 1 .. Len(stack) : Mirrors(w[i], stack[i])
  /\ \A i \in 1 .. Len(stack) - 1 : Suspends(w[i], stack[i], stack[i + 1])
  /\ stack # <<>> => w[Len(stack)].code = stack[Len(stack)].code

\* The frame or its rule below it has taken a token.
Far(i) == \E k \in 1 .. i : stack[k].moved /\ \A h \in k + 1 .. i : stack[h].is # "rule"

Sure(p, i) == ("moved" \in p.sure => stack[i].moved) /\ ("far" \in p.sure => Far(i))

Certain(w) == \A i \in 1 .. Len(stack) : Sure(w[i], i)

\* The token a frame waited with is still there, or was taken by an attempt.
Alive == look # <<>> /\ look[1].token # "eof"

Awaits(p, i) ==
  ~stack[i].moved /\ ~Fits("eof", p.next) =>
    Alive \/ \E h \in i + 1 .. Len(stack) : stack[h].is = "attempt" /\ stack[h].trail # <<>>

Awaited(w) == \A i \in 1 .. Len(stack) - 1 : Awaits(w[i], i)

\* What may be the k-th token from here; it is known if it was looked at.
MayBe(k, t) == AtEnd \/ k <= Len(look) => t = Tok(k)
Knows(k, l) == \A t \in Texts : MayBe(k, t) => Fits(t, l)

KnowsGap(g) == IF look = <<>> THEN "any" \in g ELSE look[1].gap \in g

Seen(p) ==
  /\ Knows(1, p.next) /\ Knows(2, p.second) /\ KnowsGap(p.gap)
  /\ p.result = "none" => kind = "none"
  /\ p.result = "some" => kind # "none"
  /\ "told" \in p.sure => errors

\* The open brackets o are those of the first i frames, one after the other.
Nest(w, i, o) ==
  \E c \in [0 .. i -> Nat] :
    /\ c[0] = 0 /\ c[i] = Len(o)
    /\ \A k, l \in 0 .. i : k <= l => c[k] <= c[l]
    /\ \A k \in 1 .. i : w[k].opens = SubSeq(o, c[k - 1] + 1, c[k])

Nested(w) ==
  /\ ~errors /\ ~tainted => Nest(w, Len(stack), open)
  /\ \A i \in 1 .. Len(stack) :
       stack[i].is = "attempt" /\ ~stack[i].saved[1] /\ ~stack[i].saved[3]
         => Nest(w, i - 1, stack[i].saved[2])

Fit(w) ==
  /\ Linked(w) /\ Certain(w) /\ Awaited(w) /\ Nested(w)
  /\ stack # <<>> => Seen(w[Len(stack)])

Follows == TypeOK /\ Order /\ \E w \in Seq(Paths) : Fit(w)

(***************************************************************************)
(* What is known of tokens.                                                *)
(***************************************************************************)
LEMMA FitsOnly ==
    ASSUME NEW t, NEW k, NEW S, Fits(t, k)
    PROVE  (t \in S => Fits(t, Only(k, S)) /\ t \in Only(k, S).set)
           /\ (t \notin S => Fits(t, Not(k, S)))
  BY DEF Fits, Only, Not, Among, Other

LEMMA FitsPossible ==
    ASSUME NEW t, NEW k, Fits(t, k)
    PROVE  Possible(k)
  BY DEF Fits, Possible, Among

LEMMA FitsWithin ==
    ASSUME NEW t, NEW k, NEW l, Fits(t, k), Within(k, l)
    PROVE  Fits(t, l)
  BY DEF Fits, Within

LEMMA FitsAny == \A t : Fits(t, AnyToken)
  BY DEF Fits, AnyToken, Other

(***************************************************************************)
(* The paths.                                                              *)
(***************************************************************************)
LEMMA PathsComplete ==
    ASSUME GrammarIsSound
    PROVE  Entry("program") \in Paths /\ \A p \in Paths : After(p) \subseteq Paths /\ Sound(p)
<1>1. PICK T : Complete(T)
  BY DEF GrammarIsSound
<1>2. Complete(Paths)
  BY <1>1 DEF Paths
<1> QED
  BY <1>2 DEF Complete

Fields == {"rule", "is", "body", "code", "sure", "result", "next", "second", "gap", "opens"}

LEMMA TextsHold == BracketTokens \subseteq Texts /\ {"eof", "mismatch", ""} \subseteq Texts
  BY DEF Texts

LEMMA PathForm ==
    ASSUME GrammarIsSound, NEW p \in Paths
    PROVE  /\ DOMAIN p = Fields
           /\ p.code \in Seq(Items)
           /\ p.opens \in Seq(Texts)
           /\ p.gap = Gaps \/ "any" \notin p.gap
<1>1. Formed(p)
  BY PathsComplete DEF Sound
<1> DEFINE S == {p.code[k] : k \in DOMAIN p.code}
<1>2. p.code \in Seq(S)
  BY <1>1 DEF Formed
<1>3. S \subseteq Items
  BY DEF Items
<1>4. p.opens \in Seq(Texts)
  <2>1. p.opens \in Seq(BracketTokens)
    BY <1>1 DEF Formed
  <2>2. Len(p.opens) \in Nat /\ \A i \in 1 .. Len(p.opens) : p.opens[i] \in Texts
    <3>1. Len(p.opens) \in Nat /\ \A i \in 1 .. Len(p.opens) : p.opens[i] \in BracketTokens
      BY <2>1
    <3> QED
      BY <3>1, TextsHold
  <2>3. p.opens = [i \in 1 .. Len(p.opens) |-> p.opens[i]]
    BY <2>1
  <2>4. [i \in 1 .. Len(p.opens) |-> p.opens[i]] \in Seq(Texts)
    BY <2>2
  <2> QED
    BY <2>3, <2>4
<1>5. p.code \in Seq(Items)
  <2> HIDE DEF S
  <2>1. Len(p.code) \in Nat /\ DOMAIN p.code = 1 .. Len(p.code) /\ \A i \in 1 .. Len(p.code) : p.code[i] \in Items
    BY <1>2, <1>3
  <2>2. p.code = [i \in 1 .. Len(p.code) |-> p.code[i]]
    BY <1>2
  <2>3. [i \in 1 .. Len(p.code) |-> p.code[i]] \in Seq(Items)
    BY <2>1
  <2> QED
    BY <2>2, <2>3
<1> QED
  BY <1>1, <1>4, <1>5 DEF Formed, Fields

LEMMA AfterCode ==
    ASSUME GrammarIsSound, NEW p \in Paths, NEW q \in After(p)
    PROVE  q \in Paths
  BY PathsComplete

LEMMA AfterTake ==
    ASSUME NEW p, NEW t, p.code # <<>>, Head(p.code).do \in {"take", "named"}, t \in p.next.set
    PROVE  Takes(p, Opens(p.opens, t)) \in After(p)
  BY DEF After, Took

LEMMA AfterWant ==
    ASSUME NEW p, p.code # <<>>, Head(p.code).do = "want"
    PROVE  /\ \A t \in Only(p.next, Head(p.code).on).set : Takes(p, Opens(p.opens, t)) \in After(p)
           /\ Possible(Not(p.next, Head(p.code).on)) =>
                [p EXCEPT !.code = <<Fail>>, !.sure = @ \cup {"told"}, !.next = Not(p.next, Head(p.code).on)]
                  \in After(p)
  BY DEF After, Took

LEMMA AfterSkip ==
    ASSUME NEW p, p.code # <<>>, Head(p.code).do = "skip"
    PROVE  /\ p.next # Among({"eof"}) => Takes(p, p.opens) \in After(p)
           /\ Fits("eof", p.next) =>
                [p EXCEPT !.code = Tail(@), !.next = Among({"eof"}), !.opens = <<>>] \in After(p)
  BY DEF After

LEMMA AfterBinary ==
    ASSUME NEW p, NEW t, p.code # <<>>, Head(p.code).do = "binary", t \in Only(p.next, DOMAIN BindingPower).set
    PROVE  [Takes(p, p.opens) EXCEPT !.code = <<At(BindingPower[t][2]), Yield("other")>> \o @] \in After(p)
<1> DEFINE F(u) == [Takes(p, p.opens) EXCEPT !.code = <<At(BindingPower[u][2]), Yield("other")>> \o @]
<1>1. After(p) = {F(u) : u \in Only(p.next, DOMAIN BindingPower).set}
  BY DEF After
<1> QED
  BY <1>1

LEMMA AfterNote ==
    ASSUME NEW p, p.code # <<>>
    PROVE  /\ Head(p.code).do = "mark" => [p EXCEPT !.code = Tail(@)] \in After(p)
           /\ Head(p.code).do = "yield" => [p EXCEPT !.code = Tail(@), !.result = "some"] \in After(p)
           /\ Head(p.code).do = "error" => [p EXCEPT !.code = Tail(@), !.sure = @ \cup {"told"}] \in After(p)
  BY DEF After

LEMMA AfterCall ==
    ASSUME NEW p, p.code # <<>>, Head(p.code).do \in {"call", "try"}
    PROVE  /\ Entry(Head(p.code).rule) \in After(p)
           /\ Returned(p, Head(p.code).rule) \in After(p)
           /\ Head(p.code).do = "try" => Failed(p, Head(p.code).rule) \subseteq After(p)
  BY DEF After

LEMMA AfterLoop ==
    ASSUME NEW p, p.code # <<>>, Head(p.code).do = "loop"
    PROVE  /\ Inner(p, "loop", Head(p.code).body, Head(p.code).body) \in After(p)
           /\ [Back(p, LoopGains(p.rule)) EXCEPT !.next = LoopExit(p.rule)] \in After(p)
  BY DEF After

LEMMA AfterRound ==
    ASSUME NEW p, p.code = <<>>, p.is = "loop"
    PROVE  Inner(Unseen(p), "loop", p.body, p.body) \in After(p)
  BY DEF After

LEMMA AfterAttempt ==
    ASSUME NEW p, p.code # <<>>, Head(p.code).do = "attempt"
    PROVE  /\ Inner(p, "attempt", Head(p.code).else, Head(p.code).body) \in After(p)
           /\ Inner(Unseen(p), "again", <<>>, Head(p.code).else) \in After(p)
           /\ Back(p, {"moved", "far"}) \in After(p)
  BY DEF After

Deciding == {"see", "switch", "names", "bp", "kind", "moved", "marked", "lambda", "gap", "either"}

LEMMA AfterBranch ==
    ASSUME NEW p, p.code # <<>>, Head(p.code).do \in Deciding
    PROVE  After(p) = Branches(p, Head(p.code))
  BY DEF After, Deciding

(***************************************************************************)
(* A step leaves the frames below some height as they are, but for tokens  *)
(* they have taken, and gives a frame at that height.                      *)
(***************************************************************************)
Keeps(f, g) ==
  /\ g.is = f.is /\ g.rule = f.rule /\ g.tried = f.tried /\ g.body = f.body /\ g.saved = f.saved
  /\ f.moved => g.moved
  /\ f.trail # <<>> => g.trail # <<>>

Lower(m) == Len(stack') = m /\ \A i \in 1 .. m - 1 : Keeps(stack[i], stack'[i])

\* The frame at that height is the one that was there, further on.
Resumes(f, g) ==
  /\ g.rule = f.rule /\ g.tried = f.tried
  /\ (g.is = f.is /\ g.body = f.body) \/ (f.is = "attempt" /\ g.is = "again")

NewTop(w, m, q) == Append(SubSeq(w, 1, m - 1), q)

LEMMA NewTopIs ==
    ASSUME NEW w \in Seq(Paths), NEW m \in 1 .. Len(w) + 1, NEW q \in Paths
    PROVE  /\ NewTop(w, m, q) \in Seq(Paths)
           /\ Len(NewTop(w, m, q)) = m
           /\ NewTop(w, m, q)[m] = q
           /\ \A i \in 1 .. m - 1 : NewTop(w, m, q)[i] = w[i]
  BY DEF NewTop

LEMMA LinkedNew ==
    ASSUME NEW w \in Seq(Paths), Linked(w), NEW m \in 1 .. Len(stack) + 1, NEW q \in Paths, Lower(m),
           stack \in Seq(Frames), stack' \in Seq(Frames),
           Mirrors(q, stack'[m]), q.code = stack'[m].code,
           \A i \in 1 .. m - 2 : stack'[i].code = stack[i].code,
           m > 1 => Suspends(w[m - 1], stack'[m - 1], stack'[m])
    PROVE  Linked(NewTop(w, m, q))'
<1> DEFINE v == NewTop(w, m, q)
<1>1. v \in Seq(Paths) /\ Len(v) = m /\ v[m] = q /\ \A i \in 1 .. m - 1 : v[i] = w[i]
  BY NewTopIs DEF Linked
<1>2. Len(stack') = m /\ m \in Nat /\ m # 0 /\ Len(stack) \in Nat
  BY DEF Lower
<1> HIDE DEF v
<1>3. ASSUME NEW i \in 1 .. m
      PROVE  Mirrors(v[i], stack'[i])
  <2>1. CASE i = m
    BY <1>1, <2>1
  <2>2. CASE i # m
    <3>1. i \in 1 .. m - 1 /\ i \in 1 .. Len(stack)
      BY <1>2, <2>2
    <3> QED
      BY <1>1, <3>1 DEF Mirrors, Linked, Lower, Keeps
  <2> QED
    BY <2>1, <2>2
<1>4. ASSUME NEW i \in 1 .. m - 1
      PROVE  Suspends(v[i], stack'[i], stack'[i + 1])
  <2>1. CASE i = m - 1
    BY <1>1, <1>2, <2>1
  <2>2. CASE i # m - 1
    <3>1. i \in 1 .. m - 2 /\ i \in 1 .. Len(stack) - 1 /\ i + 1 \in 1 .. m - 1
      BY <1>2, <2>2
    <3>2. Suspends(w[i], stack[i], stack[i + 1]) /\ stack'[i].code = stack[i].code
      BY <3>1 DEF Linked
    <3>3. Keeps(stack[i], stack'[i]) /\ Keeps(stack[i + 1], stack'[i + 1])
      BY <3>1 DEF Lower
    <3> QED
      BY <1>1, <3>2, <3>3 DEF Suspends, Calls, Keeps
  <2> QED
    BY <2>1, <2>2
<1> QED
  BY <1>1, <1>2, <1>3, <1>4 DEF Linked, v

LEMMA ResumesSuspended ==
    ASSUME NEW w \in Seq(Paths), Linked(w), NEW m \in 1 .. Len(stack), Lower(m), stack \in Seq(Frames),
           Resumes(stack[m], stack'[m]), \A i \in 1 .. m - 1 : stack'[i].code = stack[i].code, m > 1
    PROVE  Suspends(w[m - 1], stack'[m - 1], stack'[m])
<1>1. m - 1 \in 1 .. Len(stack) - 1 /\ (m - 1) + 1 = m /\ m - 1 \in 1 .. m - 1
  OBVIOUS
<1>2. Suspends(w[m - 1], stack[m - 1], stack[m])
  BY <1>1 DEF Linked
<1>3. Keeps(stack[m - 1], stack'[m - 1]) /\ stack'[m - 1].code = stack[m - 1].code
  BY <1>1 DEF Lower
<1> QED
  BY <1>2, <1>3 DEF Suspends, Calls, Keeps, Resumes

LEMMA CertainNew ==
    ASSUME NEW w \in Seq(Paths), Linked(w), Certain(w), NEW m \in 1 .. Len(stack) + 1, NEW q \in Paths, Lower(m),
           stack \in Seq(Frames), Sure(q, m)'
    PROVE  Certain(NewTop(w, m, q))'
<1> DEFINE v == NewTop(w, m, q)
<1>1. v \in Seq(Paths) /\ Len(v) = m /\ v[m] = q /\ \A i \in 1 .. m - 1 : v[i] = w[i]
  BY NewTopIs DEF Linked
<1>2. Len(stack') = m /\ m \in Nat /\ m # 0 /\ Len(stack) \in Nat
  BY DEF Lower
<1> HIDE DEF v
<1>3. ASSUME NEW i \in 1 .. m
      PROVE  Sure(v[i], i)'
  <2>1. CASE i = m
    BY <1>1, <2>1
  <2>2. CASE i # m
    <3>1. i \in 1 .. m - 1 /\ i \in 1 .. Len(stack)
      BY <1>2, <2>2
    <3>2. Sure(w[i], i)
      BY <3>1 DEF Certain
    <3>3. \A k \in 1 .. i : Keeps(stack[k], stack'[k])
      BY <3>1 DEF Lower
    <3>4. Far(i) => Far(i)'
      BY <3>3 DEF Far, Keeps
    <3> QED
      BY <1>1, <3>1, <3>2, <3>3, <3>4 DEF Sure, Keeps
  <2> QED
    BY <2>1, <2>2
<1> QED
  BY <1>2, <1>3 DEF Certain, v

\* No token is taken.
LEMMA AwaitedKept ==
    ASSUME NEW w \in Seq(Paths), Linked(w), Awaited(w), NEW m \in 1 .. Len(stack), NEW q \in Paths, Lower(m),
           stack \in Seq(Frames), Alive => Alive',
           stack[m].is = "attempt" /\ stack[m].trail # <<>> =>
             Alive' \/ (stack'[m].is = "attempt" /\ stack'[m].trail # <<>>),
           \A h \in m + 1 .. Len(stack) : stack[h].is # "attempt"
    PROVE  Awaited(NewTop(w, m, q))'
<1> DEFINE v == NewTop(w, m, q)
<1>1. v \in Seq(Paths) /\ Len(v) = m /\ v[m] = q /\ \A i \in 1 .. m - 1 : v[i] = w[i]
  BY NewTopIs DEF Linked
<1>2. Len(stack') = m /\ m \in Nat /\ m # 0 /\ Len(stack) \in Nat
  BY DEF Lower
<1> HIDE DEF v
<1>3. ASSUME NEW i \in 1 .. m - 1, ~stack'[i].moved, ~Fits("eof", w[i].next), ~Alive'
      PROVE  \E h \in i + 1 .. m : stack'[h].is = "attempt" /\ stack'[h].trail # <<>>
  <2>1. i \in 1 .. Len(stack) - 1
    BY <1>2
  <2>2. Awaits(w[i], i) /\ ~stack[i].moved
    BY <1>3, <2>1 DEF Awaited, Lower, Keeps
  <2>3. PICK h \in i + 1 .. Len(stack) : stack[h].is = "attempt" /\ stack[h].trail # <<>>
    BY <1>3, <2>2 DEF Awaits
  <2>4. h \in i + 1 .. m
    BY <1>2, <2>1, <2>3
  <2>5. stack'[h].is = "attempt" /\ stack'[h].trail # <<>>
    <3>1. CASE h = m
      BY <1>3, <2>3, <3>1
    <3>2. CASE h # m
      <4>1. h \in 1 .. m - 1
        BY <1>2, <2>4, <3>2
      <4> QED
        BY <2>3, <4>1 DEF Lower, Keeps
    <3> QED
      BY <3>1, <3>2
  <2> QED
    BY <2>4, <2>5
<1> QED
  BY <1>1, <1>2, <1>3 DEF Awaited, Awaits, v

\* The stack by itself, where a frame goes on.
LEMMA OrderKept ==
    ASSUME Order, NEW m \in 1 .. Len(stack), Lower(m), stack \in Seq(Frames),
           Resumes(stack[m], stack'[m]), MovedBelow', Trails'
    PROVE  Order'
<1>1. Len(stack') = m /\ m \in Nat /\ m # 0 /\ Len(stack) \in Nat
  BY DEF Lower
<1>2. ASSUME NEW i \in 1 .. m
      PROVE  stack'[i].rule = stack[i].rule /\ stack'[i].tried = stack[i].tried
             /\ (stack'[i].is = stack[i].is \/ (stack[i].is = "attempt" /\ stack'[i].is = "again"))
             /\ i \in 1 .. Len(stack) /\ (i # m /\ stack[i].moved => stack'[i].moved)
  BY <1>1 DEF Lower, Keeps, Resumes
<1>3. Grounded'
  <2>1. 1 \in 1 .. m /\ stack # <<>>
    BY <1>1
  <2>2. ASSUME NEW i \in 1 .. m, stack'[i].rule # "program"
        PROVE  \E k \in 1 .. i : stack'[k].tried
    <3>1. PICK k \in 1 .. i : stack[k].tried
      BY <1>2, <2>2 DEF Order, Grounded
    <3>2. k \in 1 .. m
      BY <1>1
    <3> QED
      BY <1>2, <3>1, <3>2
  <2> QED
    BY <1>1, <1>2, <2>1, <2>2 DEF Order, Grounded
<1>4. Ranked'
  <2>1. ASSUME NEW i \in 1 .. m, NEW j \in 1 .. m, i < j, stack'[i].is = "rule"
        PROVE  \/ \E k \in i .. j - 1 : stack'[k].moved
               \/ Rank(stack'[j].rule) < Rank(stack'[i].rule)
               \/ stack'[j].is # "rule" /\ stack'[j].rule = stack'[i].rule
    <3>1. \/ \E k \in i .. j - 1 : stack[k].moved
          \/ Rank(stack[j].rule) < Rank(stack[i].rule)
          \/ stack[j].is # "rule" /\ stack[j].rule = stack[i].rule
      BY <1>2, <2>1 DEF Order, Ranked
    <3>2. \A k \in i .. j - 1 : k \in 1 .. m /\ k # m
      BY <1>1, <2>1
    <3> QED
      BY <1>2, <3>1, <3>2
  <2> QED
    BY <1>1, <2>1 DEF Ranked
<1> QED
  BY <1>3, <1>4 DEF Order

\* A frame that is pushed is of a lower rank, or of the rule at the top, or
\* pushed where that rule has taken a token.
LEMMA OrderPushed ==
    ASSUME Order, stack \in Seq(Frames), stack # <<>>, NEW n, n = Len(stack), NEW f, f = stack'[n + 1],
           Len(stack') = n + 1, \A i \in 1 .. n : Keeps(stack[i], stack'[i]),
           \A i \in 1 .. n : stack'[i].moved = stack[i].moved,
           ~f.moved, f.trail = <<>>, Trails',
           f.tried => f.is = "rule", f.is = "rule" => f.rule # "program",
           stack[n].rule = "program" => f.rule = "program" \/ f.tried,
           \/ f.is # "rule" /\ f.rule = stack[n].rule
           \/ f.is = "rule" /\ (Far(n) \/ Rank(f.rule) < Rank(stack[n].rule))
    PROVE  Order'
<1>1. n \in Nat /\ n # 0 /\ n \in 1 .. n
  OBVIOUS
<1>2. \A i \in 1 .. n : stack'[i].rule = stack[i].rule /\ stack'[i].tried = stack[i].tried
             /\ stack'[i].is = stack[i].is /\ stack'[i].moved = stack[i].moved
  BY DEF Keeps
<1>3. Grounded'
  <2>1. 1 \in 1 .. n
    BY <1>1
  <2>2. ASSUME NEW i \in 1 .. n + 1, stack'[i].rule # "program"
        PROVE  \E k \in 1 .. i : stack'[k].tried
    <3>1. CASE i \in 1 .. n
      <4>1. PICK k \in 1 .. i : stack[k].tried
        BY <1>2, <2>2, <3>1 DEF Order, Grounded
      <4>2. k \in 1 .. n
        BY <3>1
      <4> QED
        BY <1>2, <4>1, <4>2
    <3>2. CASE i = n + 1 /\ f.tried
      BY <1>1, <3>2
    <3>3. CASE i = n + 1 /\ stack[n].rule # "program"
      <4>1. PICK k \in 1 .. n : stack[k].tried
        BY <1>1, <3>3 DEF Order, Grounded
      <4> QED
        BY <1>1, <1>2, <4>1, <3>3
    <3> QED
      BY <2>2, <3>1, <3>2, <3>3
  <2>3. \A i \in 1 .. n + 1 : stack'[i].tried => stack'[i].is = "rule"
    <3> TAKE i \in 1 .. n + 1
    <3>1. CASE i \in 1 .. n
      BY <1>2, <3>1 DEF Order, Grounded
    <3>2. CASE i = n + 1
      BY <3>2
    <3> QED
      BY <1>1, <3>1, <3>2
  <2> QED
    BY <1>1, <1>2, <2>1, <2>2, <2>3 DEF Order, Grounded
<1>4. MovedBelow'
  <2>1. ASSUME NEW i \in 2 .. n + 1, stack'[i].moved, stack'[i].is # "attempt"
        PROVE  stack'[i - 1].moved
    <3>1. i # n + 1
      BY <2>1
    <3>2. i \in 1 .. n /\ i - 1 \in 1 .. n /\ i \in 2 .. Len(stack)
      BY <1>1, <3>1
    <3> QED
      BY <1>2, <2>1, <3>2 DEF Order, MovedBelow
  <2> QED
    BY <2>1 DEF MovedBelow
<1>5. Ranked'
  <2>1. ASSUME NEW i \in 1 .. n + 1, NEW j \in 1 .. n + 1, i < j, stack'[i].is = "rule"
        PROVE  \/ \E k \in i .. j - 1 : stack'[k].moved
               \/ Rank(stack'[j].rule) < Rank(stack'[i].rule)
               \/ stack'[j].is # "rule" /\ stack'[j].rule = stack'[i].rule
    <3>1. i \in 1 .. n /\ \A k \in i .. j - 1 : k \in 1 .. n
      BY <1>1, <2>1
    <3>2. CASE j \in 1 .. n
      <4>1. \/ \E k \in i .. j - 1 : stack[k].moved
            \/ Rank(stack[j].rule) < Rank(stack[i].rule)
            \/ stack[j].is # "rule" /\ stack[j].rule = stack[i].rule
        BY <1>2, <2>1, <3>1, <3>2 DEF Order, Ranked
      <4> QED
        BY <1>2, <3>1, <3>2, <4>1
    <3>3. CASE j = n + 1
      <4>1. \/ \E k \in i .. n - 1 : stack[k].moved
            \/ Rank(stack[n].rule) < Rank(stack[i].rule)
            \/ stack[n].rule = stack[i].rule
        <5>1. CASE i = n
          BY <5>1
        <5>2. CASE i # n
          <6>1. i < n /\ stack[i].is = "rule" /\ n \in 1 .. Len(stack) /\ i \in 1 .. Len(stack)
            BY <1>1, <1>2, <2>1, <3>1, <5>2
          <6> QED
            BY <6>1 DEF Order, Ranked
        <5> QED
          BY <5>1, <5>2
      <4>2. CASE \E k \in i .. n - 1 : stack[k].moved
        <5>1. PICK k \in i .. n - 1 : stack[k].moved
          BY <4>2
        <5>2. k \in i .. j - 1 /\ k \in 1 .. n
          BY <1>1, <3>1, <3>3
        <5> QED
          BY <1>2, <5>1, <5>2
      <4>3. CASE f.is = "rule" /\ Far(n)
        <5>1. PICK k \in 1 .. n : stack[k].moved /\ \A h \in k + 1 .. n : stack[h].is # "rule"
          BY <4>3 DEF Far
        <5>2. i <= k
          BY <1>1, <1>2, <2>1, <3>1, <5>1
        <5>3. k \in i .. j - 1
          BY <1>1, <3>1, <3>3, <5>2
        <5> QED
          BY <1>2, <5>1, <5>3
      <4>4. CASE /\ Rank(stack[n].rule) < Rank(stack[i].rule) \/ stack[n].rule = stack[i].rule
                 /\ f.is = "rule"
                 /\ Rank(f.rule) < Rank(stack[n].rule)
        <5>1. Rank(f.rule) \in Nat /\ Rank(stack[n].rule) \in Nat /\ Rank(stack[i].rule) \in Nat
          BY DEF Rank
        <5>2. Rank(f.rule) < Rank(stack[i].rule)
          BY <4>4, <5>1
        <5> QED
          BY <1>2, <3>1, <3>3, <5>2
      <4>5. CASE /\ Rank(stack[n].rule) < Rank(stack[i].rule) \/ stack[n].rule = stack[i].rule
                 /\ f.is # "rule"
                 /\ f.rule = stack[n].rule
        BY <1>2, <3>1, <3>3, <4>5
      <4> QED
        BY <4>1, <4>2, <4>3, <4>4, <4>5
    <3> QED
      BY <1>1, <3>2, <3>3
  <2> QED
    BY <1>1, <2>1 DEF Ranked
<1> QED
  BY <1>3, <1>4, <1>5 DEF Order

(***************************************************************************)
(* Brackets.                                                               *)
(***************************************************************************)
LEMMA NestSame ==
    ASSUME NEW w, NEW v, NEW i \in Nat, NEW o, Nest(w, i, o), \A k \in 1 .. i : v[k].opens = w[k].opens
    PROVE  Nest(v, i, o)
  BY DEF Nest

LEMMA Part ==
    ASSUME NEW S, NEW o \in Seq(S), NEW a \in Nat, NEW b \in Nat, a <= b, b <= Len(o)
    PROVE  /\ SubSeq(o, a + 1, b) \in Seq(S)
           /\ Len(SubSeq(o, a + 1, b)) = b - a
           /\ \A x \in 1 .. b - a : SubSeq(o, a + 1, b)[x] = o[a + x]
<1>1. \A x \in a + 1 .. b : o[x] \in S
  OBVIOUS
<1>2. /\ SubSeq(o, a + 1, b) \in Seq(S)
      /\ Len(SubSeq(o, a + 1, b)) = IF a + 1 <= b THEN b - (a + 1) + 1 ELSE 0
      /\ \A x \in 1 .. b - (a + 1) + 1 : SubSeq(o, a + 1, b)[x] = o[(a + 1) + x - 1]
  BY <1>1, SubSeqProperties, a + 1 \in Int, b \in Int
<1>3. b - (a + 1) + 1 = b - a /\ \A x \in 1 .. b - a : (a + 1) + x - 1 = a + x
  OBVIOUS
<1>4. \A x \in 1 .. b - a : SubSeq(o, a + 1, b)[x] = o[a + x]
  BY <1>2, <1>3
<1>5. Len(SubSeq(o, a + 1, b)) = b - a
  BY <1>2, <1>3
<1> QED
  BY <1>2, <1>4, <1>5

\* A part of the front of a sequence.
LEMMA PartOfFront ==
    ASSUME NEW S, NEW o \in Seq(S), NEW u \in Seq(S), NEW a \in Nat, NEW b \in Nat, a <= b, b <= Len(o),
           b <= Len(u), \A x \in 1 .. b : u[x] = o[x]
    PROVE  SubSeq(o, a + 1, b) = SubSeq(u, a + 1, b)
<1>1. \A x \in 1 .. b - a : a + x \in 1 .. b
  OBVIOUS
<1> QED
  BY <1>1, Part, SeqEqual

LEMMA Front ==
    ASSUME NEW S, NEW o \in Seq(S), o # <<>>
    PROVE  /\ SubSeq(o, 1, Len(o) - 1) \in Seq(S)
           /\ Len(SubSeq(o, 1, Len(o) - 1)) = Len(o) - 1
           /\ \A x \in 1 .. Len(o) - 1 : SubSeq(o, 1, Len(o) - 1)[x] = o[x]
<1>1. Len(o) - 1 \in Nat /\ \A x \in 1 .. Len(o) - 1 : o[x] \in S /\ 1 + x - 1 = x
  <2>1. Len(o) # 0
    OBVIOUS
  <2> QED
    BY <2>1
<1>2. /\ SubSeq(o, 1, Len(o) - 1) \in Seq(S)
      /\ Len(SubSeq(o, 1, Len(o) - 1)) = IF 1 <= Len(o) - 1 THEN (Len(o) - 1) - 1 + 1 ELSE 0
      /\ \A x \in 1 .. (Len(o) - 1) - 1 + 1 : SubSeq(o, 1, Len(o) - 1)[x] = o[1 + x - 1]
  BY <1>1, SubSeqProperties, 1 \in Int, Len(o) - 1 \in Int
<1>3. (Len(o) - 1) - 1 + 1 = Len(o) - 1
  BY <1>1
<1>4. Len(SubSeq(o, 1, Len(o) - 1)) = Len(o) - 1
  BY <1>1, <1>2, <1>3
<1>5. \A x \in 1 .. Len(o) - 1 : SubSeq(o, 1, Len(o) - 1)[x] = o[x]
  BY <1>1, <1>2, <1>3
<1> QED
  BY <1>2, <1>4, <1>5

LEMMA Appended ==
    ASSUME NEW S, NEW o \in Seq(S), NEW t \in S
    PROVE  /\ Append(o, t) \in Seq(S) /\ Len(Append(o, t)) = Len(o) + 1 /\ Append(o, t)[Len(o) + 1] = t
           /\ \A x \in 1 .. Len(o) : Append(o, t)[x] = o[x]
  BY AppendProperties

LEMMA AppendedIsFull ==
    ASSUME NEW S, NEW o \in Seq(S), NEW t \in S
    PROVE  Append(o, t) # <<>>
<1>1. Len(Append(o, t)) # Len(<<>>)
  BY Appended
<1> QED
  BY <1>1, Zenon

\* The end of a sequence that grows, and of one that loses its last element.
LEMMA PartGrows ==
    ASSUME NEW S, NEW o \in Seq(S), NEW a \in Nat, a <= Len(o), NEW t \in S
    PROVE  Append(SubSeq(o, a + 1, Len(o)), t) = SubSeq(Append(o, t), a + 1, Len(o) + 1)
<1> DEFINE u == Append(o, t)
           e == SubSeq(o, a + 1, Len(o))
           f == Append(e, t)
           g == SubSeq(u, a + 1, Len(o) + 1)
<1>1. e \in Seq(S) /\ Len(e) = Len(o) - a /\ \A x \in 1 .. Len(o) - a : e[x] = o[a + x]
  BY Part
<1>2. u \in Seq(S) /\ Len(u) = Len(o) + 1 /\ u[Len(o) + 1] = t /\ \A x \in 1 .. Len(o) : u[x] = o[x]
  BY Appended
<1> HIDE DEF e, u
<1>3. f \in Seq(S) /\ Len(f) = Len(e) + 1 /\ f[Len(e) + 1] = t /\ \A x \in 1 .. Len(e) : f[x] = e[x]
  BY <1>1, Appended
<1>4. g \in Seq(S) /\ Len(g) = (Len(o) + 1) - a /\ \A x \in 1 .. (Len(o) + 1) - a : g[x] = u[a + x]
  <2>1. Len(o) + 1 \in Nat /\ a <= Len(o) + 1 /\ Len(o) + 1 <= Len(u)
    BY <1>2
  <2> QED
    BY <1>2, <2>1, Part
<1> HIDE DEF f, g
<1>5. Len(f) = Len(g)
  BY <1>1, <1>3, <1>4
<1>6. ASSUME NEW x \in 1 .. Len(f)
      PROVE  f[x] = g[x]
  <2>1. CASE x = Len(e) + 1
    <3>1. a + x = Len(o) + 1 /\ x \in 1 .. (Len(o) + 1) - a
      BY <1>1, <2>1
    <3> QED
      BY <1>2, <1>3, <1>4, <2>1, <3>1
  <2>2. CASE x # Len(e) + 1
    <3>1. x \in 1 .. Len(e) /\ x \in 1 .. (Len(o) + 1) - a /\ x \in 1 .. Len(o) - a /\ a + x \in 1 .. Len(o)
      BY <1>1, <1>3, <2>2
    <3> QED
      BY <1>1, <1>2, <1>3, <1>4, <3>1
  <2> QED
    BY <2>1, <2>2
<1>7. f = g
  BY <1>3, <1>4, <1>5, <1>6, SeqEqual
<1> QED
  BY <1>7 DEF e, f, g, u

LEMMA PartShrinks ==
    ASSUME NEW S, NEW o \in Seq(S), NEW a \in Nat, a <= Len(o), SubSeq(o, a + 1, Len(o)) # <<>>
    PROVE  /\ a < Len(o) /\ o # <<>>
           /\ o[Len(o)] = SubSeq(o, a + 1, Len(o))[Len(SubSeq(o, a + 1, Len(o)))]
           /\ SubSeq(SubSeq(o, a + 1, Len(o)), 1, Len(SubSeq(o, a + 1, Len(o))) - 1)
                = SubSeq(SubSeq(o, 1, Len(o) - 1), a + 1, Len(o) - 1)
<1> DEFINE e == SubSeq(o, a + 1, Len(o))
           u == SubSeq(o, 1, Len(o) - 1)
<1>1. e \in Seq(S) /\ Len(e) = Len(o) - a /\ \A x \in 1 .. Len(o) - a : e[x] = o[a + x]
  BY Part
<1>2. a < Len(o) /\ o # <<>>
  <2>1. Len(e) # 0
    BY <1>1
  <2>2. Len(o) # 0
    BY <1>1, <2>1
  <2> QED
    BY <1>1, <2>1, <2>2
<1>3. o[Len(o)] = e[Len(e)]
  <2>1. Len(e) \in 1 .. Len(o) - a /\ a + Len(e) = Len(o)
    BY <1>1, <1>2
  <2> QED
    BY <1>1, <2>1
<1>4. u \in Seq(S) /\ Len(u) = Len(o) - 1 /\ \A x \in 1 .. Len(o) - 1 : u[x] = o[x]
  BY <1>2, Front
<1> DEFINE f == SubSeq(e, 1, Len(e) - 1)
           g == SubSeq(u, a + 1, Len(o) - 1)
<1>5. f \in Seq(S) /\ Len(f) = Len(e) - 1 /\ \A x \in 1 .. Len(e) - 1 : f[x] = e[x]
  BY <1>1, Front
<1>6. g \in Seq(S) /\ Len(g) = (Len(o) - 1) - a /\ \A x \in 1 .. (Len(o) - 1) - a : g[x] = u[a + x]
  <2>1. Len(o) - 1 \in Nat /\ a <= Len(o) - 1 /\ Len(o) - 1 <= Len(u)
    BY <1>2, <1>4
  <2> QED
    BY <1>4, <2>1, Part
<1> HIDE DEF f, g
<1>7. Len(f) = Len(g)
  BY <1>1, <1>5, <1>6
<1>8. ASSUME NEW x \in 1 .. Len(f)
      PROVE  f[x] = g[x]
  <2>1. x \in 1 .. Len(e) - 1 /\ x \in 1 .. Len(o) - a /\ x \in 1 .. (Len(o) - 1) - a /\ a + x \in 1 .. Len(o) - 1
    BY <1>1, <1>5
  <2> QED
    BY <1>1, <1>4, <1>5, <1>6, <2>1
<1>9. f = g
  BY <1>5, <1>6, <1>7, <1>8, SeqEqual
<1> QED
  BY <1>2, <1>3, <1>9 DEF f, g, e, u

\* A frame that has opened nothing.
LEMMA NestUp ==
    ASSUME NEW S, NEW w, NEW i \in Nat \ {0}, NEW o \in Seq(S), Nest(w, i - 1, o), w[i].opens = <<>>
    PROVE  Nest(w, i, o)
<1>1. PICK c \in [0 .. i - 1 -> Nat] :
        /\ c[0] = 0 /\ c[i - 1] = Len(o)
        /\ \A k, l \in 0 .. i - 1 : k <= l => c[k] <= c[l]
        /\ \A k \in 1 .. i - 1 : w[k].opens = SubSeq(o, c[k - 1] + 1, c[k])
  BY DEF Nest
<1> DEFINE d == [k \in 0 .. i |-> IF k = i THEN Len(o) ELSE c[k]]
<1>2. \A k \in 0 .. i - 1 : c[k] \in Nat /\ c[k] <= Len(o)
  <2>1. i - 1 \in 0 .. i - 1 /\ \A k \in 0 .. i - 1 : k <= i - 1
    OBVIOUS
  <2> QED
    BY <1>1, <2>1
<1>3. d \in [0 .. i -> Nat] /\ d[0] = 0 /\ d[i] = Len(o)
  BY <1>1
<1>4. \A k, l \in 0 .. i : k <= l => d[k] <= d[l]
  <2> TAKE k, l \in 0 .. i
  <2> HAVE k <= l
  <2>1. CASE l = i
    BY <1>2, <2>1
  <2>2. CASE l # i
    <3>1. k \in 0 .. i - 1 /\ l \in 0 .. i - 1 /\ k # i
      BY <2>2
    <3> QED
      BY <1>1, <2>2, <3>1
  <2> QED
    BY <2>1, <2>2
<1>5. ASSUME NEW k \in 1 .. i
      PROVE  w[k].opens = SubSeq(o, d[k - 1] + 1, d[k])
  <2>1. CASE k = i
    <3>1. d[k - 1] = Len(o) /\ d[k] = Len(o)
      BY <1>1, <2>1
    <3>2. SubSeq(o, Len(o) + 1, Len(o)) = <<>>
      OBVIOUS
    <3> QED
      BY <2>1, <3>1, <3>2
  <2>2. CASE k # i
    <3>1. k \in 1 .. i - 1 /\ d[k - 1] = c[k - 1] /\ d[k] = c[k]
      BY <2>2
    <3> HIDE DEF d
    <3> QED
      BY <1>1, <3>1
  <2> QED
    BY <2>1, <2>2
<1> HIDE DEF d
<1> QED
  BY <1>3, <1>4, <1>5 DEF Nest

LEMMA NestDown ==
    ASSUME NEW S, NEW w, NEW i \in Nat \ {0}, NEW o \in Seq(S), Nest(w, i, o), w[i].opens = <<>>
    PROVE  Nest(w, i - 1, o)
<1>1. PICK c \in [0 .. i -> Nat] :
        /\ c[0] = 0 /\ c[i] = Len(o)
        /\ \A k, l \in 0 .. i : k <= l => c[k] <= c[l]
        /\ \A k \in 1 .. i : w[k].opens = SubSeq(o, c[k - 1] + 1, c[k])
  BY DEF Nest
<1>2. c[i - 1] \in Nat /\ c[i - 1] <= Len(o) /\ w[i].opens = SubSeq(o, c[i - 1] + 1, Len(o))
      /\ \A k \in 0 .. i - 1 : c[k] \in Nat /\ c[k] <= c[i - 1]
  <2>1. i \in 1 .. i /\ i \in 0 .. i /\ i - 1 \in 0 .. i /\ i - 1 <= i
        /\ \A k \in 0 .. i - 1 : k \in 0 .. i /\ k <= i - 1
    OBVIOUS
  <2> QED
    BY <1>1, <2>1
<1>3. c[i - 1] = Len(o)
  <2>1. Len(SubSeq(o, c[i - 1] + 1, Len(o))) = 0
    BY <1>2
  <2> QED
    BY <1>2, <2>1
<1> DEFINE d == [k \in 0 .. i - 1 |-> c[k]]
<1>4. d \in [0 .. i - 1 -> Nat] /\ d[0] = 0 /\ d[i - 1] = Len(o)
  <2>1. 0 \in 0 .. i - 1 /\ i - 1 \in 0 .. i - 1 /\ \A k \in 0 .. i - 1 : k \in 0 .. i
    OBVIOUS
  <2>2. \A k \in 0 .. i - 1 : c[k] \in Nat
    BY <2>1
  <2> QED
    BY <1>1, <1>3, <2>1, <2>2
<1>5. \A k, l \in 0 .. i - 1 : k <= l => d[k] <= d[l]
  BY <1>1
<1>6. \A k \in 1 .. i - 1 : d[k - 1] = c[k - 1] /\ d[k] = c[k] /\ k \in 1 .. i
  OBVIOUS
<1> HIDE DEF d
<1> QED
  BY <1>1, <1>4, <1>5, <1>6 DEF Nest

\* The frame on top opens a bracket.
LEMMA NestOpens ==
    ASSUME NEW S, NEW w, NEW v, NEW i \in Nat \ {0}, NEW o \in Seq(S), NEW t \in S, Nest(w, i, o),
           \A k \in 1 .. i - 1 : v[k].opens = w[k].opens, v[i].opens = Append(w[i].opens, t)
    PROVE  Nest(v, i, Append(o, t))
<1>1. PICK c \in [0 .. i -> Nat] :
        /\ c[0] = 0 /\ c[i] = Len(o)
        /\ \A k, l \in 0 .. i : k <= l => c[k] <= c[l]
        /\ \A k \in 1 .. i : w[k].opens = SubSeq(o, c[k - 1] + 1, c[k])
  BY DEF Nest
<1>2. c[i - 1] \in Nat /\ c[i - 1] <= Len(o) /\ w[i].opens = SubSeq(o, c[i - 1] + 1, Len(o))
      /\ \A k \in 0 .. i - 1 : c[k] \in Nat /\ c[k] <= c[i - 1]
  <2>1. i \in 1 .. i /\ i \in 0 .. i /\ i - 1 \in 0 .. i /\ i - 1 <= i
        /\ \A k \in 0 .. i - 1 : k \in 0 .. i /\ k <= i - 1
    OBVIOUS
  <2> QED
    BY <1>1, <2>1
<1> DEFINE d == [k \in 0 .. i |-> IF k = i THEN Len(o) + 1 ELSE c[k]]
           u == Append(o, t)
<1>3. d \in [0 .. i -> Nat] /\ d[0] = 0 /\ d[i] = Len(u) /\ u \in Seq(S) /\ Len(u) = Len(o) + 1
  BY <1>1
<1>4. \A k, l \in 0 .. i : k <= l => d[k] <= d[l]
  <2> TAKE k, l \in 0 .. i
  <2> HAVE k <= l
  <2>1. CASE l = i
    <3>1. d[l] = Len(o) + 1 /\ (d[k] = Len(o) + 1 \/ (k \in 0 .. i - 1 /\ d[k] = c[k]))
      BY <2>1
    <3> QED
      BY <1>2, <3>1
  <2>2. CASE l # i
    <3>1. k \in 0 .. i - 1 /\ l \in 0 .. i - 1 /\ k # i
      BY <2>2
    <3> QED
      BY <1>1, <2>2, <3>1
  <2> QED
    BY <2>1, <2>2
<1>5. ASSUME NEW k \in 1 .. i
      PROVE  v[k].opens = SubSeq(u, d[k - 1] + 1, d[k])
  <2>1. CASE k = i
    <3>1. d[k - 1] = c[i - 1] /\ d[k] = Len(o) + 1
      BY <2>1
    <3>2. Append(SubSeq(o, c[i - 1] + 1, Len(o)), t) = SubSeq(u, c[i - 1] + 1, Len(o) + 1)
      BY <1>2, PartGrows
    <3> QED
      BY <1>2, <2>1, <3>1, <3>2
  <2>2. CASE k # i
    <3>1. k \in 1 .. i - 1 /\ d[k - 1] = c[k - 1] /\ d[k] = c[k] /\ k \in 0 .. i - 1 /\ k - 1 \in 0 .. i - 1
      BY <2>2
    <3>2. v[k].opens = SubSeq(o, c[k - 1] + 1, c[k]) /\ c[k] \in Nat /\ c[k - 1] \in Nat /\ c[k] <= Len(o)
          /\ c[k - 1] <= c[k]
      <4>1. k \in 0 .. i /\ k - 1 \in 0 .. i /\ k - 1 <= k
        OBVIOUS
      <4>2. c[k] \in Nat /\ c[k - 1] \in Nat /\ c[k] <= Len(o)
        BY <1>2, <3>1
      <4> HIDE DEF d, u
      <4> QED
        BY <1>1, <3>1, <4>1, <4>2
    <3>3. SubSeq(o, c[k - 1] + 1, c[k]) = SubSeq(u, c[k - 1] + 1, c[k])
      <4>1. c[k] <= Len(u) /\ \A x \in 1 .. c[k] : u[x] = o[x]
        BY <1>3, <3>2, AppendProperties
      <4> DEFINE a == c[k - 1]
                 b == c[k]
      <4>2. a \in Nat /\ b \in Nat /\ a <= b /\ b <= Len(o) /\ b <= Len(u) /\ \A x \in 1 .. b : u[x] = o[x]
        BY <3>2, <4>1
      <4>3. u \in Seq(S)
        BY <1>3
      <4> HIDE DEF a, b, d, u
      <4>4. SubSeq(o, a + 1, b) = SubSeq(u, a + 1, b)
        BY <4>2, <4>3, PartOfFront
      <4> QED
        BY <4>4 DEF a, b
    <3> QED
      BY <3>1, <3>2, <3>3
  <2> QED
    BY <2>1, <2>2
<1> HIDE DEF d, u
<1>6. Nest(v, i, u)
  BY <1>3, <1>4, <1>5 DEF Nest
<1> QED
  BY <1>6 DEF u

\* And closes one.
LEMMA NestCloses ==
    ASSUME NEW S, NEW w, NEW v, NEW i \in Nat \ {0}, NEW o \in Seq(S), Nest(w, i, o),
           w[i].opens \in Seq(S), w[i].opens # <<>>,
           \A k \in 1 .. i - 1 : v[k].opens = w[k].opens,
           v[i].opens = SubSeq(w[i].opens, 1, Len(w[i].opens) - 1)
    PROVE  /\ o # <<>> /\ o[Len(o)] = w[i].opens[Len(w[i].opens)]
           /\ Nest(v, i, SubSeq(o, 1, Len(o) - 1))
<1>1. PICK c \in [0 .. i -> Nat] :
        /\ c[0] = 0 /\ c[i] = Len(o)
        /\ \A k, l \in 0 .. i : k <= l => c[k] <= c[l]
        /\ \A k \in 1 .. i : w[k].opens = SubSeq(o, c[k - 1] + 1, c[k])
  BY DEF Nest
<1>2. c[i - 1] \in Nat /\ c[i - 1] <= Len(o) /\ w[i].opens = SubSeq(o, c[i - 1] + 1, Len(o))
      /\ \A k \in 0 .. i - 1 : c[k] \in Nat /\ c[k] <= c[i - 1]
  <2>1. i \in 1 .. i /\ i \in 0 .. i /\ i - 1 \in 0 .. i /\ i - 1 <= i
        /\ \A k \in 0 .. i - 1 : k \in 0 .. i /\ k <= i - 1
    OBVIOUS
  <2> QED
    BY <1>1, <2>1
<1> DEFINE d == [k \in 0 .. i |-> IF k = i THEN Len(o) - 1 ELSE c[k]]
           u == SubSeq(o, 1, Len(o) - 1)
<1>3. /\ c[i - 1] < Len(o) /\ o # <<>> /\ o[Len(o)] = w[i].opens[Len(w[i].opens)]
      /\ u \in Seq(S) /\ Len(u) = Len(o) - 1 /\ \A x \in 1 .. Len(o) - 1 : u[x] = o[x]
      /\ v[i].opens = SubSeq(u, c[i - 1] + 1, Len(o) - 1)
  <2> DEFINE a == c[i - 1]
             e == w[i].opens
  <2>1. a \in Nat /\ a <= Len(o) /\ e = SubSeq(o, a + 1, Len(o)) /\ e # <<>>
    BY <1>2
  <2>2. u = SubSeq(o, 1, Len(o) - 1) /\ v[i].opens = SubSeq(e, 1, Len(e) - 1)
    OBVIOUS
  <2> HIDE DEF a, e, u, d
  <2>3. a < Len(o) /\ o # <<>> /\ o[Len(o)] = e[Len(e)] /\ SubSeq(e, 1, Len(e) - 1) = SubSeq(u, a + 1, Len(o) - 1)
    BY <2>1, <2>2, PartShrinks
  <2>4. u \in Seq(S) /\ Len(u) = Len(o) - 1 /\ \A x \in 1 .. Len(o) - 1 : u[x] = o[x]
    BY <2>2, <2>3, Front
  <2> QED
    BY <2>2, <2>3, <2>4 DEF a, e
<1>4. Len(o) \in Nat /\ Len(o) # 0 /\ Len(o) - 1 \in Nat
  BY <1>3
<1>6. d \in [0 .. i -> Nat] /\ d[0] = 0 /\ d[i] = Len(u)
  <2>1. 0 \in 0 .. i /\ i \in 0 .. i
    OBVIOUS
  <2> HIDE DEF u
  <2> QED
    BY <1>1, <1>3, <1>4, <2>1
<1>7. \A k, l \in 0 .. i : k <= l => d[k] <= d[l]
  <2> TAKE k, l \in 0 .. i
  <2> HAVE k <= l
  <2>1. CASE l = i
    <3>1. d[l] = Len(o) - 1 /\ (d[k] = Len(o) - 1 \/ (k \in 0 .. i - 1 /\ d[k] = c[k]))
      BY <2>1
    <3>2. d[k] <= Len(o) - 1
      <4>1. ASSUME k \in 0 .. i - 1
            PROVE  c[k] <= Len(o) - 1
        <5>1. c[k] \in Nat /\ c[i - 1] \in Nat /\ c[k] <= c[i - 1] /\ c[i - 1] < Len(o)
          BY <1>2, <1>3, <4>1
        <5> QED
          BY <1>4, <5>1
      <4> HIDE DEF d
      <4> QED
        BY <1>4, <3>1, <4>1
    <3> QED
      BY <3>1, <3>2
  <2>2. CASE l # i
    <3>1. k \in 0 .. i - 1 /\ l \in 0 .. i - 1 /\ k # i
      BY <2>2
    <3> QED
      BY <1>1, <2>2, <3>1
  <2> QED
    BY <2>1, <2>2
<1>8. ASSUME NEW k \in 1 .. i
      PROVE  v[k].opens = SubSeq(u, d[k - 1] + 1, d[k])
  <2>1. CASE k = i
    <3>1. d[k - 1] = c[i - 1] /\ d[k] = Len(o) - 1
      BY <2>1
    <3> QED
      BY <1>3, <2>1, <3>1
  <2>2. CASE k # i
    <3>1. k \in 1 .. i - 1 /\ d[k - 1] = c[k - 1] /\ d[k] = c[k] /\ k \in 0 .. i - 1 /\ k - 1 \in 0 .. i - 1
      BY <2>2
    <3>2. v[k].opens = SubSeq(o, c[k - 1] + 1, c[k]) /\ c[k] \in Nat /\ c[k - 1] \in Nat /\ c[k] < Len(o)
          /\ c[k - 1] <= c[k]
      <4>1. k \in 0 .. i /\ k - 1 \in 0 .. i /\ k - 1 <= k
        OBVIOUS
      <4>2. c[k] \in Nat /\ c[k - 1] \in Nat /\ c[k] < Len(o)
        <5>1. c[k] \in Nat /\ c[k - 1] \in Nat /\ c[i - 1] \in Nat /\ c[k] <= c[i - 1] /\ c[i - 1] < Len(o)
          BY <1>2, <1>3, <3>1
        <5> QED
          BY <1>4, <5>1
      <4> HIDE DEF d, u
      <4> QED
        BY <1>1, <3>1, <4>1, <4>2
    <3>3. SubSeq(o, c[k - 1] + 1, c[k]) = SubSeq(u, c[k - 1] + 1, c[k])
      <4>1. c[k] <= Len(u) /\ c[k] <= Len(o) /\ \A x \in 1 .. c[k] : u[x] = o[x]
        <5> HIDE DEF u
        <5>1. c[k] <= Len(o) - 1 /\ c[k] \in Nat
          BY <1>4, <3>2
        <5>2. \A x \in 1 .. c[k] : x \in 1 .. Len(o) - 1
          BY <1>4, <5>1
        <5>3. \A x \in 1 .. c[k] : u[x] = o[x]
          BY <1>3, <5>2
        <5>4. c[k] <= Len(u) /\ c[k] <= Len(o)
          <6>1. Len(u) = Len(o) - 1 /\ Len(o) \in Nat
            BY <1>3, <1>4
          <6> QED
            BY <5>1, <6>1
        <5> QED
          BY <5>3, <5>4
      <4> DEFINE a == c[k - 1]
                 b == c[k]
      <4>2. a \in Nat /\ b \in Nat /\ a <= b /\ b <= Len(o) /\ b <= Len(u) /\ \A x \in 1 .. b : u[x] = o[x]
        BY <3>2, <4>1
      <4>3. u \in Seq(S)
        BY <1>3
      <4> HIDE DEF a, b, d, u
      <4>4. SubSeq(o, a + 1, b) = SubSeq(u, a + 1, b)
        BY <4>2, <4>3, PartOfFront
      <4> QED
        BY <4>4 DEF a, b
    <3> QED
      BY <3>1, <3>2, <3>3
  <2> QED
    BY <2>1, <2>2
<1> HIDE DEF d, u
<1>9. Nest(v, i, u)
  BY <1>6, <1>7, <1>8 DEF Nest
<1> QED
  BY <1>3, <1>9 DEF u

LEMMA NestedNew ==
    ASSUME NEW w \in Seq(Paths), Linked(w), Nested(w), NEW m \in 1 .. Len(stack) + 1, NEW q \in Paths, Lower(m),
           stack \in Seq(Frames), ~errors' /\ ~tainted' => Nest(NewTop(w, m, q), m, open'),
           stack'[m].is = "attempt" /\ ~stack'[m].saved[1] /\ ~stack'[m].saved[3]
             => Nest(w, m - 1, stack'[m].saved[2])
    PROVE  Nested(NewTop(w, m, q))'
<1> DEFINE v == NewTop(w, m, q)
<1>1. v \in Seq(Paths) /\ Len(v) = m /\ v[m] = q /\ \A i \in 1 .. m - 1 : v[i] = w[i]
  BY NewTopIs DEF Linked
<1>2. Len(stack') = m /\ m \in Nat /\ m # 0 /\ Len(stack) \in Nat
  BY DEF Lower
<1>3. ~errors' /\ ~tainted' => Nest(v, m, open')
  OBVIOUS
<1> HIDE DEF v
<1>4. ASSUME NEW i \in 1 .. m, stack'[i].is = "attempt" /\ ~stack'[i].saved[1] /\ ~stack'[i].saved[3]
      PROVE  Nest(v, i - 1, stack'[i].saved[2])
  <2>1. Nest(w, i - 1, stack'[i].saved[2])
    <3>1. CASE i = m
      BY <1>4, <3>1
    <3>2. CASE i # m
      <4>1. i \in 1 .. m - 1 /\ i \in 1 .. Len(stack)
        BY <1>2, <3>2
      <4>2. stack[i].is = "attempt" /\ stack[i].saved = stack'[i].saved
        BY <1>4, <4>1 DEF Lower, Keeps
      <4> QED
        BY <1>4, <4>1, <4>2 DEF Nested
    <3> QED
      BY <3>1, <3>2
  <2>2. i - 1 \in Nat /\ \A k \in 1 .. i - 1 : v[k].opens = w[k].opens
    <3>1. i - 1 \in Nat /\ \A k \in 1 .. i - 1 : k \in 1 .. m - 1
      BY <1>2
    <3> QED
      BY <1>1, <3>1
  <2> QED
    BY <2>1, <2>2, NestSame
<1> QED
  BY <1>2, <1>3, <1>4 DEF Nested, v

(***************************************************************************)
(* The frame on top.                                                       *)
(***************************************************************************)
LEMMA OnTop ==
    ASSUME GrammarIsSound, TypeOK, NEW w \in Seq(Paths), Fit(w), stack # <<>>
    PROVE  /\ Len(stack) \in Nat /\ Len(stack) # 0 /\ Len(stack) \in 1 .. Len(stack)
           /\ Len(w) = Len(stack)
           /\ w[Len(stack)] \in Paths
           /\ Mirrors(w[Len(stack)], Top) /\ w[Len(stack)].code = Top.code
           /\ Top = stack[Len(stack)] /\ Top \in Frames
           /\ Sure(w[Len(stack)], Len(stack)) /\ Seen(w[Len(stack)])
           /\ Sound(w[Len(stack)])
           /\ w[Len(stack)].code \in Seq(Items)
<1>1. Len(stack) \in Nat /\ Len(stack) # 0 /\ Len(stack) \in 1 .. Len(stack) /\ Len(w) = Len(stack)
  BY DEF TypeOK, Fit, Linked
<1>2. w[Len(stack)] \in Paths /\ stack[Len(stack)] \in Frames
  BY <1>1 DEF TypeOK
<1>3. Mirrors(w[Len(stack)], Top) /\ w[Len(stack)].code = Top.code
  BY <1>1 DEF Fit, Linked, Top
<1>4. Sure(w[Len(stack)], Len(stack)) /\ Seen(w[Len(stack)])
  BY <1>1 DEF Fit, Certain
<1>5. Sound(w[Len(stack)]) /\ w[Len(stack)].code \in Seq(Items)
  BY <1>2, PathsComplete, PathForm
<1> QED
  BY <1>1, <1>2, <1>3, <1>4, <1>5 DEF Top

\* What is open stays open, as long as it is accounted for.
Kept(q, p) ==
  /\ errors' \in BOOLEAN /\ open' \in Seq(Texts) /\ tainted' \in BOOLEAN
  /\ ~errors' /\ ~tainted' => ~errors /\ ~tainted /\ open' = open /\ q.opens = p.opens

\* The frame on top goes on, with no token taken.
LEMMA Continue ==
    ASSUME GrammarIsSound, TypeOK, Order, NEW w \in Seq(Paths), Fit(w), stack # <<>>, NEW n, n = Len(stack),
           NEW g \in Frames, stack' = [stack EXCEPT ![n] = g],
           g.is = stack[n].is, g.rule = stack[n].rule, g.body = stack[n].body, g.tried = stack[n].tried,
           g.trail = stack[n].trail, g.saved = stack[n].saved, g.moved => stack[n].moved,
           NEW q \in Paths, q.is = w[n].is, q.rule = w[n].rule, q.body = w[n].body, q.code = g.code,
           Kept(q, w[n]), Sure(q, n)', Seen(q)', alphabet' = alphabet, look' = look
    PROVE  Follows'
<1>1. n \in Nat /\ n # 0 /\ n \in 1 .. n /\ Len(w) = n /\ Mirrors(w[n], stack[n]) /\ stack \in Seq(Frames)
  BY OnTop DEF Top, TypeOK
<1>2. /\ stack' \in Seq(Frames) /\ Len(stack') = n /\ stack'[n] = g
      /\ \A i \in 1 .. n - 1 : stack'[i] = stack[i]
  BY <1>1
<1>3. Lower(n) /\ Resumes(stack[n], stack'[n])
  BY <1>2 DEF Lower, Keeps, Resumes
<1>4. TypeOK'
  <2>1. \A i \in 1 .. n : stack[i].is = "attempt" => stack[i].saved \in Histories
    BY DEF TypeOK
  <2>2. \A i \in 1 .. n : stack'[i].is = "attempt" => stack'[i].saved \in Histories
    <3> TAKE i \in 1 .. n
    <3>1. CASE i = n
      <4>1. stack[n].is = "attempt" => stack[n].saved \in Histories
        BY <1>1, <2>1
      <4>2. stack'[i].is = stack[n].is /\ stack'[i].saved = stack[n].saved
        BY <1>2, <3>1
      <4> QED
        BY <4>1, <4>2
    <3>2. CASE i # n
      <4>1. stack'[i] = stack[i]
        BY <1>1, <1>2, <3>2
      <4> QED
        BY <2>1, <4>1
    <3> QED
      BY <3>1, <3>2
  <2>3. errors' \in BOOLEAN /\ open' \in Seq(Texts) /\ tainted' \in BOOLEAN
    BY DEF Kept
  <2>4. alphabet' \subseteq Texts /\ look' \in Seq(Tokens)
    BY DEF TypeOK
  <2> QED
    BY <1>2, <2>2, <2>3, <2>4 DEF TypeOK
<1>5. MovedBelow' /\ Trails'
  <2>1. \A i \in 1 .. n : stack'[i].is = stack[i].is /\ stack'[i].trail = stack[i].trail
                          /\ (stack'[i].moved => stack[i].moved) /\ (i # n => stack'[i].moved = stack[i].moved)
    BY <1>1, <1>2
  <2>2. \A i \in 2 .. n : i \in 1 .. n /\ i - 1 \in 1 .. n /\ i - 1 # n
    BY <1>1
  <2> QED
    BY <1>2, <2>1, <2>2 DEF Order, MovedBelow, Trails
<1>6. Order'
  BY <1>1, <1>3, <1>5, OrderKept
<1> DEFINE v == NewTop(w, n, q)
<1>7. v \in Seq(Paths) /\ Len(v) = n /\ v[n] = q /\ \A i \in 1 .. n - 1 : v[i] = w[i]
  <2>1. n \in 1 .. Len(w) + 1
    BY <1>1
  <2> QED
    BY <2>1, NewTopIs
<1>8. Linked(v)'
  <2>1. \A i \in 1 .. n - 1 : stack'[i].code = stack[i].code
    BY <1>2
  <2>2. n > 1 => Suspends(w[n - 1], stack'[n - 1], stack'[n])
    BY <1>1, <1>3, <2>1, ResumesSuspended DEF Fit
  <2>3. Mirrors(q, stack'[n]) /\ q.code = stack'[n].code
    BY <1>1, <1>2 DEF Mirrors
  <2>4. \A i \in 1 .. n - 2 : stack'[i].code = stack[i].code
    BY <1>1, <2>1
  <2> QED
    BY <1>1, <1>2, <1>3, <2>2, <2>3, <2>4, LinkedNew DEF Fit
<1>9. Certain(v)'
  BY <1>1, <1>3, CertainNew DEF Fit
<1>10. Awaited(v)'
  <2>1. Alive => Alive'
    BY DEF Alive
  <2>2. \A h \in n + 1 .. Len(stack) : stack[h].is # "attempt"
    BY <1>1
  <2>3. stack'[n].is = stack[n].is /\ stack'[n].trail = stack[n].trail
    BY <1>2
  <2> QED
    BY <1>1, <1>3, <2>1, <2>2, <2>3, AwaitedKept DEF Fit
<1>11. Nested(v)'
  <2>1. ~errors' /\ ~tainted' => Nest(v, n, open')
    <3> SUFFICES ASSUME ~errors', ~tainted' PROVE Nest(v, n, open')
      OBVIOUS
    <3>0. ~errors /\ ~tainted /\ open' = open /\ q.opens = w[n].opens
      BY DEF Kept
    <3>1. Nest(w, n, open) /\ open' = open
      BY <3>0 DEF Fit, Nested
    <3>2. \A k \in 1 .. n : v[k].opens = w[k].opens
      BY <1>1, <1>7, <3>0
    <3> HIDE DEF v
    <3> QED
      BY <1>1, <3>1, <3>2, NestSame
  <2>2. stack'[n].is = "attempt" /\ ~stack'[n].saved[1] /\ ~stack'[n].saved[3]
             => Nest(w, n - 1, stack'[n].saved[2])
    <3>1. stack'[n].is = stack[n].is /\ stack'[n].saved = stack[n].saved /\ n \in 1 .. Len(stack)
      BY <1>1, <1>2
    <3> QED
      BY <3>1 DEF Fit, Nested
  <2> QED
    BY <1>1, <1>3, <2>1, <2>2, NestedNew DEF Fit
<1>12. Fit(v)'
  <2> HIDE DEF v
  <2> QED
    BY <1>2, <1>7, <1>8, <1>9, <1>10, <1>11 DEF Fit
<1> QED
  BY <1>4, <1>6, <1>7, <1>12 DEF Follows

(***************************************************************************)
(* The least and the greatest of a set of naturals.                        *)
(***************************************************************************)
LEMMA MaxIs ==
    ASSUME NEW S \in SUBSET Nat, NEW n \in S, \A i \in S : i <= n
    PROVE  Max(S) = n
<1>1. \E x \in S : \A y \in S : x >= y
  OBVIOUS
<1>2. Max(S) \in S /\ \A y \in S : Max(S) >= y
  BY <1>1 DEF Max
<1>3. Max(S) >= n /\ n >= Max(S) /\ Max(S) \in Nat /\ n \in Nat
  BY <1>2
<1> QED
  BY <1>3

\* Every set of naturals up to a bound has a greatest element.
LEMMA GreatestUpTo ==
    ASSUME NEW n \in Nat, NEW S \in SUBSET (0 .. n), S # {}
    PROVE  Max(S) \in S /\ \A y \in S : y <= Max(S)
<1> DEFINE R == {ss \in Nat \X Nat : ss[1] < ss[2]}
           T == {k \in Nat : n - k \in S}
<1>1. IsWellFoundedOn(R, Nat)
  BY NatLessThanWellFounded DEF OpToRel
<1>2. \A x, y \in Nat : <<x, y>> \in R <=> x < y
  OBVIOUS
<1>3. T \in SUBSET Nat /\ T # {}
  <2>1. PICK x \in S : TRUE
    OBVIOUS
  <2>2. x \in 0 .. n
    OBVIOUS
  <2>3. n - x \in Nat /\ n - (n - x) = x
    BY <2>2
  <2> QED
    BY <2>1, <2>3
<1> HIDE DEF R
<1>4. PICK k \in T : \A y \in T : ~ (<<y, k>> \in R)
  <2> HIDE DEF T
  <2> QED
    BY <1>1, <1>3, WFMin
<1>5. \A y \in T : k <= y
  <2> HIDE DEF T
  <2> TAKE y \in T
  <2>1. y \in Nat /\ k \in Nat /\ ~ (<<y, k>> \in R)
    BY <1>3, <1>4
  <2>2. ~ (y < k)
    BY <1>2, <2>1
  <2> QED
    BY <2>1, <2>2
<1>6. n - k \in S /\ k \in Nat
  BY <1>4
<1>7. \A y \in S : y <= n - k
  <2> TAKE y \in S
  <2>1. y \in Nat /\ n - y \in Nat /\ n - (n - y) = y
    OBVIOUS
  <2>2. n - y \in T
    BY <2>1
  <2> HIDE DEF T
  <2>3. k <= n - y
    BY <1>5, <2>2
  <2> QED
    BY <1>6, <2>1, <2>3
<1> DEFINE m == n - k
<1>8. m \in S /\ \A y \in S : y <= m
  BY <1>6, <1>7
<1> HIDE DEF m
<1>9. Max(S) = m
  BY <1>8, MaxIs
<1> QED
  BY <1>8, <1>9

LEMMA LeastOf ==
    ASSUME NEW S \in SUBSET Nat, S # {}
    PROVE  Min(S) \in S /\ \A y \in S : Min(S) <= y
<1> DEFINE R == {ss \in Nat \X Nat : ss[1] < ss[2]}
<1>1. IsWellFoundedOn(R, Nat)
  BY NatLessThanWellFounded DEF OpToRel
<1>2. \A x, y \in Nat : <<x, y>> \in R <=> x < y
  OBVIOUS
<1> HIDE DEF R
<1>3. PICK k \in S : \A y \in S : ~ (<<y, k>> \in R)
  BY <1>1, WFMin
<1>4. \A y \in S : k <= y
  <2> TAKE y \in S
  <2>1. y \in Nat /\ k \in Nat /\ ~ (<<y, k>> \in R)
    BY <1>3
  <2>2. ~ (y < k)
    BY <1>2, <2>1
  <2> QED
    BY <2>1, <2>2
<1> QED
  BY <1>3, <1>4 DEF Min

(***************************************************************************)
(* The tokens that were looked at.                                         *)
(***************************************************************************)
LEMMA TokIsString ==
    ASSUME look \in Seq(Tokens), NEW k \in Nat \ {0}
    PROVE  Tok(k) \in Texts
<1>1. CASE k <= Len(look)
  <2>1. look[k] \in Tokens
    BY <1>1
  <2> QED
    BY <1>1, <2>1 DEF Tok, Tokens
<1>2. CASE ~ (k <= Len(look))
  BY <1>2, TextsHold DEF Tok
<1> QED
  BY <1>1, <1>2

LEMMA Known ==
    ASSUME look \in Seq(Tokens), NEW k \in Nat \ {0}, AtEnd \/ k <= Len(look), NEW l
    PROVE  Knows(k, l) <=> Fits(Tok(k), l)
  BY TokIsString DEF Knows, MayBe

LEMMA KnowsMore ==
    ASSUME NEW k, NEW l, NEW m, Knows(k, l), Within(l, m)
    PROVE  Knows(k, m)
  BY FitsWithin DEF Knows

LEMMA KnowsAny == \A k : Knows(k, AnyToken)
  BY FitsAny DEF Knows

\* What the items at hand look at was looked at.
LEMMA Looking ==
    ASSUME Ready, look \in Seq(Tokens)
    PROVE  /\ stack # <<>> /\ Top.code # <<>>
           /\ Item.do \in {"want", "switch", "binary", "gap", "take", "skip", "named"} =>
                look # <<>> /\ Len(look) >= 1
           /\ Item.do = "see" => AtEnd \/ Item.at <= Len(look)
<1>1. Running /\ (AtEnd \/ Len(look) >= Ahead)
  BY DEF Ready
<1>2. Item.do \in {"want", "switch", "binary", "gap", "take", "skip", "named"} => Ahead = 1
  BY DEF Ahead
<1>3. Item.do = "see" => Ahead = Item.at
  BY DEF Ahead
<1>4. AtEnd => look # <<>>
  BY DEF AtEnd
<1>5. look # <<>> <=> Len(look) >= 1
  OBVIOUS
<1> QED
  BY <1>1, <1>2, <1>3, <1>4, <1>5 DEF Running

\* More is looked at.
LEMMA Looked ==
    ASSUME Follows, stack # <<>>, look' \in Seq(Tokens), Alive => Alive',
           UNCHANGED <<alphabet, stack, kind, errors, open, tainted>>,
           \A w \in Seq(Paths) : Fit(w) => Seen(w[Len(stack)])'
    PROVE  Follows'
<1>1. PICK w \in Seq(Paths) : Fit(w)
  BY DEF Follows
<1>2. TypeOK'
  BY DEF Follows, TypeOK
<1>3. Order'
  BY DEF Follows, Order, Grounded, MovedBelow, Ranked, Trails
<1>4. Linked(w)' /\ Certain(w)' /\ Nested(w)'
  BY <1>1 DEF Fit, Linked, Certain, Sure, Far, Nested
<1>5. Awaited(w)'
  BY <1>1 DEF Fit, Awaited, Awaits
<1>6. Seen(w[Len(stack)])'
  BY <1>1
<1> QED
  BY <1>1, <1>2, <1>3, <1>4, <1>5, <1>6 DEF Follows, Fit

LEMMA NextTokenFollows ==
    ASSUME GrammarIsSound, Follows, NextToken
    PROVE  Follows'
<1>1. PICK t \in alphabet \cup {"eof"} : look' = Append(look, [token |-> t, gap |-> "any"])
  BY DEF NextToken
<1>2. look \in Seq(Tokens) /\ t \in Texts /\ [token |-> t, gap |-> "any"] \in Tokens
  <2>1. look \in Seq(Tokens) /\ alphabet \subseteq Texts
    BY DEF Follows, TypeOK
  <2>2. t \in Texts
    BY <2>1, TextsHold
  <2> QED
    BY <2>1, <2>2 DEF Tokens, Gaps
<1>3. /\ look' \in Seq(Tokens) /\ Len(look') = Len(look) + 1
      /\ \A k \in 1 .. Len(look) : look'[k] = look[k]
      /\ look'[Len(look) + 1].gap = "any"
  BY <1>1, <1>2, AppendProperties
<1>4. stack # <<>> /\ ~AtEnd /\ UNCHANGED <<alphabet, stack, kind, errors, open, tainted>>
  BY DEF NextToken, Running, Ready, history
<1>5. Alive => Alive'
  BY <1>2, <1>3 DEF Alive
<1>6. ASSUME NEW k \in {1, 2}, NEW u, MayBe(k, u)'
      PROVE  MayBe(k, u)
  <2>1. CASE k <= Len(look)
    <3>1. Tok(k)' = Tok(k) /\ k <= Len(look')
      BY <1>2, <1>3, <2>1 DEF Tok
    <3> QED
      BY <1>6, <3>1 DEF MayBe
  <2>2. CASE ~ (k <= Len(look))
    BY <1>4, <2>2 DEF MayBe
  <2> QED
    BY <2>1, <2>2
<1>7. ASSUME NEW w \in Seq(Paths), Fit(w)
      PROVE  Seen(w[Len(stack)])'
  <2>1. Seen(w[Len(stack)])
    BY <1>4, <1>7 DEF Fit
  <2>2. KnowsGap(w[Len(stack)].gap)'
    <3>1. CASE look = <<>>
      <4>1. Len(look) = 0
        BY <3>1
      <4>2. Len(look') = 1 /\ look'[1].gap = "any"
        BY <1>3, <4>1
      <4>3. look' # <<>>
        BY <4>2
      <4> QED
        BY <1>4, <2>1, <3>1, <4>2, <4>3 DEF Seen, KnowsGap
    <3>2. CASE look # <<>>
      <4>1. look' # <<>> /\ look'[1] = look[1]
        BY <1>2, <1>3, <3>2
      <4> QED
        BY <1>4, <2>1, <3>2, <4>1 DEF Seen, KnowsGap
    <3> QED
      BY <3>1, <3>2
  <2>3. Knows(1, w[Len(stack)].next)' /\ Knows(2, w[Len(stack)].second)'
    BY <1>4, <1>6, <2>1 DEF Seen, Knows
  <2> QED
    BY <1>4, <2>1, <2>2, <2>3 DEF Seen
<1> QED
  BY <1>3, <1>4, <1>5, <1>7, Looked

LEMMA NextGapFollows ==
    ASSUME GrammarIsSound, Follows, NextGap
    PROVE  Follows'
<1>1. PICK g \in {"glued", "space", "newline"} : look' = [look EXCEPT ![1].gap = g]
  BY DEF NextGap
<1>2. look \in Seq(Tokens) /\ look # <<>> /\ Len(look) >= 1 /\ stack # <<>>
  BY Looking DEF Follows, TypeOK, NextGap
<1>3. look[1] \in Tokens /\ g \in Gaps
  BY <1>2 DEF Gaps
<1>4. look' = [look EXCEPT ![1] = [look[1] EXCEPT !.gap = g]]
  BY <1>1
<1>5. [look[1] EXCEPT !.gap = g] \in Tokens /\ [look[1] EXCEPT !.gap = g].token = look[1].token
      /\ [look[1] EXCEPT !.gap = g].gap = g
  BY <1>3 DEF Tokens
<1>6. /\ look' \in Seq(Tokens) /\ Len(look') = Len(look)
      /\ \A k \in 1 .. Len(look) : look'[k].token = look[k].token
      /\ look'[1].gap = g
  BY <1>2, <1>4, <1>5
<1>7. UNCHANGED <<alphabet, stack, kind, errors, open, tainted>>
  BY DEF NextGap, history
<1>8. look' # <<>> /\ Len(look) \in 1 .. Len(look)
  BY <1>2, <1>6
<1>9. (Alive => Alive') /\ (AtEnd' <=> AtEnd)
  BY <1>2, <1>6, <1>8 DEF Alive, AtEnd
<1>10. Tok(1)' = Tok(1) /\ Tok(2)' = Tok(2)
  BY <1>2, <1>6 DEF Tok
<1>11. ASSUME NEW w \in Seq(Paths), Fit(w)
      PROVE  Seen(w[Len(stack)])'
  <2>1. Seen(w[Len(stack)]) /\ w[Len(stack)] \in Paths
    BY <1>2, <1>11, OnTop DEF Fit, Follows
  <2>2. KnowsGap(w[Len(stack)].gap)'
    <3>1. "any" \in w[Len(stack)].gap
      BY <1>2, <2>1 DEF Seen, KnowsGap, NextGap
    <3>2. w[Len(stack)].gap = Gaps
      BY <2>1, <3>1, PathForm
    <3> QED
      BY <1>3, <1>6, <1>7, <1>8, <3>2 DEF KnowsGap
  <2>3. Knows(1, w[Len(stack)].next)' /\ Knows(2, w[Len(stack)].second)'
    BY <1>6, <1>7, <1>9, <1>10, <2>1 DEF Seen, Knows, MayBe
  <2> QED
    BY <1>7, <2>1, <2>2, <2>3 DEF Seen
<1> QED
  BY <1>2, <1>6, <1>7, <1>9, <1>11, Looked

(***************************************************************************)
(* Conditions.                                                             *)
(***************************************************************************)
LEMMA GoesIs ==
    ASSUME GrammarIsSound, NEW p \in Paths, NEW c
    PROVE  /\ DOMAIN Goes(p, c) = Fields
           /\ Goes(p, c).rule = p.rule /\ Goes(p, c).is = p.is /\ Goes(p, c).body = p.body
           /\ Goes(p, c).sure = p.sure /\ Goes(p, c).result = p.result /\ Goes(p, c).next = p.next
           /\ Goes(p, c).second = p.second /\ Goes(p, c).gap = p.gap /\ Goes(p, c).opens = p.opens
           /\ Goes(p, c).code = c \o Tail(p.code)
  BY PathForm DEF Goes, Fields

\* Path q goes on from path p with the given code, and fits the frame on top.
GoesOn(q, p, code) ==
  /\ q \in Paths
  /\ q.is = p.is /\ q.rule = p.rule /\ q.body = p.body /\ q.opens = p.opens
  /\ q.code = code
  /\ Sure(q, Len(stack)) /\ Seen(q)

LEMMA SeeGoesOn ==
    ASSUME GrammarIsSound, look \in Seq(Tokens), NEW p \in Paths, p.code # <<>>, Sure(p, Len(stack)), Seen(p),
           NEW item, item = Head(p.code), item.do = "see", AtEnd \/ item.at <= Len(look)
    PROVE  \E q : GoesOn(q, p, (IF Tok(item.at) \in item.on THEN item.then ELSE item.else) \o Tail(p.code))
<1> DEFINE c == IF Tok(item.at) \in item.on THEN item.then ELSE item.else
           r == Goes(p, c)
<1>1. After(p) = Branches(p, item) /\ After(p) \subseteq Paths
  BY AfterBranch, PathsComplete DEF Deciding
<1>2. /\ DOMAIN r = Fields /\ r.rule = p.rule /\ r.is = p.is /\ r.body = p.body /\ r.sure = p.sure
      /\ r.result = p.result /\ r.next = p.next /\ r.second = p.second /\ r.gap = p.gap /\ r.opens = p.opens
      /\ r.code = c \o Tail(p.code)
  BY GoesIs
<1>3. CASE item.at = 1
  <2>1. Fits(Tok(1), p.next)
    BY <1>3, Known DEF Seen
  <2> DEFINE k == IF Tok(1) \in item.on THEN Only(p.next, item.on) ELSE Not(p.next, item.on)
             q == [r EXCEPT !.next = k]
  <2>2. Fits(Tok(1), k) /\ Possible(k)
    BY <2>1, FitsOnly, FitsPossible
  <2>3. q \in Paths
    <3>1. CASE Tok(1) \in item.on
      <4>1. [Goes(p, item.then) EXCEPT !.next = Only(p.next, item.on)] \in Branches(p, item)
        BY <1>3, <2>2, <3>1 DEF Branches
      <4> QED
        BY <1>1, <1>3, <3>1, <4>1
    <3>2. CASE Tok(1) \notin item.on
      <4>1. [Goes(p, item.else) EXCEPT !.next = Not(p.next, item.on)] \in Branches(p, item)
        BY <1>3, <2>2, <3>2 DEF Branches
      <4> QED
        BY <1>1, <1>3, <3>2, <4>1
    <3> QED
      BY <3>1, <3>2
  <2>4. Knows(1, k)
    BY <1>3, <2>2, Known
  <2> HIDE DEF k, r, c
  <2>5. /\ q.rule = p.rule /\ q.is = p.is /\ q.body = p.body /\ q.sure = p.sure
        /\ q.result = p.result /\ q.next = k /\ q.second = p.second /\ q.gap = p.gap /\ q.opens = p.opens
        /\ q.code = c \o Tail(p.code)
    BY <1>2 DEF Fields
  <2> HIDE DEF q
  <2>6. GoesOn(q, p, c \o Tail(p.code))
    BY <2>3, <2>4, <2>5 DEF GoesOn, Sure, Seen
  <2> QED
    BY <2>6 DEF c
<1>4. CASE item.at = 2
  <2>1. Fits(Tok(2), p.second)
    BY <1>4, Known DEF Seen
  <2> DEFINE k == IF Tok(2) \in item.on THEN Only(p.second, item.on) ELSE Not(p.second, item.on)
             q == [r EXCEPT !.second = k]
  <2>2. Fits(Tok(2), k) /\ Possible(k)
    BY <2>1, FitsOnly, FitsPossible
  <2>3. q \in Paths
    <3>1. CASE Tok(2) \in item.on
      <4>1. [Goes(p, item.then) EXCEPT !.second = Only(p.second, item.on)] \in Branches(p, item)
        BY <1>4, <2>2, <3>1 DEF Branches
      <4> QED
        BY <1>1, <1>4, <3>1, <4>1
    <3>2. CASE Tok(2) \notin item.on
      <4>1. [Goes(p, item.else) EXCEPT !.second = Not(p.second, item.on)] \in Branches(p, item)
        BY <1>4, <2>2, <3>2 DEF Branches
      <4> QED
        BY <1>1, <1>4, <3>2, <4>1
    <3> QED
      BY <3>1, <3>2
  <2>4. Knows(2, k)
    BY <1>4, <2>2, Known
  <2> HIDE DEF k, r, c
  <2>5. /\ q.rule = p.rule /\ q.is = p.is /\ q.body = p.body /\ q.sure = p.sure
        /\ q.result = p.result /\ q.next = p.next /\ q.second = k /\ q.gap = p.gap /\ q.opens = p.opens
        /\ q.code = c \o Tail(p.code)
    BY <1>2 DEF Fields
  <2> HIDE DEF q
  <2>6. GoesOn(q, p, c \o Tail(p.code))
    BY <2>3, <2>4, <2>5 DEF GoesOn, Sure, Seen
  <2> QED
    BY <2>6 DEF c
<1>5. CASE item.at \notin {1, 2}
  <2>1. r \in Paths
    BY <1>1, <1>5 DEF Branches
  <2> HIDE DEF r, c
  <2>2. GoesOn(r, p, c \o Tail(p.code))
    BY <1>2, <2>1 DEF GoesOn, Sure, Seen
  <2> QED
    BY <2>2 DEF c
<1> QED
  BY <1>3, <1>4, <1>5

LEMMA SwitchGoesOn ==
    ASSUME GrammarIsSound, look \in Seq(Tokens), NEW p \in Paths, p.code # <<>>, Sure(p, Len(stack)), Seen(p),
           NEW item, item = Head(p.code), item.do = "switch", look # <<>>
    PROVE  \E q : GoesOn(q, p, Arm(item.arms, item.else, Tok(1)) \o Tail(p.code))
<1> DEFINE arms == item.arms
           fit == {i \in DOMAIN arms : Tok(1) \in arms[i].on}
           c == Arm(arms, item.else, Tok(1))
           r == Goes(p, c)
<1>1. After(p) = Branches(p, item) /\ After(p) \subseteq Paths
  BY AfterBranch, PathsComplete DEF Deciding
<1>2. /\ DOMAIN r = Fields /\ r.rule = p.rule /\ r.is = p.is /\ r.body = p.body /\ r.sure = p.sure
      /\ r.result = p.result /\ r.next = p.next /\ r.second = p.second /\ r.gap = p.gap /\ r.opens = p.opens
      /\ r.code = c \o Tail(p.code)
  BY GoesIs
<1>3. Fits(Tok(1), p.next)
  BY Known DEF Seen
<1>4. DOMAIN arms = 1 .. Len(arms) /\ Len(arms) \in Nat
  BY PathsComplete DEF Sound, ItemFormed
<1>5. \E k : Knows(1, k) /\ [r EXCEPT !.next = k] \in Paths
  <2>1. CASE fit = {}
    <3> DEFINE k == AtElse(p, arms)
    <3>1. Tok(1) \notin Earlier(arms, Len(arms) + 1)
      BY <1>4, <2>1 DEF Earlier
    <3>2. Fits(Tok(1), k) /\ Possible(k)
      BY <1>3, <3>1, FitsOnly, FitsPossible DEF AtElse
    <3>3. Knows(1, k)
      BY <3>2, Known
    <3>4. c = item.else
      BY <2>1 DEF Arm
    <3>5. [Goes(p, item.else) EXCEPT !.next = k] \in Branches(p, item)
      BY <3>2 DEF Branches
    <3> QED
      BY <1>1, <3>3, <3>4, <3>5
  <2>2. CASE fit # {}
    <3>1. fit \in SUBSET Nat
      BY <1>4
    <3> DEFINE i == Min(fit)
               k == AtArm(p, arms, i)
    <3>2. i \in fit /\ \A y \in fit : i <= y
      BY <2>2, <3>1, LeastOf
    <3>3. c = arms[i].go
      BY <2>2 DEF Arm
    <3> HIDE DEF i
    <3>4. Tok(1) \notin Earlier(arms, i)
      BY <1>4, <3>2 DEF Earlier
    <3>5. Fits(Tok(1), k) /\ Possible(k)
      BY <1>3, <3>2, <3>4, FitsOnly, FitsPossible DEF AtArm
    <3>6. Knows(1, k)
      BY <3>5, Known
    <3>7. [Goes(p, arms[i].go) EXCEPT !.next = k] \in Branches(p, item)
      BY <3>2, <3>5 DEF Branches
    <3> QED
      BY <1>1, <3>3, <3>6, <3>7
  <2> QED
    BY <2>1, <2>2
<1>6. PICK k : Knows(1, k) /\ [r EXCEPT !.next = k] \in Paths
  BY <1>5
<1> DEFINE q == [r EXCEPT !.next = k]
<1> HIDE DEF r, c
<1>7. /\ q.rule = p.rule /\ q.is = p.is /\ q.body = p.body /\ q.sure = p.sure
      /\ q.result = p.result /\ q.next = k /\ q.second = p.second /\ q.gap = p.gap /\ q.opens = p.opens
      /\ q.code = c \o Tail(p.code)
  BY <1>2 DEF Fields
<1> HIDE DEF q
<1>8. GoesOn(q, p, c \o Tail(p.code))
  BY <1>6, <1>7 DEF GoesOn, Sure, Seen, q
<1> QED
  BY <1>8 DEF c

LEMMA GapGoesOn ==
    ASSUME GrammarIsSound, look \in Seq(Tokens), NEW p \in Paths, p.code # <<>>, Sure(p, Len(stack)), Seen(p),
           NEW item, item = Head(p.code), item.do = "gap", look # <<>>, look[1].gap # "any"
    PROVE  \E q : GoesOn(q, p, (IF look[1].gap \in item.on THEN item.then ELSE item.else) \o Tail(p.code))
<1> DEFINE c == IF look[1].gap \in item.on THEN item.then ELSE item.else
           g == IF look[1].gap \in item.on THEN p.gap \cap item.on ELSE p.gap \ (item.on \cup {"any"})
           r == Goes(p, c)
           q == [r EXCEPT !.gap = g]
<1>1. After(p) = Branches(p, item) /\ After(p) \subseteq Paths
  BY AfterBranch, PathsComplete DEF Deciding
<1>2. /\ DOMAIN r = Fields /\ r.rule = p.rule /\ r.is = p.is /\ r.body = p.body /\ r.sure = p.sure
      /\ r.result = p.result /\ r.next = p.next /\ r.second = p.second /\ r.gap = p.gap /\ r.opens = p.opens
      /\ r.code = c \o Tail(p.code)
  BY GoesIs
<1>3. look[1].gap \in g
  BY DEF Seen, KnowsGap
<1>4. q \in Paths
  BY <1>1, <1>3 DEF Branches
<1> HIDE DEF g, r, c
<1>5. /\ q.rule = p.rule /\ q.is = p.is /\ q.body = p.body /\ q.sure = p.sure
      /\ q.result = p.result /\ q.next = p.next /\ q.second = p.second /\ q.gap = g /\ q.opens = p.opens
      /\ q.code = c \o Tail(p.code)
  BY <1>2 DEF Fields
<1> HIDE DEF q
<1>6. GoesOn(q, p, c \o Tail(p.code))
  BY <1>3, <1>4, <1>5 DEF GoesOn, Sure, Seen, KnowsGap
<1> QED
  BY <1>6 DEF c

LEMMA KindGoesOn ==
    ASSUME GrammarIsSound, NEW p \in Paths, p.code # <<>>, Sure(p, Len(stack)), Seen(p),
           NEW item, item = Head(p.code), item.do = "kind"
    PROVE  \E q : GoesOn(q, p, (IF kind \in item.on THEN item.then ELSE item.else) \o Tail(p.code))
<1> DEFINE c == IF kind \in item.on THEN item.then ELSE item.else
           r == Goes(p, c)
<1>1. After(p) = Branches(p, item) /\ After(p) \subseteq Paths
  BY AfterBranch, PathsComplete DEF Deciding
<1>2. /\ DOMAIN r = Fields /\ r.rule = p.rule /\ r.is = p.is /\ r.body = p.body /\ r.sure = p.sure
      /\ r.result = p.result /\ r.next = p.next /\ r.second = p.second /\ r.gap = p.gap /\ r.opens = p.opens
      /\ r.code = c \o Tail(p.code)
  BY GoesIs
<1>3. CASE item.on = {"none"}
  <2> DEFINE s == IF kind = "none" THEN "none" ELSE "some"
             q == [r EXCEPT !.result = s]
  <2>1. q \in Paths
    BY <1>1, <1>3 DEF Branches, Seen
  <2> HIDE DEF r, c, s
  <2>2. /\ q.rule = p.rule /\ q.is = p.is /\ q.body = p.body /\ q.sure = p.sure
        /\ q.result = s /\ q.next = p.next /\ q.second = p.second /\ q.gap = p.gap /\ q.opens = p.opens
        /\ q.code = c \o Tail(p.code)
    BY <1>2 DEF Fields
  <2> HIDE DEF q
  <2>3. GoesOn(q, p, c \o Tail(p.code))
    BY <2>1, <2>2 DEF GoesOn, Sure, Seen, s
  <2> QED
    BY <2>3 DEF c
<1>4. CASE item.on # {"none"}
  <2>1. r \in Paths
    BY <1>1, <1>4 DEF Branches
  <2> HIDE DEF r, c
  <2>2. GoesOn(r, p, c \o Tail(p.code))
    BY <1>2, <2>1 DEF GoesOn, Sure, Seen
  <2> QED
    BY <2>2 DEF c
<1> QED
  BY <1>3, <1>4

LEMMA MovedGoesOn ==
    ASSUME GrammarIsSound, NEW p \in Paths, p.code # <<>>, Sure(p, Len(stack)), Seen(p), stack \in Seq(Frames),
           stack # <<>>, NEW item, item = Head(p.code), item.do = "moved"
    PROVE  \E q : GoesOn(q, p, (IF Top.moved THEN item.then ELSE item.else) \o Tail(p.code))
<1> DEFINE c == IF Top.moved THEN item.then ELSE item.else
           r == Goes(p, c)
           q == [r EXCEPT !.sure = @ \cup {"moved", "far"}]
<1>1. After(p) = Branches(p, item) /\ After(p) \subseteq Paths
  BY AfterBranch, PathsComplete DEF Deciding
<1>2. /\ DOMAIN r = Fields /\ r.rule = p.rule /\ r.is = p.is /\ r.body = p.body /\ r.sure = p.sure
      /\ r.result = p.result /\ r.next = p.next /\ r.second = p.second /\ r.gap = p.gap /\ r.opens = p.opens
      /\ r.code = c \o Tail(p.code)
  BY GoesIs
<1>3. CASE Top.moved
  <2>1. q \in Paths
    BY <1>1, <1>3 DEF Branches
  <2>2. Far(Len(stack)) /\ stack[Len(stack)].moved
    BY <1>3 DEF Far, Top
  <2> HIDE DEF r, c
  <2>3. /\ q.rule = p.rule /\ q.is = p.is /\ q.body = p.body /\ q.sure = p.sure \cup {"moved", "far"}
        /\ q.result = p.result /\ q.next = p.next /\ q.second = p.second /\ q.gap = p.gap /\ q.opens = p.opens
        /\ q.code = c \o Tail(p.code)
    BY <1>2 DEF Fields
  <2> HIDE DEF q
  <2>4. GoesOn(q, p, c \o Tail(p.code))
    BY <2>1, <2>2, <2>3 DEF GoesOn, Sure, Seen
  <2> QED
    BY <2>4 DEF c
<1>4. CASE ~Top.moved
  <2>1. r \in Paths
    BY <1>1, <1>4 DEF Branches
  <2> HIDE DEF r, c
  <2>2. GoesOn(r, p, c \o Tail(p.code))
    BY <1>2, <2>1 DEF GoesOn, Sure, Seen
  <2> QED
    BY <2>2 DEF c
<1> QED
  BY <1>3, <1>4

\* The other conditions tell nothing.
LEMMA OtherGoesOn ==
    ASSUME GrammarIsSound, NEW p \in Paths, p.code # <<>>, Sure(p, Len(stack)), Seen(p),
           NEW item, item = Head(p.code), item.do \in {"bp", "marked", "lambda", "either"}, NEW c \in {item.then, item.else}
    PROVE  \E q : GoesOn(q, p, c \o Tail(p.code))
<1>1. After(p) = Branches(p, item) /\ After(p) \subseteq Paths
  BY AfterBranch, PathsComplete DEF Deciding
<1>2. Goes(p, c) \in Paths
  BY <1>1 DEF Branches
<1>3. GoesOn(Goes(p, c), p, c \o Tail(p.code))
  BY <1>2, GoesIs DEF GoesOn, Sure, Seen
<1> QED
  BY <1>3

LEMMA NamesGoesOn ==
    ASSUME GrammarIsSound, NEW p \in Paths, p.code # <<>>, Sure(p, Len(stack)), Seen(p),
           NEW item, item = Head(p.code), item.do = "names", NEW x
    PROVE  \E q : GoesOn(q, p, Arm(item.arms, item.else, x) \o Tail(p.code))
<1> DEFINE arms == item.arms
           fit == {i \in DOMAIN arms : x \in arms[i].on}
           c == Arm(arms, item.else, x)
<1>1. After(p) = Branches(p, item) /\ After(p) \subseteq Paths
  BY AfterBranch, PathsComplete DEF Deciding
<1>2. DOMAIN arms = 1 .. Len(arms) /\ Len(arms) \in Nat
  BY PathsComplete DEF Sound, ItemFormed
<1>3. Goes(p, c) \in Paths
  <2>1. CASE fit = {}
    BY <1>1, <2>1 DEF Branches, Arm
  <2>2. CASE fit # {}
    <3>1. fit \in SUBSET Nat
      BY <1>2
    <3>2. Min(fit) \in fit
      BY <2>2, <3>1, LeastOf
    <3>3. c = arms[Min(fit)].go
      BY <2>2 DEF Arm
    <3>4. Min(fit) \in DOMAIN arms
      BY <3>2
    <3> HIDE DEF c, fit
    <3> QED
      BY <1>1, <3>3, <3>4 DEF Branches
  <2> QED
    BY <2>1, <2>2
<1> HIDE DEF c
<1>4. GoesOn(Goes(p, c), p, c \o Tail(p.code))
  BY <1>3, GoesIs DEF GoesOn, Sure, Seen
<1> QED
  BY <1>4 DEF c

(***************************************************************************)
(* The steps that take no token and push or pop no frame.                  *)
(***************************************************************************)
LEMMA SureSame ==
    ASSUME NEW q, NEW n \in 1 .. Len(stack), Sure(q, n), stack \in Seq(Frames),
           \A i \in 1 .. n : stack'[i].is = stack[i].is /\ (stack[i].moved => stack'[i].moved)
    PROVE  Sure(q, n)'
<1>1. Far(n) => Far(n)'
  BY DEF Far
<1> QED
  BY <1>1 DEF Sure

LEMMA SeenNothing ==
    ASSUME look \in Seq(Tokens), NEW q, q.next = AnyToken, q.second = AnyToken, q.gap = Gaps,
           q.result = "none" => kind = "none", q.result = "some" => kind # "none",
           "told" \in q.sure => errors
    PROVE  Seen(q)
<1>1. KnowsGap(Gaps)
  <2>1. CASE look = <<>>
    BY <2>1 DEF KnowsGap, Gaps
  <2>2. CASE look # <<>>
    <3>1. look[1] \in Tokens
      BY <2>2
    <3> QED
      BY <2>2, <3>1 DEF KnowsGap, Tokens
  <2> QED
    BY <2>1, <2>2
<1> QED
  BY <1>1, KnowsAny DEF Seen

LEMMA Onward ==
    ASSUME GrammarIsSound, TypeOK, Order, NEW w \in Seq(Paths), Fit(w), stack # <<>>, NEW n, n = Len(stack),
           NEW q, NEW code, GoesOn(q, w[n], code), stack' = [stack EXCEPT ![n].code = code],
           UNCHANGED <<alphabet, look, kind, history>>
    PROVE  Follows'
<1>1. n \in 1 .. Len(stack) /\ stack[n] \in Frames /\ stack \in Seq(Frames)
  BY OnTop DEF Top, TypeOK
<1> DEFINE g == [stack[n] EXCEPT !.code = code]
<1>2. q \in Paths /\ q.code \in Seq(Items) /\ q.code = code
  BY PathForm DEF GoesOn
<1>3. /\ g \in Frames /\ g.is = stack[n].is /\ g.rule = stack[n].rule /\ g.body = stack[n].body
      /\ g.tried = stack[n].tried /\ g.trail = stack[n].trail /\ g.saved = stack[n].saved
      /\ g.moved = stack[n].moved /\ g.code = code
  BY <1>1, <1>2 DEF Frames
<1>4. stack' = [stack EXCEPT ![n] = g]
  BY <1>1
<1> HIDE DEF g
<1>5. Sure(q, n)'
  <2>1. \A i \in 1 .. n : stack'[i].is = stack[i].is /\ (stack[i].moved => stack'[i].moved)
    BY <1>1, <1>3, <1>4
  <2> QED
    BY <1>1, <2>1, SureSame DEF GoesOn
<1>6. Seen(q)'
  BY DEF GoesOn, Seen, Knows, MayBe, AtEnd, Tok, KnowsGap, history
<1>7. q.is = w[n].is /\ q.rule = w[n].rule /\ q.body = w[n].body /\ q.opens = w[n].opens
  BY DEF GoesOn
<1>8. alphabet' = alphabet /\ look' = look /\ errors' = errors /\ open' = open /\ tainted' = tainted
  BY DEF history
<1>9. Kept(q, w[n])
  BY <1>7, <1>8 DEF Kept, TypeOK
<1>10. g.moved => stack[n].moved
  BY <1>3
<1>11. q.code = g.code
  BY <1>2, <1>3
<1> QED
  BY <1>2, <1>3, <1>4, <1>5, <1>6, <1>7, <1>8, <1>9, <1>10, <1>11, Continue

LEMMA DecideFollows ==
    ASSUME GrammarIsSound, Follows, Decide
    PROVE  Follows'
<1>1. PICK w \in Seq(Paths) : Fit(w)
  BY DEF Follows
<1>2. Ready /\ TypeOK /\ look \in Seq(Tokens) /\ stack \in Seq(Frames)
  BY DEF Decide, Doing, Follows, TypeOK
<1>3. stack # <<>> /\ Top.code # <<>>
  BY <1>2, Looking
<1> DEFINE n == Len(stack)
           p == w[n]
<1>4. /\ n \in Nat /\ p \in Paths /\ p.code = Top.code /\ Sure(p, n) /\ Seen(p)
  BY <1>1, <1>2, <1>3, OnTop
<1>5. Item = Head(p.code) /\ p.code # <<>>
  BY <1>3, <1>4 DEF Item
<1>6. \E q : GoesOn(q, p, Branch \o Tail(p.code))
  <2> HIDE DEF n, p
  <2>1. CASE Item.do = "see"
    <3>1. AtEnd \/ Item.at <= Len(look)
      BY <1>2, <2>1, Looking
    <3> QED
      BY <1>2, <1>4, <1>5, <2>1, <3>1, SeeGoesOn DEF Branch, n
  <2>2. CASE Item.do = "switch"
    <3>1. look # <<>>
      BY <1>2, <2>2, Looking
    <3>2. Branch = Arm(Item.arms, Item.else, Tok(1))
      BY <2>2 DEF Branch
    <3> QED
      BY <1>2, <1>4, <1>5, <2>2, <3>1, <3>2, SwitchGoesOn DEF n
  <2>3. CASE Item.do = "names"
    <3>1. Branch = Arm(Item.arms, Item.else, Top.name)
      BY <2>3 DEF Branch
    <3> QED
      BY <1>2, <1>4, <1>5, <2>3, <3>1, NamesGoesOn DEF n
  <2>4. CASE Item.do = "gap"
    <3>1. look # <<>> /\ look[1].gap # "any"
      BY <1>2, <2>4, Looking DEF Decide
    <3> QED
      BY <1>2, <1>4, <1>5, <2>4, <3>1, GapGoesOn DEF Branch, n
  <2>5. CASE Item.do = "kind"
    BY <1>2, <1>4, <1>5, <2>5, KindGoesOn DEF Branch, n
  <2>6. CASE Item.do = "moved"
    BY <1>2, <1>3, <1>4, <1>5, <2>6, MovedGoesOn DEF Branch, n
  <2>7. CASE Item.do \in {"bp", "marked", "lambda"}
    <3>1. Branch \in {Item.then, Item.else}
      BY <2>7 DEF Branch
    <3> QED
      BY <1>2, <1>4, <1>5, <2>7, <3>1, OtherGoesOn DEF n
  <2> QED
    BY <2>1, <2>2, <2>3, <2>4, <2>5, <2>6, <2>7 DEF Decide, Doing
<1>7. PICK q : GoesOn(q, p, Branch \o Tail(p.code))
  BY <1>6
<1>8. stack' = [stack EXCEPT ![n].code = Branch \o Tail(p.code)]
  BY <1>4 DEF Decide, Goto
<1>9. UNCHANGED <<alphabet, look, kind, history>>
  BY DEF Decide, Doing
<1> HIDE DEF p
<1> QED
  BY <1>1, <1>2, <1>3, <1>7, <1>8, <1>9, Onward DEF Follows, p

LEMMA ChooseFollows ==
    ASSUME GrammarIsSound, Follows, Choose
    PROVE  Follows'
<1>1. PICK w \in Seq(Paths) : Fit(w)
  BY DEF Follows
<1>2. Ready /\ TypeOK /\ look \in Seq(Tokens) /\ stack \in Seq(Frames) /\ Item.do = "either"
  BY DEF Choose, Doing, Follows, TypeOK
<1>3. stack # <<>> /\ Top.code # <<>>
  BY <1>2, Looking
<1> DEFINE n == Len(stack)
           p == w[n]
<1>4. /\ n \in Nat /\ p \in Paths /\ p.code = Top.code /\ Sure(p, n) /\ Seen(p)
  BY <1>1, <1>2, <1>3, OnTop
<1>5. Item = Head(p.code) /\ p.code # <<>>
  BY <1>3, <1>4 DEF Item
<1>6. PICK c \in {Item.then, Item.else} : stack' = [stack EXCEPT ![n].code = c \o Tail(p.code)]
  BY <1>4 DEF Choose, Goto
<1>7. UNCHANGED <<alphabet, look, kind, history>>
  BY DEF Choose, Doing
<1> HIDE DEF p
<1>8. PICK q : GoesOn(q, p, c \o Tail(p.code))
  BY <1>2, <1>4, <1>5, OtherGoesOn
<1> QED
  BY <1>1, <1>2, <1>3, <1>6, <1>7, <1>8, Onward DEF Follows, p

\* The frame on top when an item of its is carried out.
LEMMA AtItem ==
    ASSUME GrammarIsSound, Follows, Ready, NEW w \in Seq(Paths), Fit(w), NEW n, n = Len(stack), NEW p, p = w[n],
           NEW item, item = Item
    PROVE  /\ TypeOK /\ Order /\ look \in Seq(Tokens) /\ stack \in Seq(Frames) /\ open \in Seq(Texts)
           /\ errors \in BOOLEAN /\ tainted \in BOOLEAN /\ alphabet \subseteq Texts
           /\ stack # <<>> /\ n \in Nat \ {0} /\ n \in 1 .. n /\ n \in 1 .. Len(stack) /\ Len(w) = n
           /\ p \in Paths /\ p.code # <<>> /\ p.code = stack[n].code /\ item = Head(p.code)
           /\ p.is = stack[n].is /\ p.rule = stack[n].rule /\ p.body = stack[n].body
           /\ stack[n] \in Frames /\ Top = stack[n]
           /\ Sure(p, n) /\ Seen(p) /\ Sound(p)
           /\ item.do \in {"want", "switch", "binary", "gap", "take", "skip", "named"} => look # <<>> /\ 1 <= Len(look)
<1>1. TypeOK /\ Order /\ look \in Seq(Tokens) /\ stack \in Seq(Frames) /\ open \in Seq(Texts)
      /\ errors \in BOOLEAN /\ tainted \in BOOLEAN /\ alphabet \subseteq Texts
  BY DEF Follows, TypeOK
<1>2. stack # <<>> /\ Top.code # <<>>
      /\ (item.do \in {"want", "switch", "binary", "gap", "take", "skip", "named"} => look # <<>> /\ 1 <= Len(look))
  BY <1>1, Looking
<1>3. /\ n \in Nat \ {0} /\ n \in 1 .. n /\ n \in 1 .. Len(stack) /\ Len(w) = n
      /\ p \in Paths /\ p.code = Top.code /\ Top = stack[n] /\ stack[n] \in Frames /\ Mirrors(p, Top)
      /\ Sure(p, n) /\ Seen(p) /\ Sound(p)
  BY <1>1, <1>2, OnTop
<1> QED
  BY <1>1, <1>2, <1>3 DEF Item, Mirrors

\* The frame on top goes on with path q, the rest as it was.
LEMMA Proceed ==
    ASSUME GrammarIsSound, TypeOK, Order, NEW w \in Seq(Paths), Fit(w), stack # <<>>, NEW n, n = Len(stack),
           NEW p, p = w[n], NEW q \in Paths, q.is = p.is, q.rule = p.rule, q.body = p.body, q.opens = p.opens,
           NEW marked \in BOOLEAN, NEW moved \in BOOLEAN, moved => stack[n].moved,
           stack' = [stack EXCEPT ![n] = [stack[n] EXCEPT !.code = q.code, !.marked = marked, !.moved = moved]],
           Sure(q, n)', Seen(q)', alphabet' = alphabet, look' = look, tainted' = tainted,
           (errors' = TRUE /\ open' = <<>>) \/ (errors' = errors /\ open' = open)
    PROVE  Follows'
<1>1. n \in 1 .. Len(stack) /\ stack[n] \in Frames
  BY OnTop DEF Top
<1>2. q.code \in Seq(Items)
  BY PathForm
<1> DEFINE g == [stack[n] EXCEPT !.code = q.code, !.marked = marked, !.moved = moved]
<1>3. /\ g \in Frames /\ g.is = stack[n].is /\ g.rule = stack[n].rule /\ g.body = stack[n].body
      /\ g.tried = stack[n].tried /\ g.trail = stack[n].trail /\ g.saved = stack[n].saved
      /\ (g.moved => stack[n].moved) /\ q.code = g.code
  BY <1>1, <1>2 DEF Frames
<1>4. stack' = [stack EXCEPT ![n] = g]
  OBVIOUS
<1>5. q.is = w[n].is /\ q.rule = w[n].rule /\ q.body = w[n].body /\ q.opens = w[n].opens
  OBVIOUS
<1> HIDE DEF g
<1>6. g.moved => stack[n].moved
  BY <1>3
<1>7. Kept(q, w[n])
  <2>1. errors \in BOOLEAN /\ open \in Seq(Texts) /\ tainted \in BOOLEAN /\ <<>> \in Seq(Texts)
    BY DEF TypeOK
  <2>2. CASE errors' = TRUE /\ open' = <<>>
    BY <2>1, <2>2 DEF Kept
  <2>3. CASE errors' = errors /\ open' = open
    BY <1>5, <2>1, <2>3 DEF Kept
  <2> QED
    BY <2>2, <2>3
<1> QED
  BY <1>3, <1>4, <1>5, <1>6, <1>7, Continue

LEMMA SureStays ==
    ASSUME stack \in Seq(Frames), NEW n \in 1 .. Len(stack), NEW p, NEW q, Sure(p, n),
           q.sure \subseteq p.sure \cup {"told"}, NEW g, g.is = stack[n].is, g.moved = stack[n].moved,
           stack' = [stack EXCEPT ![n] = g]
    PROVE  Sure(q, n)'
<1>1. \A i \in 1 .. n : stack'[i].is = stack[i].is /\ (stack[i].moved => stack'[i].moved)
  <2> TAKE i \in 1 .. n
  <2>1. CASE i = n
    BY <2>1
  <2>2. CASE i # n
    BY <2>2
  <2> QED
    BY <2>1, <2>2
<1>2. Sure(q, n)
  BY DEF Sure
<1> QED
  BY <1>1, <1>2, SureSame

LEMMA SeenStays ==
    ASSUME NEW q, Seen(q), look' = look, kind' = kind, errors => errors'
    PROVE  Seen(q)'
  BY DEF Seen, Knows, MayBe, AtEnd, Tok, KnowsGap

LEMMA NoteFollows ==
    ASSUME GrammarIsSound, Follows, Note
    PROVE  Follows'
<1> SUFFICES ASSUME NEW w \in Seq(Paths), Fit(w), NEW n, n = Len(stack), NEW p, p = w[n], NEW item, item = Item
             PROVE  Follows'
  BY DEF Follows
<1>1. Ready /\ item.do \in {"mark", "yield"} /\ alphabet' = alphabet /\ look' = look /\ errors' = errors
      /\ open' = open /\ tainted' = tainted
  BY DEF Note, Doing, history
<1>2. /\ TypeOK /\ Order /\ stack # <<>> /\ stack \in Seq(Frames) /\ n \in 1 .. Len(stack)
      /\ p \in Paths /\ p.code # <<>> /\ item = Head(p.code) /\ p.code = stack[n].code
      /\ stack[n] \in Frames /\ Top = stack[n] /\ Sure(p, n) /\ Seen(p) /\ Sound(p)
  BY <1>1, AtItem
<1>3. stack[n].moved \in BOOLEAN /\ stack[n].marked \in BOOLEAN
  BY <1>2 DEF Frames
<1>4. CASE item.do = "mark"
  <2> DEFINE q == [p EXCEPT !.code = Tail(@)]
             g == [stack[n] EXCEPT !.code = q.code, !.marked = TRUE, !.moved = stack[n].moved]
  <2>1. q \in Paths
    BY <1>2, <1>4, AfterNote, AfterCode
  <2>2. /\ q.rule = p.rule /\ q.is = p.is /\ q.body = p.body /\ q.sure = p.sure
        /\ q.result = p.result /\ q.next = p.next /\ q.second = p.second /\ q.gap = p.gap /\ q.opens = p.opens
        /\ q.code = Tail(stack[n].code)
    BY <1>2, PathForm DEF Fields
  <2> HIDE DEF q
  <2>3. stack' = [stack EXCEPT ![n].code = Tail(@), ![n].marked = TRUE] /\ kind' = kind
    BY <1>4 DEF Note
  <2>4. stack' = [stack EXCEPT ![n] = g] /\ g.is = stack[n].is /\ g.moved = stack[n].moved
    BY <1>2, <2>2, <2>3 DEF Frames
  <2>5. Sure(q, n)'
    <3> HIDE DEF g
    <3> QED
      BY <1>2, <2>2, <2>4, SureStays
  <2>6. Seen(q)'
    <3>1. Seen(q)
      BY <1>2, <2>2 DEF Seen
    <3> QED
      BY <1>1, <2>3, <3>1, SeenStays
  <2> QED
    BY <1>1, <1>2, <1>3, <2>1, <2>2, <2>4, <2>5, <2>6, Proceed
<1>5. CASE item.do = "yield"
  <2> DEFINE q == [p EXCEPT !.code = Tail(@), !.result = "some"]
             g == [stack[n] EXCEPT !.code = q.code, !.marked = stack[n].marked, !.moved = stack[n].moved]
  <2>1. q \in Paths
    BY <1>2, <1>5, AfterNote, AfterCode
  <2>2. /\ q.rule = p.rule /\ q.is = p.is /\ q.body = p.body /\ q.sure = p.sure
        /\ q.result = "some" /\ q.next = p.next /\ q.second = p.second /\ q.gap = p.gap /\ q.opens = p.opens
        /\ q.code = Tail(stack[n].code)
    BY <1>2, PathForm DEF Fields
  <2> HIDE DEF q
  <2>3. stack' = [stack EXCEPT ![n].code = Tail(stack[n].code)] /\ kind' = item.kind
    BY <1>2, <1>5 DEF Note, Goto
  <2>4. stack' = [stack EXCEPT ![n] = g] /\ g.is = stack[n].is /\ g.moved = stack[n].moved
    BY <1>2, <2>2, <2>3 DEF Frames
  <2>5. Sure(q, n)'
    <3> HIDE DEF g
    <3> QED
      BY <1>2, <2>2, <2>4, SureStays
  <2>6. Seen(q)'
    <3>1. item.kind # "none"
      BY <1>2, <1>5 DEF Sound, ItemFormed
    <3> QED
      BY <1>1, <1>2, <2>2, <2>3, <3>1 DEF Seen, Knows, MayBe, AtEnd, Tok, KnowsGap
  <2> QED
    BY <1>1, <1>2, <1>3, <2>1, <2>2, <2>4, <2>5, <2>6, Proceed
<1> QED
  BY <1>1, <1>4, <1>5

LEMMA ReportFollows ==
    ASSUME GrammarIsSound, Follows, Report
    PROVE  Follows'
<1> SUFFICES ASSUME NEW w \in Seq(Paths), Fit(w), NEW n, n = Len(stack), NEW p, p = w[n], NEW item, item = Item
             PROVE  Follows'
  BY DEF Follows
<1>1. Ready /\ item.do = "error" /\ alphabet' = alphabet /\ look' = look /\ kind' = kind /\ tainted' = tainted
      /\ errors' = TRUE /\ open' = <<>>
  BY DEF Report, Doing
<1>2. /\ TypeOK /\ Order /\ stack # <<>> /\ stack \in Seq(Frames) /\ n \in 1 .. Len(stack)
      /\ p \in Paths /\ p.code # <<>> /\ item = Head(p.code) /\ p.code = stack[n].code
      /\ stack[n] \in Frames /\ Top = stack[n] /\ Sure(p, n) /\ Seen(p)
  BY <1>1, AtItem
<1>3. stack[n].moved \in BOOLEAN /\ stack[n].marked \in BOOLEAN
  BY <1>2 DEF Frames
<1> DEFINE q == [p EXCEPT !.code = Tail(@), !.sure = @ \cup {"told"}]
           g == [stack[n] EXCEPT !.code = q.code, !.marked = stack[n].marked, !.moved = stack[n].moved]
<1>4. q \in Paths
  BY <1>1, <1>2, AfterNote, AfterCode
<1>5. /\ q.rule = p.rule /\ q.is = p.is /\ q.body = p.body /\ q.sure = p.sure \cup {"told"}
      /\ q.result = p.result /\ q.next = p.next /\ q.second = p.second /\ q.gap = p.gap /\ q.opens = p.opens
      /\ q.code = Tail(stack[n].code)
  BY <1>2, PathForm DEF Fields
<1> HIDE DEF q
<1>6. stack' = [stack EXCEPT ![n].code = Tail(stack[n].code)]
  BY <1>2 DEF Report, Goto
<1>7. stack' = [stack EXCEPT ![n] = g] /\ g.is = stack[n].is /\ g.moved = stack[n].moved
  BY <1>2, <1>5, <1>6 DEF Frames
<1>8. Sure(q, n)'
  <2> HIDE DEF g
  <2> QED
    BY <1>2, <1>5, <1>7, SureStays
<1>9. Seen(q)'
  BY <1>1, <1>2, <1>5 DEF Seen, Knows, MayBe, AtEnd, Tok, KnowsGap
<1> QED
  BY <1>1, <1>2, <1>3, <1>4, <1>5, <1>7, <1>8, <1>9, Proceed

LEMMA RefuseFollows ==
    ASSUME GrammarIsSound, Follows, Refuse
    PROVE  Follows'
<1> SUFFICES ASSUME NEW w \in Seq(Paths), Fit(w), NEW n, n = Len(stack), NEW p, p = w[n], NEW item, item = Item
             PROVE  Follows'
  BY DEF Follows
<1>1. Ready /\ item.do = "want" /\ Tok(1) \notin item.on /\ alphabet' = alphabet /\ look' = look /\ kind' = kind
      /\ tainted' = tainted /\ errors' = TRUE /\ open' = <<>>
  BY DEF Refuse, Doing
<1>2. /\ TypeOK /\ Order /\ stack # <<>> /\ stack \in Seq(Frames) /\ n \in 1 .. Len(stack)
      /\ p \in Paths /\ p.code # <<>> /\ item = Head(p.code) /\ p.code = stack[n].code
      /\ stack[n] \in Frames /\ Top = stack[n] /\ Sure(p, n) /\ Seen(p)
      /\ look \in Seq(Tokens) /\ 1 <= Len(look)
  BY <1>1, AtItem
<1>3. stack[n].moved \in BOOLEAN /\ stack[n].marked \in BOOLEAN
  BY <1>2 DEF Frames
<1> DEFINE k == Not(p.next, item.on)
           q == [p EXCEPT !.code = <<Fail>>, !.sure = @ \cup {"told"}, !.next = k]
           g == [stack[n] EXCEPT !.code = q.code, !.marked = stack[n].marked, !.moved = stack[n].moved]
<1>4. Possible(k) /\ Knows(1, k)
  <2>1. Fits(Tok(1), p.next)
    BY <1>2, Known DEF Seen
  <2>2. Fits(Tok(1), k)
    BY <1>1, <2>1, FitsOnly
  <2> HIDE DEF k
  <2> QED
    BY <1>2, <2>2, FitsPossible, Known
<1>5. q \in Paths
  BY <1>1, <1>2, <1>4, AfterWant, AfterCode
<1> HIDE DEF k
<1>6. /\ q.rule = p.rule /\ q.is = p.is /\ q.body = p.body /\ q.sure = p.sure \cup {"told"}
      /\ q.result = p.result /\ q.next = k /\ q.second = p.second /\ q.gap = p.gap /\ q.opens = p.opens
      /\ q.code = <<Fail>>
  BY <1>2, PathForm DEF Fields
<1> HIDE DEF q
<1>7. stack' = [stack EXCEPT ![n].code = <<Fail>>]
  BY DEF Refuse, Goto
<1>8. stack' = [stack EXCEPT ![n] = g] /\ g.is = stack[n].is /\ g.moved = stack[n].moved
  BY <1>2, <1>6, <1>7 DEF Frames
<1>9. Sure(q, n)'
  <2> HIDE DEF g
  <2> QED
    BY <1>2, <1>6, <1>8, SureStays
<1>10. Seen(q)'
  BY <1>1, <1>2, <1>4, <1>6 DEF Seen, Knows, MayBe, AtEnd, Tok, KnowsGap
<1> QED
  BY <1>1, <1>2, <1>3, <1>5, <1>6, <1>8, <1>9, <1>10, Proceed

\* A loop or an attempt of the same rule.
LEMMA InnerIs ==
    ASSUME GrammarIsSound, NEW p \in Paths, NEW is, NEW body, NEW code
    PROVE  /\ Inner(p, is, body, code).is = is /\ Inner(p, is, body, code).rule = p.rule
           /\ Inner(p, is, body, code).body = body /\ Inner(p, is, body, code).code = code
           /\ Inner(p, is, body, code).sure = p.sure \cap {"far"} /\ Inner(p, is, body, code).result = "any"
           /\ Inner(p, is, body, code).next = p.next /\ Inner(p, is, body, code).second = p.second
           /\ Inner(p, is, body, code).gap = p.gap /\ Inner(p, is, body, code).opens = <<>>
           /\ Inner(Unseen(p), is, body, code).is = is /\ Inner(Unseen(p), is, body, code).rule = p.rule
           /\ Inner(Unseen(p), is, body, code).body = body /\ Inner(Unseen(p), is, body, code).code = code
           /\ Inner(Unseen(p), is, body, code).sure = p.sure \cap {"far"}
           /\ Inner(Unseen(p), is, body, code).result = "any"
           /\ Inner(Unseen(p), is, body, code).next = AnyToken /\ Inner(Unseen(p), is, body, code).second = AnyToken
           /\ Inner(Unseen(p), is, body, code).gap = Gaps /\ Inner(Unseen(p), is, body, code).opens = <<>>
  BY PathForm DEF Inner, Unseen, Fields

LEMMA NextRoundFollows ==
    ASSUME GrammarIsSound, Follows, NextRound
    PROVE  Follows'
<1> SUFFICES ASSUME NEW w \in Seq(Paths), Fit(w), NEW n, n = Len(stack), NEW p, p = w[n]
             PROVE  Follows'
  BY DEF Follows
<1>1. TypeOK /\ Order /\ look \in Seq(Tokens) /\ stack \in Seq(Frames) /\ stack # <<>>
      /\ Top.code = <<>> /\ Top.is = "loop"
      /\ alphabet' = alphabet /\ look' = look /\ kind' = kind /\ errors' = errors /\ open' = open /\ tainted' = tainted
  BY DEF NextRound, Finished, Follows, TypeOK, history
<1>2. /\ n \in Nat \ {0} /\ n \in 1 .. n /\ n \in 1 .. Len(stack) /\ p \in Paths /\ Sure(p, n) /\ Seen(p)
      /\ Top = stack[n] /\ stack[n] \in Frames /\ Sound(p) /\ p.code = <<>>
      /\ p.is = "loop" /\ stack[n].is = "loop" /\ p.rule = stack[n].rule /\ p.body = stack[n].body
  BY <1>1, OnTop DEF Mirrors
<1> DEFINE q == Inner(Unseen(p), "loop", p.body, p.body)
           g == [stack[n] EXCEPT !.code = q.code, !.marked = stack[n].marked, !.moved = FALSE]
<1>3. q \in Paths
  BY <1>2, AfterRound, AfterCode
<1>4. /\ q.is = "loop" /\ q.rule = p.rule /\ q.body = p.body /\ q.code = p.body /\ q.sure = p.sure \cap {"far"}
      /\ q.result = "any" /\ q.next = AnyToken /\ q.second = AnyToken /\ q.gap = Gaps /\ q.opens = <<>>
  BY <1>2, InnerIs
<1>5. p.opens = <<>>
  BY <1>2 DEF Sound, EndsWell
<1> HIDE DEF q
<1>6. stack[n].marked \in BOOLEAN
  BY <1>2 DEF Frames
<1>7. stack' = [stack EXCEPT ![n].code = stack[n].body, ![n].moved = FALSE]
  BY <1>2 DEF NextRound
<1>8. stack' = [stack EXCEPT ![n] = g] /\ g.is = stack[n].is
  <2>1. q.code = stack[n].body
    BY <1>2, <1>4
  <2>2. stack' = [stack EXCEPT ![n] = [stack[n] EXCEPT !.code = q.code, !.moved = FALSE]]
    BY <1>1, <1>2, <1>7, <2>1
  <2>3. g = [stack[n] EXCEPT !.code = q.code, !.moved = FALSE] /\ g.is = stack[n].is
    BY <1>2 DEF Frames
  <2> HIDE DEF g
  <2> QED
    BY <2>2, <2>3
<1> HIDE DEF g
<1>9. Far(n) => Far(n)'
  <2> SUFFICES ASSUME Far(n) PROVE Far(n)'
    OBVIOUS
  <2>1. PICK k \in 1 .. n : stack[k].moved /\ \A h \in k + 1 .. n : stack[h].is # "rule"
    BY DEF Far
  <2>2. \A i \in 1 .. n : stack'[i].is = stack[i].is /\ (i # n => stack'[i].moved = stack[i].moved)
    BY <1>1, <1>2, <1>8
  <2>3. CASE k # n
    <3>1. stack'[k].moved
      BY <2>1, <2>2, <2>3
    <3>2. \A h \in k + 1 .. n : stack'[h].is # "rule"
      <4>1. \A h \in k + 1 .. n : h \in 1 .. n
        BY <1>2
      <4> QED
        BY <2>1, <2>2, <4>1
    <3> QED
      BY <3>1, <3>2 DEF Far
  <2>4. CASE k = n
    <3>1. n # 1
      BY <1>1, <1>2 DEF Order, Grounded
    <3>2. n \in 2 .. Len(stack) /\ n - 1 \in 1 .. n /\ n - 1 # n /\ \A h \in (n - 1) + 1 .. n : h = n
      BY <1>2, <3>1
    <3>3. stack[n - 1].moved
      BY <1>1, <1>2, <2>1, <2>4, <3>2 DEF Order, MovedBelow
    <3>4. stack'[n - 1].moved /\ \A h \in (n - 1) + 1 .. n : stack'[h].is # "rule"
      BY <1>2, <2>2, <3>2, <3>3
    <3> QED
      BY <3>2, <3>4 DEF Far
  <2> QED
    BY <2>3, <2>4
<1>10. Sure(q, n)'
  BY <1>2, <1>4, <1>9 DEF Sure
<1>11. Seen(q)'
  <2>1. Seen(q)
    BY <1>1, <1>4, SeenNothing
  <2> QED
    BY <1>1, <2>1, SeenStays
<1>12. q.is = p.is /\ q.rule = p.rule /\ q.body = p.body /\ q.opens = p.opens
  BY <1>2, <1>4, <1>5
<1> QED
  BY <1>1, <1>3, <1>6, <1>8, <1>10, <1>11, <1>12, Proceed DEF g

(***************************************************************************)
(* The steps that take a token.                                            *)
(***************************************************************************)
LEMMA InnermostIs ==
    ASSUME stack \in Seq(Frames)
    PROVE  /\ Innermost \in 0 .. Len(stack)
           /\ Innermost # 0 => Innermost \in 1 .. Len(stack) /\ stack[Innermost].is = "attempt"
           /\ \A h \in 1 .. Len(stack) : h > Innermost => stack[h].is # "attempt"
<1> DEFINE S == {0} \cup Attempts
<1>1. S \in SUBSET (0 .. Len(stack)) /\ S # {} /\ Len(stack) \in Nat
  BY DEF Attempts
<1>2. Max(S) \in S /\ \A y \in S : y <= Max(S)
  BY <1>1, GreatestUpTo
<1>3. Innermost = Max(S)
  BY DEF Innermost
<1> HIDE DEF S
<1>4. Innermost \in 0 .. Len(stack)
  BY <1>1, <1>2, <1>3
<1>5. Innermost # 0 => Innermost \in 1 .. Len(stack) /\ stack[Innermost].is = "attempt"
  BY <1>2, <1>3 DEF S, Attempts
<1>6. ASSUME NEW h \in 1 .. Len(stack), h > Innermost
      PROVE  stack[h].is # "attempt"
  <2>1. Max(S) \in 0 .. Len(stack)
    BY <1>3, <1>4
  <2>2. h > Max(S)
    BY <1>3, <1>6
  <2>3. h \notin S
    <3> SUFFICES ASSUME h \in S PROVE FALSE
      OBVIOUS
    <3>1. h <= Max(S)
      BY <1>2
    <3> QED
      BY <1>1, <2>1, <2>2, <3>1
  <2> QED
    BY <2>3 DEF S, Attempts
<1> QED
  BY <1>4, <1>5, <1>6

\* The next token is known once the one before it is taken.
LEMMA KnowsShift ==
    ASSUME look \in Seq(Tokens), look # <<>>, look[1].token # "eof", look' = Tail(look), NEW l, Knows(2, l)
    PROVE  Knows(1, l)'
<1> SUFFICES ASSUME NEW t \in Texts, MayBe(1, t)' PROVE MayBe(2, t)
  BY DEF Knows
<1>1. Len(look) \in Nat /\ Len(look) # 0 /\ Len(look') = Len(look) - 1
      /\ \A k \in 1 .. Len(look') : look'[k] = look[k + 1]
  BY HeadTailProperties
<1>2. CASE 2 <= Len(look)
  <2>1. 1 <= Len(look') /\ look'[1] = look[2]
    BY <1>1, <1>2
  <2>2. Tok(1)' = Tok(2)
    BY <1>2, <2>1 DEF Tok
  <2>3. t = Tok(1)'
    BY <2>1 DEF MayBe
  <2> QED
    BY <2>2, <2>3 DEF MayBe
<1>3. CASE ~ (2 <= Len(look))
  <2>1. Len(look) = 1
    BY <1>1, <1>3
  <2>2. ~AtEnd
    BY <2>1 DEF AtEnd
  <2> QED
    BY <1>3, <2>2 DEF MayBe
<1> QED
  BY <1>2, <1>3

\* The frames once a token is taken.
Taken(n, code) ==
  /\ stack' \in Seq(Frames) /\ Len(stack') = n /\ stack'[n].code = code
  /\ \A i \in 1 .. n : /\ stack'[i].is = stack[i].is /\ stack'[i].rule = stack[i].rule
                       /\ stack'[i].body = stack[i].body /\ stack'[i].tried = stack[i].tried
                       /\ stack'[i].saved = stack[i].saved
                       /\ stack'[i].moved = (stack[i].moved \/ i >= Innermost)
                       /\ stack'[i].trail = IF i = Innermost THEN Append(stack[i].trail, look[1]) ELSE stack[i].trail
                       /\ i # n => stack'[i].code = stack[i].code

\* The path once one is.
Further(q, p) ==
  /\ q.is = p.is /\ q.rule = p.rule /\ q.body = p.body
  /\ q.sure = p.sure \cup {"moved", "far"} /\ q.result = p.result
  /\ q.next = p.second /\ q.second = AnyToken /\ q.gap = Gaps

LEMMA Advances ==
    ASSUME GrammarIsSound, TypeOK, Order, NEW w \in Seq(Paths), Fit(w), stack # <<>>, NEW n, n = Len(stack),
           look # <<>>, look[1].token # "eof", look' = Tail(look),
           NEW q \in Paths, Taken(n, q.code), Further(q, w[n]),
           alphabet' = alphabet, kind' = kind, errors' = errors, open' \in Seq(Texts), tainted' \in BOOLEAN,
           ~errors' /\ ~tainted' => Nest(NewTop(w, n, q), n, open')
    PROVE  Follows'
<1>a. /\ stack' \in Seq(Frames) /\ Len(stack') = n /\ stack'[n].code = q.code
      /\ \A i \in 1 .. n : /\ stack'[i].is = stack[i].is /\ stack'[i].rule = stack[i].rule
                           /\ stack'[i].body = stack[i].body /\ stack'[i].tried = stack[i].tried
                           /\ stack'[i].saved = stack[i].saved
                           /\ stack'[i].moved = (stack[i].moved \/ i >= Innermost)
                           /\ stack'[i].trail = IF i = Innermost THEN Append(stack[i].trail, look[1]) ELSE stack[i].trail
                           /\ i # n => stack'[i].code = stack[i].code
  BY DEF Taken
<1>b. /\ q.is = w[n].is /\ q.rule = w[n].rule /\ q.body = w[n].body
      /\ q.sure = w[n].sure \cup {"moved", "far"} /\ q.result = w[n].result
      /\ q.next = w[n].second /\ q.second = AnyToken /\ q.gap = Gaps
  BY DEF Further
<1>1. n \in Nat /\ n # 0 /\ n \in 1 .. n /\ Len(w) = n /\ Mirrors(w[n], stack[n]) /\ stack \in Seq(Frames)
      /\ look \in Seq(Tokens) /\ look[1] \in Tokens
  BY OnTop DEF Top, TypeOK
<1>2. /\ Innermost \in 0 .. n
      /\ Innermost # 0 => Innermost \in 1 .. n /\ stack[Innermost].is = "attempt"
      /\ \A h \in 1 .. n : h > Innermost => stack[h].is # "attempt"
  BY <1>1, InnermostIs
<1>3. look' \in Seq(Tokens)
  BY <1>1, HeadTailProperties
<1>4. ASSUME NEW i \in 1 .. n
      PROVE  stack[i].trail \in Seq(Tokens) /\ (stack[i].trail # <<>> => stack'[i].trail # <<>>)
             /\ Append(stack[i].trail, look[1]) # <<>>
             /\ Len(Append(stack[i].trail, look[1])) = Len(stack[i].trail) + 1
             /\ Append(stack[i].trail, look[1])[Len(stack[i].trail) + 1] = look[1]
             /\ \A k \in 1 .. Len(stack[i].trail) : Append(stack[i].trail, look[1])[k] = stack[i].trail[k]
  <2>1. stack[i] \in Frames
    BY <1>a, <1>1, <1>4
  <2>2. stack[i].trail \in Seq(Tokens)
    BY <1>a, <2>1 DEF Frames
  <2>3. /\ Append(stack[i].trail, look[1]) \in Seq(Tokens)
        /\ Len(Append(stack[i].trail, look[1])) = Len(stack[i].trail) + 1
        /\ Append(stack[i].trail, look[1])[Len(stack[i].trail) + 1] = look[1]
        /\ \A k \in 1 .. Len(stack[i].trail) : Append(stack[i].trail, look[1])[k] = stack[i].trail[k]
    BY <1>1, <2>2, Appended
  <2>4. Append(stack[i].trail, look[1]) # <<>>
    BY <1>1, <2>2, AppendedIsFull
  <2>5. stack[i].trail # <<>> => stack'[i].trail # <<>>
    BY <1>a, <2>4
  <2> QED
    BY <1>a, <2>2, <2>3, <2>4, <2>5
<1>5. Lower(n) /\ Resumes(stack[n], stack'[n])
  <2>1. \A i \in 1 .. n - 1 : i \in 1 .. n
    BY <1>a, <1>1
  <2> QED
    BY <1>a, <1>1, <1>4, <2>1 DEF Lower, Keeps, Resumes
<1>6. TypeOK'
  BY <1>a, <1>3, <1>1 DEF TypeOK
<1>7. MovedBelow'
  <2>1. ASSUME NEW i \in 2 .. n, stack'[i].moved, stack'[i].is # "attempt"
        PROVE  stack'[i - 1].moved
    <3>1. i \in 1 .. n /\ i - 1 \in 1 .. n /\ i \in 2 .. Len(stack)
      BY <1>a, <1>1
    <3>2. CASE i - 1 >= Innermost
      BY <1>a, <3>1, <3>2
    <3>3. CASE ~ (i - 1 >= Innermost)
      <4>1. i # Innermost
        BY <1>a, <1>1, <1>2, <2>1, <3>1
      <4>2. ~ (i >= Innermost)
        BY <1>a, <1>2, <3>1, <3>3, <4>1
      <4>3. stack[i].moved /\ stack[i].is # "attempt"
        BY <1>a, <2>1, <3>1, <4>2
      <4>4. stack[i - 1].moved
        BY <1>a, <3>1, <4>3 DEF Order, MovedBelow
      <4> QED
        BY <1>a, <3>1, <4>4
    <3> QED
      BY <1>a, <3>2, <3>3
  <2> QED
    BY <1>a, <2>1 DEF MovedBelow
<1>8. Trails'
  <2>1. ASSUME NEW i \in 1 .. n, NEW k \in 1 .. Len(stack'[i].trail)
        PROVE  stack'[i].trail[k].token # "eof"
    <3>1. \A x \in 1 .. Len(stack[i].trail) : stack[i].trail[x].token # "eof"
      BY <1>a DEF Order, Trails
    <3>2. CASE i = Innermost
      <4>1. stack'[i].trail = Append(stack[i].trail, look[1])
        BY <1>a, <3>2
      <4>2. k \in 1 .. Len(stack[i].trail) \/ k = Len(stack[i].trail) + 1
        BY <1>a, <1>4, <4>1
      <4> QED
        BY <1>a, <1>4, <3>1, <4>1, <4>2
    <3>3. CASE i # Innermost
      BY <1>a, <3>1, <3>3
    <3> QED
      BY <1>a, <3>2, <3>3
  <2> QED
    BY <1>a, <2>1 DEF Trails
<1>9. Order'
  BY <1>a, <1>1, <1>5, <1>7, <1>8, OrderKept
<1> DEFINE v == NewTop(w, n, q)
<1>0. n \in 1 .. Len(stack) /\ n \in 1 .. Len(stack) + 1 /\ n \in 1 .. Len(w) + 1
      /\ Linked(w) /\ Certain(w) /\ Awaited(w) /\ Nested(w)
  BY <1>a, <1>1 DEF Fit
<1>10. v \in Seq(Paths) /\ Len(v) = n /\ v[n] = q /\ \A i \in 1 .. n - 1 : v[i] = w[i]
  <2>0. n \in 1 .. Len(w) + 1
    BY <1>a, <1>0
  <2>1. /\ NewTop(w, n, q) \in Seq(Paths) /\ Len(NewTop(w, n, q)) = n /\ NewTop(w, n, q)[n] = q
        /\ \A i \in 1 .. n - 1 : NewTop(w, n, q)[i] = w[i]
    BY <2>0, NewTopIs
  <2> QED
    BY <1>a, <2>1
<1>11. Linked(v)'
  <2>1. \A i \in 1 .. n - 1 : stack'[i].code = stack[i].code
    <3>1. \A i \in 1 .. n - 1 : i \in 1 .. n /\ i # n
      BY <1>a, <1>1
    <3> QED
      BY <1>a, <3>1
  <2>2. n > 1 => Suspends(w[n - 1], stack'[n - 1], stack'[n])
    BY <1>a, <1>0, <1>1, <1>5, <2>1, ResumesSuspended
  <2>3. Mirrors(q, stack'[n]) /\ q.code = stack'[n].code
    BY <1>a, <1>b, <1>1 DEF Mirrors
  <2>4. \A i \in 1 .. n - 2 : stack'[i].code = stack[i].code
    BY <1>a, <1>1, <2>1
  <2> QED
    BY <1>a, <1>0, <1>1, <1>5, <2>2, <2>3, <2>4, LinkedNew
<1>12. Sure(q, n)'
  <2>1. stack'[n].moved
    <3>1. n >= Innermost
      BY <1>a, <1>1, <1>2
    <3> QED
      BY <1>a, <1>1, <3>1
  <2>2. \A h \in n + 1 .. n : FALSE
    BY <1>a, <1>1
  <2>3. Far(n)'
    BY <1>a, <1>1, <2>1, <2>2 DEF Far
  <2> QED
    BY <2>1, <2>3 DEF Sure
<1>13. Certain(v)'
  BY <1>a, <1>0, <1>1, <1>5, <1>12, CertainNew
<1>14. Awaited(v)'
  <2>1. ASSUME NEW i \in 1 .. n - 1, ~stack'[i].moved
        PROVE  \E h \in i + 1 .. n : stack'[h].is = "attempt" /\ stack'[h].trail # <<>>
    <3>0. i \in 1 .. n /\ stack'[i].moved = (stack[i].moved \/ i >= Innermost)
      BY <1>a, <1>1
    <3>1. ~ (i >= Innermost)
      BY <1>a, <2>1, <3>0
    <3>2. Innermost \in i + 1 .. n /\ Innermost \in 1 .. n /\ stack[Innermost].is = "attempt"
      BY <1>a, <1>1, <1>2, <3>0, <3>1
    <3>3. stack'[Innermost].trail = Append(stack[Innermost].trail, look[1])
      BY <1>a, <3>2
    <3> QED
      BY <1>a, <1>4, <3>2, <3>3
  <2> HIDE DEF v
  <2> QED
    BY <1>a, <2>1 DEF Awaited, Awaits
<1>15. Nested(v)'
  <2>1. stack'[n].is = "attempt" /\ ~stack'[n].saved[1] /\ ~stack'[n].saved[3]
             => Nest(w, n - 1, stack'[n].saved[2])
    <3>1. stack'[n].is = stack[n].is /\ stack'[n].saved = stack[n].saved
      BY <1>a, <1>1
    <3>2. stack[n].is = "attempt" /\ ~stack[n].saved[1] /\ ~stack[n].saved[3]
             => Nest(w, n - 1, stack[n].saved[2])
      BY <1>a, <1>0 DEF Nested
    <3> QED
      BY <1>a, <3>1, <3>2
  <2> HIDE DEF v
  <2>2. ~errors' /\ ~tainted' => Nest(NewTop(w, n, q), n, open')
    OBVIOUS
  <2> QED
    BY <1>a, <1>0, <1>1, <1>5, <2>1, <2>2, NestedNew DEF v
<1>16. Seen(q)'
  <2>1. Seen(w[n])
    BY <1>a, <1>1, OnTop
  <2>2. Knows(1, q.next)'
    BY <1>b, <1>1, <2>1, KnowsShift DEF Seen
  <2>3. Knows(2, q.second)'
    BY <1>b, FitsAny DEF Knows
  <2>4. KnowsGap(Gaps)'
    <3>1. CASE look' = <<>>
      BY <1>a, <3>1 DEF KnowsGap, Gaps
    <3>2. CASE look' # <<>>
      <4>1. look'[1] \in Tokens
        BY <1>a, <1>3, <3>2
      <4> QED
        BY <1>a, <3>2, <4>1 DEF KnowsGap, Tokens
    <3> QED
      BY <1>a, <3>1, <3>2
  <2> QED
    BY <1>b, <2>1, <2>2, <2>3, <2>4 DEF Seen
<1>17. Fit(v)'
  <2> HIDE DEF v
  <2> QED
    BY <1>a, <1>10, <1>11, <1>13, <1>14, <1>15, <1>16 DEF Fit
<1> QED
  BY <1>a, <1>6, <1>9, <1>10, <1>17 DEF Follows

With(f, moved, trail, code, name) == [f EXCEPT !.moved = moved, !.trail = trail, !.code = code, !.name = name]

LEMMA FrameTakes ==
    ASSUME NEW f \in Frames, NEW moved \in BOOLEAN, NEW trail \in Seq(Tokens), NEW code \in Seq(Items),
           NEW name \in Texts, NEW g, g = With(f, moved, trail, code, name)
    PROVE  /\ g \in Frames /\ g.is = f.is /\ g.rule = f.rule /\ g.body = f.body /\ g.tried = f.tried
           /\ g.saved = f.saved /\ g.moved = moved /\ g.trail = trail /\ g.code = code
  BY DEF Frames, With

\* Frame i with the token in front taken.
Takes1(i, code, name) ==
  [stack[i] EXCEPT !.moved = @ \/ i >= Innermost,
                   !.trail = IF i = Innermost THEN Append(@, look[1]) ELSE @,
                   !.code  = IF i = Len(stack) THEN code ELSE @,
                   !.name  = IF i = Len(stack) THEN name ELSE @]

AllTake(code, name) == stack' = [i \in DOMAIN stack |-> Takes1(i, code, name)]

LEMMA NotEmpty ==
    ASSUME NEW S, NEW s \in Seq(S), s # <<>>
    PROVE  Len(s) \in Nat /\ Len(s) # 0 /\ Len(s) \in 1 .. Len(s) /\ DOMAIN s = 1 .. Len(s) /\ s[1] \in S
           /\ \A i \in 1 .. Len(s) : s[i] \in S
<1>1. Len(s) \in Nat /\ Len(s) # 0 /\ DOMAIN s = 1 .. Len(s)
  OBVIOUS
<1>2. 1 \in 1 .. Len(s) /\ Len(s) \in 1 .. Len(s)
  BY <1>1
<1> QED
  BY <1>1, <1>2

LEMMA TakenIs ==
    ASSUME stack \in Seq(Frames), stack # <<>>, NEW n, n = Len(stack), look \in Seq(Tokens), look # <<>>,
           NEW code \in Seq(Items), NEW name \in Texts, AllTake(code, name)
    PROVE  Taken(n, code)
<1>1. n \in Nat /\ n # 0 /\ n \in 1 .. n /\ DOMAIN stack = 1 .. n /\ look[1] \in Tokens
  BY NotEmpty
<1>2. ASSUME NEW i \in 1 .. n
      PROVE  /\ stack'[i] \in Frames /\ stack'[i].is = stack[i].is /\ stack'[i].rule = stack[i].rule
             /\ stack'[i].body = stack[i].body /\ stack'[i].tried = stack[i].tried /\ stack'[i].saved = stack[i].saved
             /\ stack'[i].moved = (stack[i].moved \/ i >= Innermost)
             /\ stack'[i].trail = (IF i = Innermost THEN Append(stack[i].trail, look[1]) ELSE stack[i].trail)
             /\ stack'[i].code = (IF i = n THEN code ELSE stack[i].code)
  <2> DEFINE moved == stack[i].moved \/ i >= Innermost
             trail == IF i = Innermost THEN Append(stack[i].trail, look[1]) ELSE stack[i].trail
             c == IF i = n THEN code ELSE stack[i].code
             x == IF i = n THEN name ELSE stack[i].name
             g == With(stack[i], moved, trail, c, x)
  <2>1. stack[i] \in Frames
    BY <1>1
  <2>2. stack[i].trail \in Seq(Tokens) /\ stack[i].code \in Seq(Items) /\ stack[i].name \in Texts
    BY <2>1 DEF Frames
  <2>3. Append(stack[i].trail, look[1]) \in Seq(Tokens)
    BY <1>1, <2>2, AppendProperties
  <2>4. moved \in BOOLEAN /\ trail \in Seq(Tokens) /\ c \in Seq(Items) /\ x \in Texts
    BY <2>2, <2>3
  <2>5. stack'[i] = g
    <3>1. stack'[i] = Takes1(i, code, name)
      BY <1>1 DEF AllTake
    <3>2. Takes1(i, code, name) = g
      BY <2>1 DEF Takes1, With, Frames
    <3> QED
      BY <3>1, <3>2
  <2> HIDE DEF moved, trail, c, x
  <2>7. g = With(stack[i], moved, trail, c, x)
    OBVIOUS
  <2> HIDE DEF g
  <2>6. /\ g \in Frames /\ g.is = stack[i].is /\ g.rule = stack[i].rule /\ g.body = stack[i].body
        /\ g.tried = stack[i].tried /\ g.saved = stack[i].saved /\ g.moved = moved /\ g.trail = trail /\ g.code = c
    BY <2>1, <2>4, <2>7, FrameTakes
  <2> QED
    BY <2>5, <2>6 DEF moved, trail, c
<1>3. stack' \in Seq(Frames) /\ Len(stack') = n
  <2>1. DOMAIN stack' = 1 .. n /\ stack' = [i \in 1 .. n |-> stack'[i]]
    BY <1>1 DEF AllTake
  <2>2. \A i \in 1 .. n : stack'[i] \in Frames
    BY <1>2
  <2>3. stack' \in [1 .. n -> Frames]
    BY <2>1, <2>2
  <2>4. stack' \in Seq(Frames)
    BY <1>1, <2>3, SeqDef, Zenon
  <2> QED
    BY <1>1, <2>1, <2>4
<1>4. stack'[n].code = code
  BY <1>1, <1>2
<1>5. \A i \in 1 .. n : i # n => stack'[i].code = stack[i].code
  BY <1>2
<1> QED
  BY <1>2, <1>3, <1>4, <1>5 DEF Taken

LEMMA AdvanceIs ==
    ASSUME stack \in Seq(Frames), stack # <<>>, NEW n, n = Len(stack), look \in Seq(Tokens), look # <<>>,
           NEW code \in Seq(Items), Tok(1) # "eof", Advance(code)
    PROVE  look[1].token = Tok(1) /\ look' = Tail(look) /\ Taken(n, code)
<1>1. n \in 1 .. n /\ DOMAIN stack = 1 .. n /\ 1 <= Len(look) /\ stack[n] \in Frames
  <2>1. n \in 1 .. n /\ DOMAIN stack = 1 .. n /\ stack[n] \in Frames
    BY NotEmpty
  <2>2. Len(look) \in Nat /\ Len(look) # 0
    BY NotEmpty
  <2> QED
    BY <2>1, <2>2
<1>2. look[1].token = Tok(1) /\ look' = Tail(look)
  BY <1>1 DEF Tok, Advance
<1> DEFINE F(i) == [stack[i] EXCEPT !.moved = @ \/ i >= Innermost,
                                    !.trail = IF i = Innermost THEN Append(@, look[1]) ELSE @,
                                    !.code  = IF i = Len(stack) THEN code ELSE @]
           name == stack[n].name
<1>3. stack' = [i \in DOMAIN stack |-> F(i)]
  BY DEF Advance
<1>4. ASSUME NEW i \in DOMAIN stack
      PROVE  F(i) = Takes1(i, code, name)
  <2>1. stack[i] \in Frames
    BY <1>1, <1>4
  <2>2. i = Len(stack) => name = stack[i].name
    OBVIOUS
  <2>3. (IF i = Len(stack) THEN name ELSE stack[i].name) = stack[i].name
    BY <2>2
  <2> HIDE DEF name
  <2> QED
    BY <2>1, <2>3 DEF Takes1, Frames
<1>5. AllTake(code, name)
  <2> HIDE DEF F, name
  <2> QED
    BY <1>3, <1>4 DEF AllTake
<1>6. name \in Texts
  BY <1>1 DEF Frames
<1> HIDE DEF F, name
<1>7. Taken(n, code)
  BY <1>5, <1>6, TakenIs
<1> QED
  BY <1>2, <1>7

\* A path that takes a token.
LEMMA TakesIs ==
    ASSUME GrammarIsSound, NEW p \in Paths, NEW opens
    PROVE  /\ DOMAIN Takes(p, opens) = Fields /\ Further(Takes(p, opens), p)
           /\ Takes(p, opens).opens = opens /\ Takes(p, opens).code = Tail(p.code)
  BY PathForm DEF Takes, Fields, Further

LEMMA OpenedIs ==
    ASSUME open \in Seq(Texts), NEW t \in Texts
    PROVE  Opened(t) \in Seq(Texts)
<1>1. Append(open, t) \in Seq(Texts)
  BY AppendProperties
<1>2. Append(open, "mismatch") \in Seq(Texts)
  BY TextsHold, AppendProperties
<1>3. open # <<>> => SubSeq(open, 1, Len(open) - 1) \in Seq(Texts)
  BY Front
<1>4. <<>> \in Seq(Texts)
  OBVIOUS
<1> QED
  BY <1>1, <1>2, <1>3, <1>4 DEF Opened

\* The paths v are w with a token taken at the top.
Turns(w, v, n, t) ==
  /\ \A k \in 1 .. n - 1 : v[k].opens = w[k].opens
  /\ v[n].opens = Opens(w[n].opens, t)

LEMMA ClosesNest ==
    ASSUME NEW w, NEW v, NEW i \in Nat \ {0}, NEW o \in Seq(Texts), Nest(w, i, o),
           w[i].opens \in Seq(Texts), w[i].opens # <<>>,
           \A k \in 1 .. i - 1 : v[k].opens = w[k].opens,
           v[i].opens = SubSeq(w[i].opens, 1, Len(w[i].opens) - 1)
    PROVE  /\ o # <<>> /\ o[Len(o)] = w[i].opens[Len(w[i].opens)]
           /\ Nest(v, i, SubSeq(o, 1, Len(o) - 1))
<1> DEFINE S == Texts
<1>1. o \in Seq(S) /\ w[i].opens \in Seq(S)
  OBVIOUS
<1> HIDE DEF S
<1> QED
  BY <1>1, NestCloses

LEMMA OpenedNest ==
    ASSUME open \in Seq(Texts), ~errors, ~tainted, NEW n \in Nat \ {0}, NEW w, NEW v,
           w[n].opens \in Seq(Texts), NEW t \in Texts, Closes(w[n].opens, t), Nest(w, n, open),
           Turns(w, v, n, t)
    PROVE  Nest(v, n, Opened(t))
<1>0. \A k \in 1 .. n - 1 : v[k].opens = w[k].opens
  BY DEF Turns
<1>1. CASE t \in DOMAIN Brackets
  <2>1. Opened(t) = Append(open, t)
    BY <1>1 DEF Opened
  <2>2. v[n].opens = Append(w[n].opens, t)
    BY <1>1 DEF Opens, Turns
  <2>3. Nest(v, n, Append(open, t))
    BY <1>0, <2>2, NestOpens
  <2> QED
    BY <2>1, <2>3
<1>2. CASE t \in BracketTokens \ DOMAIN Brackets
  <2>1. w[n].opens # <<>> /\ w[n].opens[Len(w[n].opens)] \in DOMAIN Brackets
        /\ Brackets[w[n].opens[Len(w[n].opens)]] = t
    BY <1>2 DEF Closes
  <2>2. v[n].opens = SubSeq(w[n].opens, 1, Len(w[n].opens) - 1)
    BY <1>2 DEF Opens, Turns
  <2>3. /\ open # <<>> /\ open[Len(open)] = w[n].opens[Len(w[n].opens)]
        /\ Nest(v, n, SubSeq(open, 1, Len(open) - 1))
    <3>1. w[n].opens # <<>>
      BY <2>1
    <3> QED
      BY <1>0, <2>2, <3>1, ClosesNest
  <2>4. t \in {Brackets[b] : b \in DOMAIN Brackets}
    BY <2>1
  <2>5. Opened(t) = SubSeq(open, 1, Len(open) - 1)
    <3>1. t \notin DOMAIN Brackets /\ ~ (errors \/ tainted)
      BY <1>2
    <3>2. open # <<>> /\ open[Len(open)] \in DOMAIN Brackets /\ Brackets[open[Len(open)]] = t
      BY <2>1, <2>3
    <3> QED
      BY <2>4, <3>1, <3>2 DEF Opened
  <2> QED
    BY <2>3, <2>5
<1>3. CASE t \notin BracketTokens
  <2>1. t \notin DOMAIN Brackets /\ t \notin {Brackets[b] : b \in DOMAIN Brackets}
    BY <1>3 DEF Brackets, BracketTokens
  <2>2. Opened(t) = open
    BY <2>1 DEF Opened
  <2>3. v[n].opens = w[n].opens
    BY <1>3, <2>1 DEF Opens, Turns
  <2>4. \A k \in 1 .. n : v[k].opens = w[k].opens
    BY <1>0, <2>3
  <2> QED
    BY <2>2, <2>4, NestSame
<1>4. DOMAIN Brackets \subseteq BracketTokens
  BY DEF Brackets, BracketTokens
<1> QED
  BY <1>1, <1>2, <1>3, <1>4

\* No bracket is taken.
LEMMA UnopenedNest ==
    ASSUME NEW n \in Nat \ {0}, NEW w \in Seq(Paths), Len(w) = n, NEW q \in Paths, q.opens = w[n].opens, NEW o,
           Nest(w, n, o)
    PROVE  Nest(NewTop(w, n, q), n, o)
<1>1. n \in 1 .. Len(w) + 1
  OBVIOUS
<1> DEFINE v == NewTop(w, n, q)
<1>2. v[n] = q /\ \A i \in 1 .. n - 1 : v[i] = w[i]
  BY <1>1, NewTopIs
<1> HIDE DEF v
<1>3. \A k \in 1 .. n : v[k].opens = w[k].opens
  BY <1>2
<1>4. Nest(v, n, o)
  BY <1>3, NestSame
<1> QED
  BY <1>4 DEF v

\* The next token is the one that is known.
LEMMA Fronted ==
    ASSUME look \in Seq(Tokens), look # <<>>, NEW p, Seen(p), NEW t, t = Tok(1)
    PROVE  t \in Texts /\ Fits(t, p.next) /\ look[1].token = t
<1>1. 1 <= Len(look) /\ 1 \in Nat \ {0}
  BY NotEmpty
<1>2. t \in Texts
  BY <1>1, TokIsString
<1>3. Knows(1, p.next)
  BY DEF Seen
<1>4. Fits(t, p.next)
  BY <1>1, <1>3, Known
<1> QED
  BY <1>1, <1>2, <1>4 DEF Tok

LEMMA TailIs ==
    ASSUME GrammarIsSound, NEW p \in Paths, p.code # <<>>
    PROVE  Tail(p.code) \in Seq(Items)
<1>1. p.code \in Seq(Items)
  BY PathForm
<1> QED
  BY <1>1, HeadTailProperties

LEMMA TakeTokenFollows ==
    ASSUME GrammarIsSound, Follows, TakeToken
    PROVE  Follows'
<1> SUFFICES ASSUME NEW w \in Seq(Paths), Fit(w), NEW n, n = Len(stack), NEW p, p = w[n], NEW item, item = Item,
                    NEW t, t = Tok(1)
             PROVE  Follows'
  BY DEF Follows
<1>1. Ready /\ (item.do = "take" \/ (item.do = "want" /\ t \in item.on)) /\ alphabet' = alphabet /\ kind' = kind
      /\ errors' = errors /\ tainted' = tainted /\ open' = Opened(t) /\ Advance(Tail(Top.code))
  BY DEF TakeToken, Doing
<1>2. /\ TypeOK /\ Order /\ stack # <<>> /\ stack \in Seq(Frames) /\ n \in Nat \ {0} /\ n \in 1 .. Len(stack)
      /\ p \in Paths /\ p.code # <<>> /\ item = Head(p.code) /\ p.code = stack[n].code /\ Len(w) = n
      /\ Top = stack[n] /\ Seen(p) /\ Sound(p) /\ look \in Seq(Tokens) /\ look # <<>>
      /\ open \in Seq(Texts) /\ errors \in BOOLEAN /\ tainted \in BOOLEAN
  BY <1>1, AtItem
<1>3. t \in Texts /\ Fits(t, p.next) /\ look[1].token = t
  BY <1>2, Fronted
<1> DEFINE q == Takes(p, Opens(p.opens, t))
<1>4. q \in Paths /\ t # "eof" /\ Closes(p.opens, t)
  <2>1. TakesWell(p, item)
    BY <1>2 DEF Sound
  <2>2. CASE item.do = "take"
    <3>1. p.next.of = "these" /\ ~Fits("eof", p.next) /\ \A u \in p.next.set : Closes(p.opens, u)
      BY <2>1, <2>2 DEF TakesWell
    <3>2. t \in p.next.set
      BY <1>3, <3>1 DEF Fits
    <3>3. q \in After(p)
      BY <1>2, <2>2, <3>2, AfterTake
    <3>4. q \in Paths
      BY <1>2, <3>3, AfterCode
    <3>5. t # "eof"
      BY <1>3, <3>1
    <3> QED
      BY <3>1, <3>2, <3>4, <3>5
  <2>3. CASE item.do = "want" /\ t \in item.on
    <3>1. "eof" \notin item.on /\ \A u \in Only(p.next, item.on).set : Closes(p.opens, u)
      BY <2>1, <2>3 DEF TakesWell
    <3>2. t \in Only(p.next, item.on).set
      BY <1>3, <2>3, FitsOnly
    <3>3. q \in After(p)
      BY <1>2, <2>3, <3>2, AfterWant
    <3>4. q \in Paths
      BY <1>2, <3>3, AfterCode
    <3> QED
      BY <2>3, <3>1, <3>2, <3>4
  <2> QED
    BY <1>1, <2>2, <2>3
<1>5. Further(q, p) /\ q.opens = Opens(p.opens, t) /\ q.code = Tail(p.code)
  BY <1>2, TakesIs
<1> HIDE DEF q
<1>6. q.code \in Seq(Items)
  BY <1>2, <1>5, TailIs
<1>7. look' = Tail(look) /\ Taken(n, q.code)
  <2>1. Advance(q.code) /\ Tok(1) # "eof"
    BY <1>1, <1>2, <1>4, <1>5
  <2> QED
    BY <1>2, <1>6, <2>1, AdvanceIs
<1>8. open' \in Seq(Texts)
  BY <1>1, <1>2, <1>3, OpenedIs
<1>9. ASSUME ~errors', ~tainted' PROVE Nest(NewTop(w, n, q), n, open')
  <2> DEFINE v == NewTop(w, n, q)
  <2>1. n \in 1 .. Len(w) + 1
    BY <1>2
  <2>2. v[n] = q /\ \A i \in 1 .. n - 1 : v[i] = w[i]
    BY <1>4, <2>1, NewTopIs
  <2> HIDE DEF v
  <2>3. Turns(w, v, n, t)
    BY <1>5, <2>2 DEF Turns
  <2>4. ~errors /\ ~tainted
    BY <1>1, <1>9
  <2>5. Nest(w, n, open)
    BY <2>4 DEF Fit, Nested
  <2>6. w[n].opens \in Seq(Texts)
    BY <1>2, PathForm
  <2>7. Closes(w[n].opens, t)
    BY <1>4
  <2>8. Nest(v, n, Opened(t))
    BY <1>2, <1>3, <2>3, <2>4, <2>5, <2>6, <2>7, OpenedNest
  <2> QED
    BY <1>1, <2>8 DEF v
<1>10. ~errors' /\ ~tainted' => Nest(NewTop(w, n, q), n, open')
  BY <1>9
<1>11. tainted' \in BOOLEAN /\ look[1].token # "eof" /\ Further(q, w[n])
  BY <1>1, <1>2, <1>3, <1>4, <1>5
<1> QED
  BY <1>1, <1>2, <1>4, <1>7, <1>8, <1>10, <1>11, Advances

LEMMA TakeNameFollows ==
    ASSUME GrammarIsSound, Follows, TakeName
    PROVE  Follows'
<1> SUFFICES ASSUME NEW w \in Seq(Paths), Fit(w), NEW n, n = Len(stack), NEW p, p = w[n], NEW item, item = Item,
                    NEW t, t = Tok(1)
             PROVE  Follows'
  BY DEF Follows
<1>1. Ready /\ item.do = "named" /\ alphabet' = alphabet /\ kind' = kind /\ errors' = errors /\ tainted' = tainted
      /\ open' = open /\ look' = Tail(look)
  BY DEF TakeName, Doing, history
<1>2. /\ TypeOK /\ Order /\ stack # <<>> /\ stack \in Seq(Frames) /\ n \in Nat \ {0} /\ n \in 1 .. Len(stack)
      /\ p \in Paths /\ p.code # <<>> /\ item = Head(p.code) /\ p.code = stack[n].code /\ Len(w) = n
      /\ Top = stack[n] /\ Seen(p) /\ Sound(p) /\ look \in Seq(Tokens) /\ look # <<>>
      /\ open \in Seq(Texts) /\ errors \in BOOLEAN /\ tainted \in BOOLEAN
  BY <1>1, AtItem
<1>3. t \in Texts /\ Fits(t, p.next) /\ look[1].token = t
  BY <1>2, Fronted
<1> DEFINE q == Takes(p, Opens(p.opens, t))
<1>4. q \in Paths /\ t # "eof" /\ t \notin BracketTokens
  <2>1. TakesWell(p, item)
    BY <1>2 DEF Sound
  <2>2. p.next.of = "these" /\ ~Fits("eof", p.next) /\ p.next.set \cap BracketTokens = {}
    BY <1>1, <2>1 DEF TakesWell
  <2>3. t \in p.next.set
    BY <1>3, <2>2 DEF Fits
  <2>4. q \in After(p)
    BY <1>1, <1>2, <2>3, AfterTake
  <2>5. q \in Paths
    BY <1>2, <2>4, AfterCode
  <2>6. t # "eof"
    BY <1>3, <2>2
  <2> QED
    BY <2>2, <2>3, <2>5, <2>6
<1>5. Further(q, p) /\ q.opens = p.opens /\ q.code = Tail(p.code)
  <2>1. Opens(p.opens, t) = p.opens
    BY <1>4 DEF Opens, BracketTokens, Brackets
  <2> QED
    BY <1>2, <2>1, TakesIs
<1> HIDE DEF q
<1>6. q.code \in Seq(Items)
  BY <1>2, <1>5, TailIs
<1>7. Taken(n, q.code)
  <2> DEFINE F(i) == [stack[i] EXCEPT !.moved = @ \/ i >= Innermost,
                                      !.trail = IF i = Innermost THEN Append(@, look[1]) ELSE @,
                                      !.code  = IF i = Len(stack) THEN Tail(@) ELSE @,
                                      !.name  = IF i = Len(stack) THEN Tok(1) ELSE @]
  <2>1. stack' = [i \in DOMAIN stack |-> F(i)]
    BY DEF TakeName
  <2>2. ASSUME NEW i \in DOMAIN stack
        PROVE  F(i) = Takes1(i, q.code, t)
    <3>1. stack[i] \in Frames
      BY <1>2, <2>2
    <3>2. i = Len(stack) => Tail(stack[i].code) = q.code
      BY <1>2, <1>5
    <3>3. (IF i = Len(stack) THEN Tail(stack[i].code) ELSE stack[i].code)
            = (IF i = Len(stack) THEN q.code ELSE stack[i].code)
      BY <3>2
    <3> QED
      BY <3>1, <3>3 DEF Takes1, Frames
  <2>3. AllTake(q.code, t)
    <3> HIDE DEF F
    <3> QED
      BY <2>1, <2>2 DEF AllTake
  <2> QED
    BY <1>2, <1>3, <1>6, <2>3, TakenIs
<1>8. ASSUME ~errors', ~tainted' PROVE Nest(NewTop(w, n, q), n, open')
  <2>1. ~errors /\ ~tainted
    BY <1>1, <1>8
  <2>2. Nest(w, n, open)
    BY <2>1 DEF Fit, Nested
  <2>3. q.opens = w[n].opens
    BY <1>5
  <2>4. Nest(NewTop(w, n, q), n, open)
    BY <1>2, <1>4, <2>2, <2>3, UnopenedNest
  <2> QED
    BY <1>1, <2>4
<1>9. ~errors' /\ ~tainted' => Nest(NewTop(w, n, q), n, open')
  BY <1>8
<1>10. tainted' \in BOOLEAN /\ open' \in Seq(Texts) /\ look[1].token # "eof" /\ Further(q, w[n])
  BY <1>1, <1>2, <1>3, <1>4, <1>5
<1> QED
  BY <1>1, <1>2, <1>4, <1>7, <1>9, <1>10, Advances

LEMMA TakeOperatorFollows ==
    ASSUME GrammarIsSound, Follows, TakeOperator
    PROVE  Follows'
<1> SUFFICES ASSUME NEW w \in Seq(Paths), Fit(w), NEW n, n = Len(stack), NEW p, p = w[n], NEW item, item = Item,
                    NEW t, t = Tok(1)
             PROVE  Follows'
  BY DEF Follows
<1> DEFINE operand == <<At(BindingPower[t][2]), Yield("other")>>
<1>1. Ready /\ item.do = "binary" /\ t \in DOMAIN BindingPower /\ alphabet' = alphabet /\ kind' = kind
      /\ errors' = errors /\ tainted' = tainted /\ open' = open /\ Advance(operand \o Tail(Top.code))
  BY DEF TakeOperator, Doing, history
<1>2. /\ TypeOK /\ Order /\ stack # <<>> /\ stack \in Seq(Frames) /\ n \in Nat \ {0} /\ n \in 1 .. Len(stack)
      /\ p \in Paths /\ p.code # <<>> /\ item = Head(p.code) /\ p.code = stack[n].code /\ Len(w) = n
      /\ Top = stack[n] /\ Seen(p) /\ Sound(p) /\ look \in Seq(Tokens) /\ look # <<>>
      /\ open \in Seq(Texts) /\ errors \in BOOLEAN /\ tainted \in BOOLEAN
  BY <1>1, AtItem
<1>3. t \in Texts /\ Fits(t, p.next) /\ look[1].token = t
  BY <1>2, Fronted
<1> DEFINE r == Takes(p, p.opens)
           q == [r EXCEPT !.code = operand \o @]
<1>4. q \in Paths
  <2>1. t \in Only(p.next, DOMAIN BindingPower).set
    BY <1>1, <1>3, FitsOnly
  <2>2. q \in After(p)
    BY <1>1, <1>2, <2>1, AfterBinary
  <2> QED
    BY <1>2, <2>2, AfterCode
<1>5. t # "eof"
  BY <1>1 DEF BindingPower
<1>6. /\ DOMAIN r = Fields /\ Further(r, p) /\ r.opens = p.opens /\ r.code = Tail(p.code)
  BY <1>2, TakesIs
<1> HIDE DEF r, operand
<1>7. Further(q, p) /\ q.opens = p.opens /\ q.code = operand \o Tail(p.code)
  BY <1>6 DEF Fields, Further
<1> HIDE DEF q
<1>8. q.code \in Seq(Items)
  BY <1>2, <1>4, PathForm
<1>9. look' = Tail(look) /\ Taken(n, q.code)
  <2>1. Advance(q.code) /\ Tok(1) # "eof"
    BY <1>1, <1>2, <1>5, <1>7
  <2> QED
    BY <1>2, <1>8, <2>1, AdvanceIs
<1>10. ASSUME ~errors', ~tainted' PROVE Nest(NewTop(w, n, q), n, open')
  <2>1. ~errors /\ ~tainted
    BY <1>1, <1>10
  <2>2. Nest(w, n, open)
    BY <2>1 DEF Fit, Nested
  <2>3. q.opens = w[n].opens
    BY <1>7
  <2>4. Nest(NewTop(w, n, q), n, open)
    BY <1>2, <1>4, <2>2, <2>3, UnopenedNest
  <2> QED
    BY <1>1, <2>4
<1>11. ~errors' /\ ~tainted' => Nest(NewTop(w, n, q), n, open')
  BY <1>10
<1>12. tainted' \in BOOLEAN /\ open' \in Seq(Texts) /\ look[1].token # "eof" /\ Further(q, w[n])
  BY <1>1, <1>2, <1>3, <1>5, <1>7
<1> QED
  BY <1>1, <1>2, <1>4, <1>9, <1>11, <1>12, Advances

LEMMA SkipTokenFollows ==
    ASSUME GrammarIsSound, Follows, SkipToken
    PROVE  Follows'
<1> SUFFICES ASSUME NEW w \in Seq(Paths), Fit(w), NEW n, n = Len(stack), NEW p, p = w[n], NEW item, item = Item,
                    NEW t, t = Tok(1)
             PROVE  Follows'
  BY DEF Follows
<1>1. Ready /\ item.do = "skip" /\ alphabet' = alphabet /\ kind' = kind /\ errors' = errors
      /\ tainted' = (tainted \/ t \in {"(", ")", "[", "]", "{", "}", "eof"})
      /\ open' = (IF tainted' THEN <<>> ELSE open) /\ Advance(Tail(Top.code))
  BY DEF SkipToken, Doing
<1>2. /\ TypeOK /\ Order /\ stack # <<>> /\ stack \in Seq(Frames) /\ n \in Nat \ {0} /\ n \in 1 .. Len(stack)
      /\ p \in Paths /\ p.code # <<>> /\ item = Head(p.code) /\ p.code = stack[n].code /\ Len(w) = n
      /\ p.is = stack[n].is /\ p.rule = stack[n].rule /\ p.body = stack[n].body /\ stack[n] \in Frames
      /\ Top = stack[n] /\ Sure(p, n) /\ Seen(p) /\ Sound(p) /\ look \in Seq(Tokens) /\ look # <<>>
      /\ open \in Seq(Texts) /\ errors \in BOOLEAN /\ tainted \in BOOLEAN
  <2>1. Ready /\ item.do = "skip"
    BY <1>1
  <2> QED
    BY <2>1, AtItem
<1>3. t \in Texts /\ Fits(t, p.next) /\ look[1].token = t
  BY <1>2, Fronted
<1>4. tainted' \in BOOLEAN /\ open' \in Seq(Texts) /\ errors' \in BOOLEAN
      /\ (~errors' /\ ~tainted' => ~errors /\ ~tainted /\ open' = open)
  <2>1. tainted' \in BOOLEAN /\ errors' \in BOOLEAN /\ (~errors' /\ ~tainted' => ~errors /\ ~tainted /\ open' = open)
    BY <1>1, <1>2
  <2>2. open' \in Seq(Texts)
    <3>1. CASE tainted'
      <4>1. open' = <<>>
        BY <1>1, <3>1
      <4> QED
        BY <4>1
    <3>2. CASE ~tainted'
      BY <1>1, <1>2, <3>2
    <3> QED
      BY <3>1, <3>2
  <2> QED
    BY <2>1, <2>2
<1>5. CASE t # "eof"
  <2> DEFINE q == Takes(p, p.opens)
  <2>1. p.next # Among({"eof"})
    BY <1>3, <1>5 DEF Fits, Among
  <2>2. q \in Paths
    <3>1. q \in After(p)
      BY <1>1, <1>2, <2>1, AfterSkip
    <3> QED
      BY <1>2, <3>1, AfterCode
  <2>3. Further(q, p) /\ q.opens = p.opens /\ q.code = Tail(p.code)
    BY <1>2, TakesIs
  <2> HIDE DEF q
  <2>4. q.code \in Seq(Items)
    BY <1>2, <2>2, PathForm
  <2>5. look' = Tail(look) /\ Taken(n, q.code)
    <3>1. Advance(q.code) /\ Tok(1) # "eof"
      BY <1>1, <1>2, <1>5, <2>3
    <3> QED
      BY <1>2, <2>4, <3>1, AdvanceIs
  <2>6. ASSUME ~errors', ~tainted' PROVE Nest(NewTop(w, n, q), n, open')
    <3>1. ~errors /\ ~tainted /\ open' = open
      BY <1>4, <2>6
    <3>2. Nest(w, n, open)
      BY <3>1 DEF Fit, Nested
    <3>3. q.opens = w[n].opens
      BY <2>3
    <3>4. Nest(NewTop(w, n, q), n, open)
      BY <1>2, <2>2, <3>2, <3>3, UnopenedNest
    <3> QED
      BY <3>1, <3>4
  <2>7. ~errors' /\ ~tainted' => Nest(NewTop(w, n, q), n, open')
    BY <2>6
  <2>8. look[1].token # "eof" /\ Further(q, w[n])
    BY <1>3, <1>5, <2>3
  <2> QED
    BY <1>1, <1>2, <1>4, <2>2, <2>5, <2>7, <2>8, Advances
<1>6. CASE t = "eof"
  <2> DEFINE q == [p EXCEPT !.code = Tail(@), !.next = Among({"eof"}), !.opens = <<>>]
             g == [stack[n] EXCEPT !.code = q.code]
  <2>1. q \in Paths
    <3>1. Fits("eof", p.next)
      BY <1>3, <1>6
    <3>2. q \in After(p)
      BY <1>1, <1>2, <3>1, AfterSkip
    <3> QED
      BY <1>2, <3>2, AfterCode
  <2>2. /\ q.rule = p.rule /\ q.is = p.is /\ q.body = p.body /\ q.sure = p.sure /\ q.result = p.result
        /\ q.next = Among({"eof"}) /\ q.second = p.second /\ q.gap = p.gap /\ q.code = Tail(p.code)
    BY <1>2, PathForm DEF Fields
  <2> HIDE DEF q
  <2>3. q.code \in Seq(Items)
    BY <1>2, <2>1, PathForm
  <2>4. stack' = [stack EXCEPT ![n].code = q.code] /\ look' = look
    BY <1>1, <1>2, <1>6, <2>2 DEF Advance, Goto
  <2>5. stack' = [stack EXCEPT ![n] = g]
    BY <1>2, <2>4
  <2>6. /\ g \in Frames /\ g.is = stack[n].is /\ g.rule = stack[n].rule /\ g.body = stack[n].body
        /\ g.tried = stack[n].tried /\ g.trail = stack[n].trail /\ g.saved = stack[n].saved
        /\ g.moved = stack[n].moved /\ q.code = g.code
    BY <1>2, <2>3 DEF Frames
  <2> HIDE DEF g
  <2>7. Sure(q, n)'
    <3>1. q.sure \subseteq p.sure \cup {"told"}
      BY <2>2
    <3> QED
      BY <1>2, <2>5, <2>6, <3>1, SureStays
  <2>8. Seen(q)'
    <3>1. Knows(1, q.next)
      <4>1. 1 <= Len(look) /\ 1 \in Nat \ {0}
        BY <1>2, NotEmpty
      <4>2. Fits(Tok(1), q.next)
        BY <1>6, <2>2 DEF Fits, Among
      <4> QED
        BY <1>2, <4>1, <4>2, Known
    <3>2. Seen(q)
      BY <1>2, <2>2, <3>1 DEF Seen
    <3> QED
      BY <1>1, <2>4, <3>2, SeenStays
  <2>9. Kept(q, w[n])
    <3>1. tainted'
      BY <1>1, <1>6
    <3> QED
      BY <1>4, <3>1 DEF Kept
  <2>10. q.is = w[n].is /\ q.rule = w[n].rule /\ q.body = w[n].body
    BY <2>2
  <2>11. g.moved => stack[n].moved
    BY <2>6
  <2> QED
    BY <1>1, <1>2, <2>1, <2>4, <2>5, <2>6, <2>7, <2>8, <2>9, <2>10, <2>11, Continue
<1> QED
  BY <1>5, <1>6

(***************************************************************************)
(* The steps that push a frame.                                            *)
(***************************************************************************)
\* A frame that is pushed for an item of path p, and the path it starts on.
Fresh(f, p, item) ==
  /\ f \in Frames /\ Calls(item, p, f) /\ ~f.moved /\ f.trail = <<>>
  /\ f.tried => f.is = "rule"
  /\ f.is = "rule" => f.rule # "program"
  /\ p.rule = "program" => f.rule = "program" \/ f.tried
  /\ f.is # "rule" => f.rule = p.rule
  /\ f.is = "rule" => "far" \in p.sure \/ Rank(f.rule) < Rank(p.rule)
  /\ f.is = "attempt" => f.saved = history

Starting(q, f, p) ==
  /\ q \in Paths /\ Mirrors(q, f) /\ q.code = f.code /\ q.opens = <<>>
  /\ "moved" \notin q.sure
  /\ "far" \in q.sure => f.is # "rule" /\ "far" \in p.sure

\* The frames once f is on top of them.
Under(f, n) ==
  /\ stack' \in Seq(Frames) /\ Len(stack') = n + 1 /\ stack'[n + 1] = f
  /\ \A i \in 1 .. n - 1 : stack'[i] = stack[i]
  /\ stack'[n].is = stack[n].is /\ stack'[n].rule = stack[n].rule /\ stack'[n].body = stack[n].body
  /\ stack'[n].tried = stack[n].tried /\ stack'[n].moved = stack[n].moved /\ stack'[n].trail = stack[n].trail
  /\ stack'[n].saved = stack[n].saved /\ stack'[n].code = Tail(stack[n].code)

LEMMA PushIs ==
    ASSUME stack \in Seq(Frames), NEW n \in 1 .. Len(stack), n = Len(stack), Tail(stack[n].code) \in Seq(Items),
           NEW f \in Frames, Push(f)
    PROVE  Under(f, n)
<1>1. n \in Nat /\ stack[n] \in Frames
  OBVIOUS
<1> DEFINE g == [stack[n] EXCEPT !.code = Tail(stack[n].code)]
           s == [stack EXCEPT ![n] = g]
<1>2. /\ g \in Frames /\ g.is = stack[n].is /\ g.rule = stack[n].rule /\ g.body = stack[n].body
      /\ g.tried = stack[n].tried /\ g.moved = stack[n].moved /\ g.trail = stack[n].trail
      /\ g.saved = stack[n].saved /\ g.code = Tail(stack[n].code)
  BY <1>1 DEF Frames
<1>3. stack' = Append(s, f)
  BY DEF Push
<1> HIDE DEF g
<1>4. s \in Seq(Frames) /\ Len(s) = n /\ s[n] = g /\ \A i \in 1 .. n - 1 : s[i] = stack[i]
  BY <1>1, <1>2
<1> HIDE DEF s
<1>5. /\ stack' \in Seq(Frames) /\ Len(stack') = n + 1 /\ stack'[n + 1] = f
      /\ \A i \in 1 .. n : stack'[i] = s[i]
  BY <1>3, <1>4, AppendProperties
<1>6. stack'[n] = g /\ \A i \in 1 .. n - 1 : stack'[i] = stack[i]
  BY <1>1, <1>4, <1>5
<1> QED
  BY <1>2, <1>5, <1>6 DEF Under

\* A token that is not the end is there once it is known.
LEMMA AliveOnce ==
    ASSUME look \in Seq(Tokens), NEW k, Knows(1, k), ~Fits("eof", k)
    PROVE  Alive
<1>1. ~MayBe(1, "eof")
  BY TextsHold DEF Knows
<1>2. 1 <= Len(look) /\ Tok(1) # "eof"
  <2>1. CASE look = <<>>
    <3>1. ~AtEnd /\ ~ (1 <= Len(look))
      BY <2>1 DEF AtEnd
    <3> QED
      BY <1>1, <3>1 DEF MayBe
  <2>2. CASE look # <<>>
    <3>1. 1 <= Len(look)
      BY <2>2, NotEmpty
    <3> QED
      BY <1>1, <3>1 DEF MayBe
  <2> QED
    BY <2>1, <2>2
<1>3. look # <<>>
  BY <1>2
<1> QED
  BY <1>2, <1>3 DEF Alive, Tok

LEMMA Pushes ==
    ASSUME GrammarIsSound, Follows, Ready, NEW w \in Seq(Paths), Fit(w), NEW n, n = Len(stack), NEW p, p = w[n],
           NEW item, item = Item, NEW f, Fresh(f, p, item), Push(f), NEW q, Starting(q, f, p), Seen(q)',
           alphabet' = alphabet, look' = look, errors' = errors, open' = open, tainted' = tainted
    PROVE  Follows'
<1>1. /\ TypeOK /\ Order /\ stack # <<>> /\ stack \in Seq(Frames) /\ n \in Nat \ {0} /\ n \in 1 .. Len(stack)
      /\ p \in Paths /\ p.code # <<>> /\ item = Head(p.code) /\ p.code = stack[n].code /\ Len(w) = n
      /\ p.rule = stack[n].rule /\ stack[n] \in Frames
      /\ Sure(p, n) /\ Seen(p) /\ look \in Seq(Tokens) /\ open \in Seq(Texts)
      /\ errors \in BOOLEAN /\ tainted \in BOOLEAN /\ alphabet \subseteq Texts
  BY AtItem
<1>2. Linked(w) /\ Certain(w) /\ Awaited(w) /\ Nested(w)
  BY DEF Fit
<1>3. Under(f, n)
  <2>1. Tail(stack[n].code) \in Seq(Items)
    BY <1>1, TailIs
  <2>2. f \in Frames
    BY DEF Fresh
  <2> QED
    BY <1>1, <2>1, <2>2, PushIs
<1>4. /\ stack' \in Seq(Frames) /\ Len(stack') = n + 1 /\ stack'[n + 1] = f
      /\ \A i \in 1 .. n : /\ stack'[i].is = stack[i].is /\ stack'[i].rule = stack[i].rule
                           /\ stack'[i].body = stack[i].body /\ stack'[i].tried = stack[i].tried
                           /\ stack'[i].moved = stack[i].moved /\ stack'[i].trail = stack[i].trail
                           /\ stack'[i].saved = stack[i].saved
  <2>1. \A i \in 1 .. n : i = n \/ i \in 1 .. n - 1
    BY <1>1
  <2> QED
    BY <1>1, <1>3, <2>1 DEF Under
<1>5. n + 1 \in 1 .. Len(stack) + 1 /\ n + 1 \in 1 .. Len(w) + 1 /\ (n + 1) - 1 = n /\ (n + 1) - 2 = n - 1
      /\ \A i \in 1 .. n + 1 : i = n + 1 \/ i \in 1 .. n
  BY <1>1
<1>6. Lower(n + 1)
  BY <1>4, <1>5 DEF Lower, Keeps
<1>7. TypeOK'
  <2>1. ASSUME NEW i \in 1 .. n + 1, stack'[i].is = "attempt"
        PROVE  stack'[i].saved \in Histories
    <3>1. CASE i = n + 1
      <4>1. f.saved = history
        BY <1>4, <2>1, <3>1 DEF Fresh
      <4>2. history \in Histories
        BY <1>1 DEF history, Histories
      <4> QED
        BY <1>4, <3>1, <4>1, <4>2
    <3>2. CASE i \in 1 .. n
      BY <1>1, <1>4, <2>1, <3>2 DEF TypeOK
    <3> QED
      BY <1>5, <3>1, <3>2
  <2>2. \A i \in 1 .. Len(stack') : stack'[i].is = "attempt" => stack'[i].saved \in Histories
    BY <1>4, <2>1
  <2> QED
    BY <1>1, <1>4, <2>2 DEF TypeOK
<1>8. Order'
  <2>1. Trails'
    <3>1. ASSUME NEW i \in 1 .. n + 1, NEW k \in 1 .. Len(stack'[i].trail)
          PROVE  stack'[i].trail[k].token # "eof"
      <4>1. CASE i = n + 1
        <5>1. stack'[i].trail = <<>>
          BY <1>4, <4>1 DEF Fresh
        <5> QED
          BY <5>1
      <4>2. CASE i \in 1 .. n
        <5>1. stack'[i].trail = stack[i].trail
          BY <1>4, <4>2
        <5>2. \A x \in 1 .. Len(stack[i].trail) : stack[i].trail[x].token # "eof"
          BY <1>1, <4>2 DEF Order, Trails
        <5> QED
          BY <5>1, <5>2
      <4> QED
        BY <1>5, <4>1, <4>2
    <3> QED
      BY <1>4, <3>1 DEF Trails
  <2>2. /\ \A i \in 1 .. n : Keeps(stack[i], stack'[i])
        /\ \A i \in 1 .. n : stack'[i].moved = stack[i].moved
    BY <1>4 DEF Keeps
  <2>3. /\ ~f.moved /\ f.trail = <<>>
        /\ f.tried => f.is = "rule"
        /\ f.is = "rule" => f.rule # "program"
        /\ stack[n].rule = "program" => f.rule = "program" \/ f.tried
    BY <1>1 DEF Fresh
  <2>4. \/ f.is # "rule" /\ f.rule = stack[n].rule
        \/ f.is = "rule" /\ (Far(n) \/ Rank(f.rule) < Rank(stack[n].rule))
    <3>1. "far" \in p.sure => Far(n)
      BY <1>1 DEF Sure
    <3> QED
      BY <1>1, <3>1 DEF Fresh
  <2> QED
    BY <1>1, <1>4, <2>1, <2>2, <2>3, <2>4, OrderPushed
<1> DEFINE v == NewTop(w, n + 1, q)
<1>9. q \in Paths
  BY DEF Starting
<1>10. v \in Seq(Paths) /\ Len(v) = n + 1 /\ v[n + 1] = q /\ \A i \in 1 .. n : v[i] = w[i]
  BY <1>5, <1>9, NewTopIs
<1>11. Linked(v)'
  <2>1. Mirrors(q, stack'[n + 1]) /\ q.code = stack'[n + 1].code
    BY <1>4 DEF Starting
  <2>2. \A i \in 1 .. n - 1 : stack'[i].code = stack[i].code
    BY <1>3 DEF Under
  <2>3. Suspends(w[n], stack'[n], stack'[n + 1])
    <3>1. stack'[n].code = Tail(p.code)
      BY <1>1, <1>3 DEF Under
    <3>2. Calls(item, stack'[n], f)
      <4>1. stack'[n].rule = p.rule
        BY <1>1, <1>4
      <4>2. Calls(item, p, f)
        BY DEF Fresh
      <4> QED
        BY <4>1, <4>2 DEF Calls
    <3> QED
      BY <1>1, <1>4, <3>1, <3>2 DEF Suspends
  <2>4. n + 1 > 1 => Suspends(w[(n + 1) - 1], stack'[(n + 1) - 1], stack'[n + 1])
    BY <1>5, <2>3
  <2>5. \A i \in 1 .. (n + 1) - 2 : stack'[i].code = stack[i].code
    BY <1>5, <2>2
  <2> QED
    BY <1>1, <1>2, <1>4, <1>5, <1>6, <1>9, <2>1, <2>4, <2>5, LinkedNew
<1>12. Sure(q, n + 1)'
  <2>1. "moved" \notin q.sure
    BY DEF Starting
  <2>2. "far" \in q.sure => Far(n + 1)'
    <3> SUFFICES ASSUME "far" \in q.sure PROVE Far(n + 1)'
      OBVIOUS
    <3>1. f.is # "rule" /\ Far(n)
      BY <1>1 DEF Starting, Sure
    <3>2. PICK k \in 1 .. n : stack[k].moved /\ \A h \in k + 1 .. n : stack[h].is # "rule"
      BY <3>1 DEF Far
    <3>3. k \in 1 .. n + 1 /\ stack'[k].moved
      BY <1>1, <1>4, <3>2
    <3>4. ASSUME NEW h \in k + 1 .. n + 1 PROVE stack'[h].is # "rule"
      <4>1. CASE h = n + 1
        BY <1>4, <3>1, <4>1
      <4>2. CASE h # n + 1
        <5>0. n \in Nat /\ k \in Nat /\ k >= 1 /\ h \in Int /\ h >= k + 1 /\ h <= n + 1
          BY <1>1, <3>2
        <5>1. h \in k + 1 .. n /\ h \in 1 .. n
          BY <4>2, <5>0
        <5> QED
          BY <1>4, <3>2, <5>1
      <4> QED
        BY <4>1, <4>2
    <3> QED
      BY <3>3, <3>4 DEF Far
  <2> QED
    BY <2>1, <2>2 DEF Sure
<1>13. Certain(v)'
  BY <1>1, <1>2, <1>5, <1>6, <1>9, <1>12, CertainNew
<1>14. Awaited(v)'
  <2> HIDE DEF v
  <2>1. Alive => Alive'
    BY DEF Alive
  <2>2. ASSUME NEW i \in 1 .. n, ~stack'[i].moved, ~Fits("eof", v[i].next)
        PROVE  Alive' \/ \E h \in i + 1 .. n + 1 : stack'[h].is = "attempt" /\ stack'[h].trail # <<>>
    <3>1. ~stack[i].moved /\ ~Fits("eof", w[i].next)
      BY <1>4, <1>10, <2>2
    <3>2. CASE i = n
      <4>1. Knows(1, p.next)
        BY <1>1 DEF Seen
      <4>2. ~Fits("eof", p.next)
        BY <3>1, <3>2
      <4>3. Alive
        BY <1>1, <4>1, <4>2, AliveOnce
      <4> QED
        BY <2>1, <4>3
    <3>3. CASE i # n
      <4>1. i \in 1 .. Len(stack) - 1
        BY <1>1, <3>3
      <4>2. Awaits(w[i], i)
        BY <1>2, <4>1 DEF Awaited
      <4>3. Alive \/ \E h \in i + 1 .. n : stack[h].is = "attempt" /\ stack[h].trail # <<>>
        BY <3>1, <4>2 DEF Awaits
      <4>4. \A h \in i + 1 .. n : h \in i + 1 .. n + 1 /\ h \in 1 .. n
        BY <1>1
      <4> QED
        BY <1>4, <2>1, <4>3, <4>4
    <3> QED
      BY <3>2, <3>3
  <2>3. \A i \in 1 .. Len(stack') - 1 : i \in 1 .. n
    BY <1>1, <1>4
  <2> QED
    BY <1>4, <2>2, <2>3 DEF Awaited, Awaits
<1>15. Nested(v)'
  <2>1. ASSUME ~errors', ~tainted' PROVE Nest(v, n + 1, open')
    <3>1. ~errors /\ ~tainted
      BY <2>1
    <3>2. Nest(w, n, open)
      BY <1>2, <3>1 DEF Nested
    <3> HIDE DEF v
    <3>3. \A k \in 1 .. n : v[k].opens = w[k].opens
      BY <1>10
    <3>4. Nest(v, n, open)
      BY <1>1, <3>2, <3>3, NestSame
    <3>5. v[n + 1].opens = <<>>
      BY <1>10 DEF Starting
    <3>6. n + 1 \in Nat \ {0} /\ Nest(v, (n + 1) - 1, open)
      BY <1>1, <1>5, <3>4
    <3>7. Nest(v, n + 1, open)
      BY <1>1, <3>5, <3>6, NestUp
    <3> QED
      BY <3>7
  <2>2. ASSUME stack'[n + 1].is = "attempt", ~stack'[n + 1].saved[1], ~stack'[n + 1].saved[3]
        PROVE  Nest(w, (n + 1) - 1, stack'[n + 1].saved[2])
    <3>1. stack'[n + 1].saved = history
      BY <1>4, <2>2 DEF Fresh
    <3>2. ~errors /\ ~tainted /\ stack'[n + 1].saved[2] = open
      BY <2>2, <3>1 DEF history
    <3>3. Nest(w, n, open)
      BY <1>2, <3>2 DEF Nested
    <3> QED
      BY <1>5, <3>2, <3>3
  <2>3. ~errors' /\ ~tainted' => Nest(v, n + 1, open')
    BY <2>1
  <2>4. stack'[n + 1].is = "attempt" /\ ~stack'[n + 1].saved[1] /\ ~stack'[n + 1].saved[3]
          => Nest(w, (n + 1) - 1, stack'[n + 1].saved[2])
    BY <2>2
  <2> QED
    BY <1>1, <1>2, <1>5, <1>6, <1>9, <2>3, <2>4, NestedNew
<1>16. Fit(v)'
  <2> HIDE DEF v
  <2> QED
    BY <1>4, <1>10, <1>11, <1>13, <1>14, <1>15 DEF Fit
<1> QED
  BY <1>7, <1>8, <1>10, <1>16 DEF Follows

LEMMA ItemIs ==
    ASSUME GrammarIsSound, NEW p \in Paths, p.code # <<>>
    PROVE  Head(p.code) \in Items
<1>1. p.code \in Seq(Items)
  BY PathForm
<1> QED
  BY <1>1, HeadTailProperties

LEMMA EntryIs ==
    ASSUME NEW rule
    PROVE  /\ Entry(rule).rule = rule /\ Entry(rule).is = "rule" /\ Entry(rule).body = <<>>
           /\ Entry(rule).code = Rules[rule] /\ Entry(rule).sure = {} /\ Entry(rule).result = "any"
           /\ Entry(rule).next = EntryToken(rule) /\ Entry(rule).second = EntrySecond(rule)
           /\ Entry(rule).gap = EntryGap(rule) /\ Entry(rule).opens = <<>>
  BY DEF Entry

LEMMA EnterRuleFollows ==
    ASSUME GrammarIsSound, Follows, EnterRule
    PROVE  Follows'
<1> SUFFICES ASSUME NEW w \in Seq(Paths), Fit(w), NEW n, n = Len(stack), NEW p, p = w[n], NEW item, item = Item,
                    NEW rule, rule = item.rule
             PROVE  Follows'
  BY DEF Follows
<1> DEFINE bp == IF item.do = "call" THEN item.bp ELSE 0
           f == [Frame(rule, bp, Rules[rule]) EXCEPT !.tried = item.do = "try", !.name = Top.name]
           q == Entry(rule)
<1>1. Ready /\ item.do \in {"call", "try"} /\ alphabet' = alphabet /\ look' = look /\ kind' = kind
      /\ errors' = errors /\ open' = open /\ tainted' = tainted
  BY DEF EnterRule, Doing, history
<1>2. Push(f)
  BY DEF EnterRule
<1>3. /\ TypeOK /\ p \in Paths /\ p.code # <<>> /\ item = Head(p.code) /\ Top = stack[n] /\ stack[n] \in Frames
      /\ Seen(p) /\ Sound(p)
  BY <1>1, AtItem
<1>4. CallsWell(p, item)
  BY <1>3 DEF Sound
<1>5. q \in Paths
  <2>1. q \in After(p)
    BY <1>1, <1>3, AfterCall
  <2> QED
    BY <1>3, <2>1, AfterCode
<1>6. /\ q.rule = rule /\ q.is = "rule" /\ q.body = <<>> /\ q.code = Rules[rule] /\ q.sure = {} /\ q.result = "any"
      /\ q.next = EntryToken(rule) /\ q.second = EntrySecond(rule) /\ q.gap = EntryGap(rule) /\ q.opens = <<>>
  BY EntryIs
<1> HIDE DEF q
<1>7. q.code \in Seq(Items)
  BY <1>5, PathForm
<1>8. bp \in {0} \cup {i.bp : i \in Items}
  <2>1. item \in Items
    BY <1>3, ItemIs
  <2> QED
    BY <2>1
<1>9. Top.name \in Texts /\ (item.do = "try") \in BOOLEAN
  BY <1>3 DEF Frames
<1> HIDE DEF bp
<1>10. f \in Frames
  <2>1. rule \in {r.rule : r \in Paths} /\ <<>> \in {r.body : r \in Paths} /\ Rules[rule] \in Seq(Items)
    BY <1>5, <1>6, <1>7
  <2>2. <<>> \in Seq(Tokens) /\ <<>> \in {<<>>} \cup Histories
    OBVIOUS
  <2> QED
    BY <1>8, <1>9, <2>1, <2>2 DEF Frame, Frames
<1>11. /\ f.is = "rule" /\ f.rule = rule /\ f.body = <<>> /\ f.code = Rules[rule] /\ f.tried = (item.do = "try")
       /\ f.moved = FALSE /\ f.trail = <<>>
  BY DEF Frame
<1> HIDE DEF f
<1>12. Starting(q, f, p)
  BY <1>5, <1>6, <1>11 DEF Starting, Mirrors
<1>13. Fresh(f, p, item)
  <2>1. Calls(item, p, f)
    BY <1>1, <1>11 DEF Calls
  <2>2. f.rule # "program" /\ ("far" \in p.sure \/ Rank(f.rule) < Rank(p.rule))
    BY <1>1, <1>4, <1>11 DEF CallsWell
  <2>3. p.rule = "program" => f.tried
    BY <1>1, <1>4, <1>11 DEF CallsWell
  <2> QED
    BY <1>10, <1>11, <2>1, <2>2, <2>3 DEF Fresh
<1>14. Seen(q)'
  <2>1. Within(p.next, q.next) /\ Within(p.second, q.second) /\ p.gap \subseteq q.gap
    BY <1>1, <1>4, <1>6 DEF CallsWell
  <2>2. Knows(1, q.next) /\ Knows(2, q.second)
    BY <1>3, <2>1, KnowsMore DEF Seen
  <2>3. KnowsGap(q.gap)
    BY <1>3, <2>1 DEF Seen, KnowsGap
  <2>4. Seen(q)
    BY <1>6, <2>2, <2>3 DEF Seen
  <2> QED
    BY <1>1, <2>4, SeenStays
<1> QED
  BY <1>1, <1>2, <1>12, <1>13, <1>14, Pushes

Bodies == {r.body : r \in Paths}
Saves  == {<<>>} \cup Histories

InnerFrame(g, is, code, body, saved) ==
  [g EXCEPT !.is = is, !.code = code, !.body = body, !.tried = FALSE, !.moved = FALSE, !.trail = <<>>, !.saved = saved]

LEMMA FramesAre ==
    ASSUME NEW B, B = Bodies, NEW T, T = Seq(Tokens), NEW S, S = Saves
    PROVE  Frames = [is : {"rule", "loop", "attempt", "again"}, rule : {p.rule : p \in Paths},
                     bp : {0} \cup {item.bp : item \in Items}, name : Texts, code : Seq(Items),
                     body : B, tried : BOOLEAN, moved : BOOLEAN, marked : BOOLEAN, trail : T, saved : S]
  BY DEF Frames, Bodies, Saves

LoopFrame(g, body) == InnerFrame(g, "loop", body, body, <<>>)

LoopsOn(f, g, body) ==
  /\ f \in Frames /\ f.is = "loop" /\ f.rule = g.rule /\ f.body = body /\ f.code = body
  /\ f.tried = FALSE /\ f.moved = FALSE /\ f.trail = <<>> /\ f.saved = <<>>

LEMMA LoopFrameIs ==
    ASSUME NEW g \in Frames, NEW body, body \in Bodies, body \in Seq(Items)
    PROVE  LoopsOn(LoopFrame(g, body), g, body)
<1> DEFINE T == Seq(Tokens)
           S == Saves
           B == Bodies
<1>1. <<>> \in T /\ <<>> \in S /\ body \in B
  BY DEF Saves
<1>2. Frames = [is : {"rule", "loop", "attempt", "again"}, rule : {p.rule : p \in Paths},
                     bp : {0} \cup {item.bp : item \in Items}, name : Texts, code : Seq(Items),
                     body : B, tried : BOOLEAN, moved : BOOLEAN, marked : BOOLEAN, trail : T, saved : S]
  BY FramesAre
<1> HIDE DEF T, S, B
<1> QED
  BY <1>1, <1>2 DEF InnerFrame, LoopFrame, LoopsOn

AttemptFrame(g, code, body, saved) == InnerFrame(g, "attempt", code, body, saved)

TriesOn(f, g, code, body, saved) ==
  /\ f \in Frames /\ f.is = "attempt" /\ f.rule = g.rule /\ f.body = body /\ f.code = code
  /\ f.tried = FALSE /\ f.moved = FALSE /\ f.trail = <<>> /\ f.saved = saved

LEMMA AttemptFrameIs ==
    ASSUME NEW g \in Frames, NEW body, body \in Bodies, NEW code, code \in Seq(Items), NEW saved, saved \in Saves
    PROVE  TriesOn(AttemptFrame(g, code, body, saved), g, code, body, saved)
<1> DEFINE T == Seq(Tokens)
           S == Saves
           B == Bodies
<1>1. <<>> \in T /\ saved \in S /\ body \in B
  OBVIOUS
<1>2. Frames = [is : {"rule", "loop", "attempt", "again"}, rule : {p.rule : p \in Paths},
                     bp : {0} \cup {item.bp : item \in Items}, name : Texts, code : Seq(Items),
                     body : B, tried : BOOLEAN, moved : BOOLEAN, marked : BOOLEAN, trail : T, saved : S]
  BY FramesAre
<1> HIDE DEF T, S, B
<1> QED
  BY <1>1, <1>2 DEF InnerFrame, AttemptFrame, TriesOn

LEMMA EnterLoopFollows ==
    ASSUME GrammarIsSound, Follows, EnterLoop
    PROVE  Follows'
<1> SUFFICES ASSUME NEW w \in Seq(Paths), Fit(w), NEW n, n = Len(stack), NEW p, p = w[n], NEW item, item = Item
             PROVE  Follows'
  BY DEF Follows
<1> DEFINE f == InnerFrame(Top, "loop", item.body, item.body, <<>>)
           q == Inner(p, "loop", item.body, item.body)
<1>1. Ready /\ item.do = "loop" /\ alphabet' = alphabet /\ look' = look /\ kind' = kind
      /\ errors' = errors /\ open' = open /\ tainted' = tainted
  BY DEF EnterLoop, Doing, history
<1>2. Push(f)
  BY DEF EnterLoop, InnerFrame
<1>3. /\ TypeOK /\ p \in Paths /\ p.code # <<>> /\ item = Head(p.code) /\ Top = stack[n] /\ stack[n] \in Frames
      /\ p.rule = stack[n].rule /\ Seen(p) /\ Sound(p)
  BY <1>1, AtItem
<1>4. q \in Paths
  <2>1. q \in After(p)
    BY <1>1, <1>3, AfterLoop
  <2> QED
    BY <1>3, <2>1, AfterCode
<1>5. /\ q.is = "loop" /\ q.rule = p.rule /\ q.body = item.body /\ q.code = item.body
      /\ q.sure = p.sure \cap {"far"} /\ q.result = "any" /\ q.next = p.next /\ q.second = p.second
      /\ q.gap = p.gap /\ q.opens = <<>>
  BY <1>3, InnerIs
<1> HIDE DEF q
<1>6. item.body \in Seq(Items) /\ item.body \in {r.body : r \in Paths}
  BY <1>4, <1>5, PathForm
<1>7. /\ f \in Frames /\ f.is = "loop" /\ f.rule = p.rule /\ f.body = item.body /\ f.code = item.body
      /\ f.tried = FALSE /\ f.moved = FALSE /\ f.trail = <<>>
  <2>1. f = InnerFrame(Top, "loop", item.body, item.body, <<>>) /\ Top \in Frames
    BY <1>3
  <2>2. item.body \in Bodies
    BY <1>6 DEF Bodies
  <2> HIDE DEF f
  <2>3. LoopsOn(LoopFrame(Top, item.body), Top, item.body)
    BY <1>6, <2>1, <2>2, LoopFrameIs
  <2>4. LoopsOn(f, Top, item.body)
    BY <2>1, <2>3 DEF LoopFrame
  <2> QED
    BY <1>3, <2>4 DEF LoopsOn
<1> HIDE DEF f
<1>8. Starting(q, f, p)
  BY <1>4, <1>5, <1>7 DEF Starting, Mirrors
<1>9. Fresh(f, p, item)
  BY <1>1, <1>7 DEF Fresh, Calls
<1>10. Seen(q)'
  <2>1. Seen(q)
    BY <1>3, <1>5 DEF Seen
  <2> QED
    BY <1>1, <2>1, SeenStays
<1> QED
  BY <1>1, <1>2, <1>8, <1>9, <1>10, Pushes

LEMMA EnterAttemptFollows ==
    ASSUME GrammarIsSound, Follows, EnterAttempt
    PROVE  Follows'
<1> SUFFICES ASSUME NEW w \in Seq(Paths), Fit(w), NEW n, n = Len(stack), NEW p, p = w[n], NEW item, item = Item
             PROVE  Follows'
  BY DEF Follows
<1> DEFINE f == InnerFrame(Top, "attempt", item.body, item.else, history)
           q == Inner(p, "attempt", item.else, item.body)
<1>1. Ready /\ item.do = "attempt" /\ alphabet' = alphabet /\ look' = look /\ kind' = kind
      /\ errors' = errors /\ open' = open /\ tainted' = tainted
  BY DEF EnterAttempt, Doing, history
<1>2. Push(f)
  BY DEF EnterAttempt, InnerFrame
<1>3. /\ TypeOK /\ p \in Paths /\ p.code # <<>> /\ item = Head(p.code) /\ Top = stack[n] /\ stack[n] \in Frames
      /\ p.rule = stack[n].rule /\ Seen(p) /\ Sound(p)
  BY <1>1, AtItem
<1>4. q \in Paths
  <2>1. q \in After(p)
    BY <1>1, <1>3, AfterAttempt
  <2> QED
    BY <1>3, <2>1, AfterCode
<1>5. /\ q.is = "attempt" /\ q.rule = p.rule /\ q.body = item.else /\ q.code = item.body
      /\ q.sure = p.sure \cap {"far"} /\ q.result = "any" /\ q.next = p.next /\ q.second = p.second
      /\ q.gap = p.gap /\ q.opens = <<>>
  BY <1>3, InnerIs
<1> HIDE DEF q
<1>6. item.body \in Seq(Items) /\ item.else \in {r.body : r \in Paths}
  BY <1>4, <1>5, PathForm
<1>7. history \in Histories
  BY <1>3 DEF TypeOK, history, Histories
<1>8. /\ f \in Frames /\ f.is = "attempt" /\ f.rule = p.rule /\ f.body = item.else /\ f.code = item.body
      /\ f.tried = FALSE /\ f.moved = FALSE /\ f.trail = <<>> /\ f.saved = history
  <2>1. f = InnerFrame(Top, "attempt", item.body, item.else, history) /\ Top \in Frames
    BY <1>3
  <2>2. history \in Saves /\ item.else \in Bodies
    BY <1>6, <1>7 DEF Saves, Bodies
  <2> HIDE DEF f
  <2>3. TriesOn(AttemptFrame(Top, item.body, item.else, history), Top, item.body, item.else, history)
    BY <1>6, <2>1, <2>2, AttemptFrameIs
  <2>4. TriesOn(f, Top, item.body, item.else, history)
    BY <2>1, <2>3 DEF AttemptFrame
  <2> QED
    BY <1>3, <2>4 DEF TriesOn
<1> HIDE DEF f
<1>9. Starting(q, f, p)
  BY <1>4, <1>5, <1>8 DEF Starting, Mirrors
<1>10. Fresh(f, p, item)
  BY <1>1, <1>8 DEF Fresh, Calls
<1>11. Seen(q)'
  <2>1. Seen(q)
    BY <1>3, <1>5 DEF Seen
  <2> QED
    BY <1>1, <2>1, SeenStays
<1> QED
  BY <1>1, <1>2, <1>9, <1>10, <1>11, Pushes

(***************************************************************************)
(* The steps that drop frames.                                             *)
(***************************************************************************)
\* The frames up to m are as they were, but for tokens they have taken.
Falls(m) ==
  /\ stack' \in Seq(Frames) /\ Len(stack') = m
  /\ \A i \in 1 .. m : Keeps(stack[i], stack'[i]) /\ stack'[i].code = stack[i].code

\* The path of a frame behind the item that was carried out above it.
Resumed(q, p) == q.is = p.is /\ q.rule = p.rule /\ q.body = p.body /\ q.code = Tail(p.code)

\* A history that keeps the brackets of a path on top, if they are accounted for.
Accounted(w, m, q) ==
  /\ errors' \in BOOLEAN /\ open' \in Seq(Texts) /\ tainted' \in BOOLEAN
  /\ ~errors' /\ ~tainted' => Nest(NewTop(w, m, q), m, open')

LEMMA Drops ==
    ASSUME GrammarIsSound, TypeOK, Order, NEW w \in Seq(Paths), Fit(w), NEW m \in 1 .. Len(stack) - 1,
           NEW q \in Paths, Falls(m), Resumed(q, w[m]), MovedBelow', Trails', Awaited(NewTop(w, m, q))',
           Sure(q, m)', Seen(q)', Accounted(w, m, q), alphabet' = alphabet, look' = look
    PROVE  Follows'
<1>1. /\ Len(stack) \in Nat /\ m \in Nat \ {0} /\ m \in 1 .. Len(stack) /\ m \in 1 .. Len(w) + 1 /\ m \in 1 .. Len(stack) + 1
      /\ stack \in Seq(Frames) /\ Len(w) = Len(stack) /\ m \in 1 .. m
  BY DEF TypeOK, Fit, Linked
<1>2. Linked(w) /\ Certain(w) /\ Nested(w)
  BY DEF Fit
<1>3. /\ stack' \in Seq(Frames) /\ Len(stack') = m
      /\ \A i \in 1 .. m : Keeps(stack[i], stack'[i]) /\ stack'[i].code = stack[i].code
  BY DEF Falls
<1>4. Lower(m)
  BY <1>1, <1>3 DEF Lower
<1>5. Resumes(stack[m], stack'[m])
  BY <1>1, <1>3 DEF Resumes, Keeps
<1>6. TypeOK'
  <2>1. ASSUME NEW i \in 1 .. m, stack'[i].is = "attempt" PROVE stack'[i].saved \in Histories
    <3>1. i \in 1 .. Len(stack) /\ Keeps(stack[i], stack'[i])
      BY <1>1, <1>3
    <3>2. stack[i].is = "attempt" /\ stack'[i].saved = stack[i].saved
      BY <2>1, <3>1 DEF Keeps
    <3> QED
      BY <3>1, <3>2 DEF TypeOK
  <2>2. errors' \in BOOLEAN /\ open' \in Seq(Texts) /\ tainted' \in BOOLEAN
    BY DEF Accounted
  <2> QED
    BY <1>3, <2>1, <2>2 DEF TypeOK
<1>7. Order'
  BY <1>1, <1>4, <1>5, OrderKept
<1> DEFINE v == NewTop(w, m, q)
<1>8. v \in Seq(Paths) /\ Len(v) = m /\ v[m] = q /\ \A i \in 1 .. m - 1 : v[i] = w[i]
  <2>1. q \in Paths /\ m \in 1 .. Len(w) + 1
    BY <1>1
  <2> QED
    BY <2>1, NewTopIs
<1>9. Linked(v)'
  <2>1. Mirrors(w[m], stack[m]) /\ stack[m].code = Tail(w[m].code)
    BY <1>1, <1>2 DEF Linked, Suspends
  <2>2. Mirrors(q, stack'[m]) /\ q.code = stack'[m].code
    BY <1>1, <1>3, <2>1 DEF Mirrors, Resumed, Keeps
  <2>3. /\ \A i \in 1 .. m - 1 : stack'[i].code = stack[i].code
        /\ \A i \in 1 .. m - 2 : stack'[i].code = stack[i].code
    <3>1. /\ \A i \in 1 .. m - 1 : i \in 1 .. m
          /\ \A i \in 1 .. m - 2 : i \in 1 .. m
      BY <1>1
    <3> QED
      BY <1>3, <3>1
  <2>4. m > 1 => Suspends(w[m - 1], stack'[m - 1], stack'[m])
    BY <1>1, <1>2, <1>4, <1>5, <2>3, ResumesSuspended
  <2> QED
    BY <1>1, <1>2, <1>3, <1>4, <2>2, <2>3, <2>4, LinkedNew
<1>10. Certain(v)'
  BY <1>1, <1>2, <1>4, CertainNew
<1>11. Nested(v)'
  <2>1. ~errors' /\ ~tainted' => Nest(v, m, open')
    BY DEF Accounted
  <2>2. stack'[m].is = "attempt" /\ ~stack'[m].saved[1] /\ ~stack'[m].saved[3]
             => Nest(w, m - 1, stack'[m].saved[2])
    <3>1. stack'[m].is = stack[m].is /\ stack'[m].saved = stack[m].saved
      BY <1>1, <1>3 DEF Keeps
    <3> QED
      BY <1>1, <1>2, <3>1 DEF Nested
  <2> QED
    BY <1>1, <1>2, <1>4, <2>1, <2>2, NestedNew
<1>12. Fit(v)'
  <2>1. Awaited(v)'
    OBVIOUS
  <2> HIDE DEF v
  <2> QED
    BY <1>3, <1>8, <1>9, <1>10, <1>11, <2>1 DEF Fit
<1> QED
  BY <1>6, <1>7, <1>8, <1>12 DEF Follows

\* The frames up to m, as they were.
LEMMA CutIs ==
    ASSUME TypeOK, Order, NEW m \in 1 .. Len(stack), stack' = SubSeq(stack, 1, m)
    PROVE  /\ Falls(m) /\ MovedBelow' /\ Trails' /\ \A i \in 1 .. m : stack'[i] = stack[i]
<1>1. stack \in Seq(Frames) /\ Len(stack) \in Nat /\ m \in Nat /\ m <= Len(stack) /\ m - 0 = m /\ 0 + 1 = 1
      /\ \A x \in 1 .. m : 0 + x = x
  BY DEF TypeOK
<1>2. stack' \in Seq(Frames) /\ Len(stack') = m /\ \A i \in 1 .. m : stack'[i] = stack[i]
  <2>1. /\ SubSeq(stack, 0 + 1, m) \in Seq(Frames) /\ Len(SubSeq(stack, 0 + 1, m)) = m - 0
        /\ \A x \in 1 .. m - 0 : SubSeq(stack, 0 + 1, m)[x] = stack[0 + x]
    BY <1>1, Part
  <2> QED
    BY <1>1, <2>1
<1>3. Falls(m)
  BY <1>2 DEF Falls, Keeps
<1>4. MovedBelow' /\ Trails'
  <2>1. \A i \in 2 .. m : i \in 1 .. m /\ i - 1 \in 1 .. m /\ i \in 2 .. Len(stack)
    BY <1>1
  <2>2. \A i \in 1 .. m : i \in 1 .. Len(stack)
    BY <1>1
  <2>3. MovedBelow'
    BY <1>2, <2>1 DEF Order, MovedBelow
  <2>4. Trails'
    BY <1>2, <2>2 DEF Order, Trails
  <2> QED
    BY <2>3, <2>4
<1> QED
  BY <1>2, <1>3, <1>4

\* The last frame is gone.
LEMMA DropsAll ==
    ASSUME GrammarIsSound, TypeOK, NEW w \in Seq(Paths), Fit(w), Len(stack) = 1, w[1].opens = <<>>, stack' = <<>>,
           alphabet' = alphabet, look' = look, errors' = errors, open' = open, tainted' = tainted
    PROVE  Follows'
<1>1. TypeOK'
  BY DEF TypeOK
<1>2. Order'
  BY DEF Order, Grounded, MovedBelow, Ranked, Trails
<1>3. <<>> \in Seq(Paths)
  OBVIOUS
<1>4. Fit(<<>>)'
  <2>1. Linked(<<>>)' /\ Certain(<<>>)' /\ Awaited(<<>>)'
    BY DEF Linked, Certain, Awaited
  <2>2. Nested(<<>>)'
    <3>1. ASSUME ~errors', ~tainted' PROVE Nest(<<>>, 0, open')
      <4>1. Nest(w, 1, open) /\ open \in Seq(Texts)
        BY <3>1 DEF Fit, Nested, TypeOK
      <4>2. 1 \in Nat \ {0} /\ 1 - 1 = 0 /\ 0 \in Nat
        OBVIOUS
      <4>3. Nest(w, 0, open)
        BY <4>1, <4>2, NestDown
      <4>4. \A k \in 1 .. 0 : <<>>[k].opens = w[k].opens
        OBVIOUS
      <4>5. Nest(<<>>, 0, open)
        BY <4>2, <4>3, <4>4, NestSame
      <4> QED
        BY <4>5
    <3>2. Len(stack') = 0
      OBVIOUS
    <3> QED
      BY <3>1, <3>2 DEF Nested
  <2> QED
    BY <2>1, <2>2 DEF Fit
<1> QED
  BY <1>1, <1>2, <1>3, <1>4 DEF Follows

LEMMA BackIs ==
    ASSUME GrammarIsSound, NEW p \in Paths, NEW gains
    PROVE  /\ Back(p, gains).is = p.is /\ Back(p, gains).rule = p.rule /\ Back(p, gains).body = p.body
           /\ Back(p, gains).code = Tail(p.code) /\ Back(p, gains).sure = (p.sure \ {"told"}) \cup gains
           /\ Back(p, gains).result = "any" /\ Back(p, gains).next = AnyToken /\ Back(p, gains).second = AnyToken
           /\ Back(p, gains).gap = Gaps /\ Back(p, gains).opens = p.opens /\ DOMAIN Back(p, gains) = Fields
  BY PathForm DEF Back, Unseen, Fields

\* Nothing is known of the tokens to come, and of the last result what it is.
LEMMA SeenNothingNext ==
    ASSUME look' \in Seq(Tokens), NEW q, q.next = AnyToken, q.second = AnyToken, q.gap = Gaps,
           q.result = "none" => kind' = "none", q.result = "some" => kind' # "none",
           "told" \in q.sure => errors'
    PROVE  Seen(q)'
<1>1. KnowsGap(Gaps)'
  <2>1. CASE look' = <<>>
    BY <2>1 DEF KnowsGap, Gaps
  <2>2. CASE look' # <<>>
    <3>1. look'[1] \in Tokens
      BY <2>2
    <3> QED
      BY <2>2, <3>1 DEF KnowsGap, Tokens
  <2> QED
    BY <2>1, <2>2
<1>2. \A k : Knows(k, AnyToken)'
  BY FitsAny DEF Knows
<1> QED
  BY <1>1, <1>2 DEF Seen

LEMMA Cuts ==
    ASSUME GrammarIsSound, TypeOK, Order, NEW w \in Seq(Paths), Fit(w), NEW m \in 1 .. Len(stack) - 1,
           NEW q \in Paths, stack' = SubSeq(stack, 1, m), \A h \in m + 1 .. Len(stack) : stack[h].is # "attempt",
           Resumed(q, w[m]), q.opens = w[m].opens, Sure(q, m), Seen(q)', ~errors /\ ~tainted => Nest(w, m, open),
           alphabet' = alphabet, look' = look, errors' = errors, open' = open, tainted' = tainted
    PROVE  Follows'
<1>1. /\ Len(stack) \in Nat /\ m \in Nat \ {0} /\ m \in 1 .. Len(stack) /\ m \in 1 .. Len(w) + 1
      /\ stack \in Seq(Frames) /\ Len(w) = Len(stack)
  BY DEF TypeOK, Fit, Linked
<1>2. Falls(m) /\ MovedBelow' /\ Trails' /\ \A i \in 1 .. m : stack'[i] = stack[i]
  BY <1>1, CutIs
<1>3. Lower(m)
  BY <1>1, <1>2 DEF Falls, Lower
<1>4. Awaited(NewTop(w, m, q))'
  <2>1. Alive => Alive'
    BY DEF Alive
  <2>2. stack'[m] = stack[m]
    BY <1>1, <1>2
  <2>3. stack[m].is = "attempt" /\ stack[m].trail # <<>> =>
             Alive' \/ (stack'[m].is = "attempt" /\ stack'[m].trail # <<>>)
    BY <2>2
  <2>4. Linked(w) /\ Awaited(w)
    BY DEF Fit
  <2> QED
    BY <1>1, <1>3, <2>1, <2>3, <2>4, AwaitedKept
<1>5. Sure(q, m)'
  <2>1. \A i \in 1 .. m : stack'[i].is = stack[i].is /\ (stack[i].moved => stack'[i].moved)
    BY <1>2
  <2> QED
    BY <1>1, <2>1, SureSame
<1>6. Accounted(w, m, q)
  <2>1. errors' \in BOOLEAN /\ open' \in Seq(Texts) /\ tainted' \in BOOLEAN
    BY DEF TypeOK
  <2>2. ASSUME ~errors', ~tainted' PROVE Nest(NewTop(w, m, q), m, open')
    <3> DEFINE v == NewTop(w, m, q)
    <3>1. v[m] = q /\ \A i \in 1 .. m - 1 : v[i] = w[i]
      <4>1. q \in Paths /\ m \in 1 .. Len(w) + 1
        BY <1>1
      <4> QED
        BY <4>1, NewTopIs
    <3>2. Nest(w, m, open)
      BY <2>2
    <3> HIDE DEF v
    <3>3. \A k \in 1 .. m : k = m \/ k \in 1 .. m - 1
      BY <1>1
    <3>4. \A k \in 1 .. m : v[k].opens = w[k].opens
      BY <3>1, <3>3
    <3>5. Nest(v, m, open)
      BY <1>1, <3>2, <3>4, NestSame
    <3> QED
      BY <3>5 DEF v
  <2> QED
    BY <2>1, <2>2 DEF Accounted
<1> QED
  BY <1>2, <1>4, <1>5, <1>6, Drops

LEMMA LeaveRuleFollows ==
    ASSUME GrammarIsSound, Follows, LeaveRule
    PROVE  Follows'
<1> SUFFICES ASSUME NEW w \in Seq(Paths), Fit(w), NEW n, n = Len(stack), NEW p, p = w[n]
             PROVE  Follows'
  BY DEF Follows
<1>1. TypeOK /\ Order /\ stack \in Seq(Frames) /\ stack # <<>> /\ look \in Seq(Tokens) /\ open \in Seq(Texts)
      /\ Top.code = <<>> /\ Top.is \in {"rule", "again"} /\ stack' = Below
      /\ alphabet' = alphabet /\ look' = look /\ errors' = errors /\ open' = open /\ tainted' = tainted
  BY DEF LeaveRule, Finished, Follows, TypeOK, history
<1>2. /\ n \in Nat \ {0} /\ n \in 1 .. n /\ n \in 1 .. Len(stack) /\ p \in Paths /\ Sure(p, n)
      /\ Top = stack[n] /\ stack[n] \in Frames /\ Sound(p) /\ p.code = <<>> /\ Len(w) = n
      /\ p.is = stack[n].is /\ p.rule = stack[n].rule
  BY <1>1, OnTop DEF Mirrors
<1>3. kind' # "none"
  BY DEF LeaveRule
<1>4. EndsWell(p)
  BY <1>2 DEF Sound
<1>5. p.opens = <<>>
  BY <1>4 DEF EndsWell
<1>6. CASE n = 1
  <2>1. stack' = <<>>
    BY <1>1, <1>6 DEF Below
  <2> QED
    BY <1>1, <1>5, <1>6, <2>1, DropsAll
<1>7. CASE n # 1
  <2> DEFINE m == n - 1
  <2>1. m \in 1 .. Len(stack) - 1 /\ m \in 1 .. Len(stack) /\ m \in Nat \ {0} /\ m + 1 = n /\ n \in 2 .. Len(stack)
    BY <1>2, <1>7
  <2> HIDE DEF m
  <2> DEFINE r    == w[m]
             item == Head(r.code)
  <2>2. r \in Paths /\ Suspends(r, stack[m], stack[n]) /\ Sure(r, m) /\ Mirrors(r, stack[m])
    BY <1>1, <1>2, <2>1 DEF Fit, Linked, Certain
  <2>3. r.code # <<>> /\ Calls(item, stack[m], stack[n])
    BY <2>2 DEF Suspends
  <2> HIDE DEF item
  <2>4. stack' = SubSeq(stack, 1, m)
    BY <1>1 DEF Below, m
  <2>5. \A h \in m + 1 .. Len(stack) : stack[h].is # "attempt"
    <3>1. \A h \in m + 1 .. Len(stack) : h = n
      BY <1>2, <2>1
    <3> QED
      BY <1>1, <1>2, <3>1
  <2>6. ~errors /\ ~tainted => Nest(w, m, open)
    <3> SUFFICES ASSUME ~errors, ~tainted PROVE Nest(w, m, open)
      OBVIOUS
    <3>1. Nest(w, n, open)
      BY DEF Fit, Nested
    <3>2. w[n].opens = <<>>
      BY <1>5
    <3> QED
      BY <1>1, <1>2, <3>1, <3>2, NestDown DEF m
  <2>7. stack[n].moved => stack[m].moved
    <3>1. stack[n].is # "attempt"
      BY <1>1, <1>2
    <3> QED
      BY <1>1, <2>1, <3>1 DEF Order, MovedBelow, m
  <2>8. CASE p.is = "rule"
    <3> DEFINE q == Returned(r, p.rule)
    <3>1. item.do \in {"call", "try"} /\ item.rule = p.rule
      BY <1>2, <2>3, <2>8 DEF Calls
    <3>2. q \in Paths
      <4>1. q \in After(r)
        BY <2>3, <3>1, AfterCall DEF item
      <4> QED
        BY <2>2, <4>1, AfterCode
    <3>3. /\ q.is = r.is /\ q.rule = r.rule /\ q.body = r.body /\ q.code = Tail(r.code)
          /\ q.sure = (r.sure \ {"told"}) \cup Gains(p.rule) /\ q.result = "some"
          /\ q.next = AnyToken /\ q.second = AnyToken /\ q.gap = Gaps /\ q.opens = r.opens
      BY <2>2, BackIs DEF Returned, Fields
    <3> HIDE DEF q
    <3>4. Gains(p.rule) # {} => stack[m].moved
      BY <1>2, <1>4, <2>7, <2>8 DEF EndsWell, Moved, Sure
    <3>5. Sure(q, m)
      <4>1. stack[m].moved => Far(m)
        BY <2>1 DEF Far
      <4>2. CASE Gains(p.rule) = {}
        BY <2>2, <3>3, <4>2 DEF Sure
      <4>3. CASE Gains(p.rule) # {}
        BY <2>2, <3>3, <3>4, <4>1, <4>3 DEF Sure
      <4> QED
        BY <4>2, <4>3
    <3>6. Seen(q)'
      <4>1. "told" \notin q.sure
        BY <3>3 DEF Gains
      <4>2. look' \in Seq(Tokens) /\ q.result = "some"
        BY <1>1, <3>3
      <4> QED
        BY <1>3, <3>3, <4>1, <4>2, SeenNothingNext
    <3>7. Resumed(q, w[m])
      BY <3>3 DEF Resumed
    <3>8. q.opens = w[m].opens
      BY <3>3
    <3> QED
      BY <1>1, <2>1, <2>4, <2>5, <2>6, <3>2, <3>5, <3>6, <3>7, <3>8, Cuts
  <2>9. CASE p.is = "again"
    <3> DEFINE q == Back(r, {"moved", "far"})
    <3>1. item.do = "attempt"
      BY <1>2, <2>3, <2>9 DEF Calls
    <3>2. q \in Paths
      <4>1. q \in After(r)
        BY <2>3, <3>1, AfterAttempt DEF item
      <4> QED
        BY <2>2, <4>1, AfterCode
    <3>3. /\ q.is = r.is /\ q.rule = r.rule /\ q.body = r.body /\ q.code = Tail(r.code)
          /\ q.sure = (r.sure \ {"told"}) \cup {"moved", "far"} /\ q.result = "any"
          /\ q.next = AnyToken /\ q.second = AnyToken /\ q.gap = Gaps /\ q.opens = r.opens
      BY <2>2, BackIs
    <3> HIDE DEF q
    <3>4. stack[m].moved
      BY <1>2, <1>4, <2>7, <2>9 DEF EndsWell, Moved, Sure
    <3>5. Sure(q, m)
      <4>1. Far(m)
        BY <2>1, <3>4 DEF Far
      <4> QED
        BY <2>2, <3>3, <3>4, <4>1 DEF Sure
    <3>6. Seen(q)'
      <4>1. "told" \notin q.sure
        BY <3>3
      <4>2. look' \in Seq(Tokens)
        BY <1>1
      <4> QED
        BY <1>3, <3>3, <4>1, <4>2, SeenNothingNext
    <3>7. Resumed(q, w[m])
      BY <3>3 DEF Resumed
    <3>8. q.opens = w[m].opens
      BY <3>3
    <3> QED
      BY <1>1, <2>1, <2>4, <2>5, <2>6, <3>2, <3>5, <3>6, <3>7, <3>8, Cuts
  <2> QED
    BY <1>1, <1>2, <2>8, <2>9
<1> QED
  BY <1>6, <1>7

LEMMA LeaveLoopFollows ==
    ASSUME GrammarIsSound, Follows, LeaveLoop
    PROVE  Follows'
<1> SUFFICES ASSUME NEW w \in Seq(Paths), Fit(w), NEW n, n = Len(stack), NEW p, p = w[n], NEW top, top = Item
             PROVE  Follows'
  BY DEF Follows
<1>1. Ready /\ top.do \in {"break", "binary"} /\ stack' = Below
      /\ alphabet' = alphabet /\ look' = look /\ kind' = kind
      /\ errors' = errors /\ open' = open /\ tainted' = tainted
  BY DEF LeaveLoop, Doing, history
<1>2. /\ TypeOK /\ Order /\ look \in Seq(Tokens) /\ stack \in Seq(Frames) /\ open \in Seq(Texts) /\ stack # <<>>
      /\ n \in Nat \ {0} /\ n \in 1 .. n /\ n \in 1 .. Len(stack) /\ Len(w) = n
      /\ p \in Paths /\ p.code # <<>> /\ top = Head(p.code) /\ p.is = stack[n].is /\ p.rule = stack[n].rule
      /\ Sure(p, n) /\ Seen(p) /\ Sound(p)
  BY <1>1, AtItem
<1>3. /\ p.is = "loop" /\ p.opens = <<>>
      /\ LoopGains(p.rule) # {} => "far" \in p.sure
      /\ Within(p.next, LoopExit(p.rule))
  <2>1. BreaksWell(p, top)
    BY <1>2 DEF Sound
  <2> QED
    BY <1>1, <2>1 DEF BreaksWell
<1>4. n # 1
  BY <1>2, <1>3 DEF Order, Grounded
<1> DEFINE m == n - 1
<1>5. m \in 1 .. Len(stack) - 1 /\ m \in 1 .. Len(stack) /\ m \in Nat \ {0} /\ m + 1 = n /\ n \in 2 .. Len(stack)
  BY <1>2, <1>4
<1>6. stack' = SubSeq(stack, 1, m)
  BY <1>1 DEF Below
<1>7. ~errors /\ ~tainted => Nest(w, m, open)
  <2> SUFFICES ASSUME ~errors, ~tainted PROVE Nest(w, m, open)
    OBVIOUS
  <2>1. Nest(w, n, open)
    BY DEF Fit, Nested
  <2>2. w[n].opens = <<>>
    BY <1>3
  <2> QED
    BY <1>2, <2>1, <2>2, NestDown
<1>8. stack[n].moved => stack[m].moved
  BY <1>2, <1>3, <1>5 DEF Order, MovedBelow
<1> HIDE DEF m
<1> DEFINE r    == w[m]
           item == Head(r.code)
           q    == [Back(r, LoopGains(r.rule)) EXCEPT !.next = LoopExit(r.rule)]
<1>9. r \in Paths /\ Suspends(r, stack[m], stack[n]) /\ Sure(r, m) /\ Mirrors(r, stack[m]) /\ Sound(r)
  <2>1. r \in Paths
    BY <1>2, <1>5
  <2> QED
    BY <1>2, <1>5, <2>1, PathsComplete DEF Fit, Linked, Certain
<1>10. r.code # <<>> /\ Calls(item, stack[m], stack[n])
  BY <1>9 DEF Suspends
<1> HIDE DEF item
<1>11. item.do = "loop" /\ stack[n].rule = stack[m].rule /\ r.rule = p.rule /\ stack[m].is = r.is
  BY <1>2, <1>3, <1>9, <1>10 DEF Calls, Mirrors
<1>12. q \in Paths
  <2>1. q \in After(r)
    BY <1>10, <1>11, AfterLoop DEF item
  <2> QED
    BY <1>9, <2>1, AfterCode
<1>13. /\ q.is = r.is /\ q.rule = r.rule /\ q.body = r.body /\ q.code = Tail(r.code)
       /\ q.sure = (r.sure \ {"told"}) \cup LoopGains(r.rule) /\ q.result = "any"
       /\ q.next = LoopExit(r.rule) /\ q.second = AnyToken /\ q.gap = Gaps /\ q.opens = r.opens
  BY <1>9, BackIs DEF Fields
<1> HIDE DEF q
<1>14. LoopGains(r.rule) # {} => stack[m].moved
  <2> SUFFICES ASSUME LoopGains(r.rule) # {} PROVE stack[m].moved
    OBVIOUS
  <2>1. r.is = "rule"
    <3>1. CallsWell(r, item)
      BY <1>9, <1>10 DEF Sound, item
    <3> QED
      BY <1>11, <3>1 DEF CallsWell
  <2>2. Far(n)
    BY <1>2, <1>3, <1>11 DEF Sure
  <2>3. PICK k \in 1 .. n : stack[k].moved /\ \A h \in k + 1 .. n : stack[h].is # "rule"
    BY <2>2 DEF Far
  <2>4. CASE k = n
    BY <1>8, <2>3, <2>4
  <2>5. CASE k = m
    BY <2>3, <2>5
  <2>6. CASE k # n /\ k # m
    <3>1. m \in k + 1 .. n
      BY <1>2, <1>5, <2>3, <2>6
    <3> QED
      BY <1>11, <2>1, <2>3, <3>1
  <2> QED
    BY <2>4, <2>5, <2>6
<1>15. Sure(q, m)
  <2>1. stack[m].moved => Far(m)
    BY <1>5 DEF Far
  <2>2. CASE LoopGains(r.rule) = {}
    BY <1>9, <1>13, <2>2 DEF Sure
  <2>3. CASE LoopGains(r.rule) # {}
    BY <1>9, <1>13, <1>14, <2>1, <2>3 DEF Sure
  <2> QED
    BY <2>2, <2>3
<1>16. Seen(q)'
  <2>1. Knows(1, q.next)
    <3>1. Knows(1, p.next) /\ Within(p.next, q.next)
      BY <1>2, <1>3, <1>11, <1>13 DEF Seen
    <3> QED
      BY <3>1, KnowsMore
  <2>2. "told" \notin q.sure
    BY <1>13 DEF LoopGains
  <2>3. KnowsGap(Gaps)
    <3>1. CASE look = <<>>
      BY <3>1 DEF KnowsGap, Gaps
    <3>2. CASE look # <<>>
      <4>1. look[1] \in Tokens
        BY <1>2, <3>2
      <4> QED
        BY <3>2, <4>1 DEF KnowsGap, Tokens
    <3> QED
      BY <3>1, <3>2
  <2>4. Seen(q)
    BY <1>13, <2>1, <2>2, <2>3, KnowsAny DEF Seen
  <2> QED
    BY <1>1, <2>4, SeenStays
<1>17. \A h \in m + 1 .. Len(stack) : stack[h].is # "attempt"
  <2>1. \A h \in m + 1 .. Len(stack) : h = n
    BY <1>2, <1>5
  <2> QED
    BY <1>2, <1>3, <2>1
<1>18. Resumed(q, w[m])
  BY <1>13 DEF Resumed
<1>19. q.opens = w[m].opens
  BY <1>13
<1> QED
  BY <1>1, <1>2, <1>5, <1>6, <1>7, <1>12, <1>15, <1>16, <1>17, <1>18, <1>19, Cuts

\* The attempt that takes over what the one on top has taken, if there is one.
Outer == Max({0} \cup (Attempts \ {Len(stack)}))

LEMMA OuterIs ==
    ASSUME stack \in Seq(Frames), stack # <<>>
    PROVE  /\ Outer \in 0 .. Len(stack) - 1
           /\ Outer # 0 => Outer \in 1 .. Len(stack) /\ stack[Outer].is = "attempt"
           /\ \A h \in 1 .. Len(stack) - 1 : h > Outer => stack[h].is # "attempt"
<1> DEFINE S == {0} \cup (Attempts \ {Len(stack)})
<1>0. Len(stack) \in Nat \ {0} /\ DOMAIN stack = 1 .. Len(stack)
  BY NotEmpty
<1>1. S \in SUBSET (0 .. Len(stack)) /\ S \in SUBSET (0 .. Len(stack) - 1) /\ S # {}
  BY <1>0 DEF Attempts
<1>2. Max(S) \in S /\ \A y \in S : y <= Max(S)
  BY <1>0, <1>1, GreatestUpTo
<1>3. Outer = Max(S)
  BY DEF Outer
<1> HIDE DEF S
<1>4. Outer \in 0 .. Len(stack) - 1
  BY <1>1, <1>2, <1>3
<1>5. Outer # 0 => Outer \in 1 .. Len(stack) /\ stack[Outer].is = "attempt"
  BY <1>0, <1>2, <1>3 DEF S, Attempts
<1>6. ASSUME NEW h \in 1 .. Len(stack) - 1, h > Outer
      PROVE  stack[h].is # "attempt"
  <2>1. Max(S) \in Nat /\ h > Max(S) /\ h \in Nat
    BY <1>0, <1>3, <1>4, <1>6
  <2>2. h \notin S
    <3> SUFFICES ASSUME h \in S PROVE FALSE
      OBVIOUS
    <3>1. h <= Max(S)
      BY <1>2
    <3> QED
      BY <2>1, <3>1
  <2>3. h \in DOMAIN stack /\ h # Len(stack)
    <3>1. Len(stack) \in Nat /\ h \in Nat /\ 1 <= h /\ h <= Len(stack) - 1
      BY <1>0
    <3>2. h \in 1 .. Len(stack) /\ h # Len(stack)
      BY <3>1
    <3> QED
      BY <1>0, <3>2
  <2> QED
    BY <2>2, <2>3 DEF S, Attempts
<1> QED
  BY <1>4, <1>5, <1>6

LEMMA Joined ==
    ASSUME NEW S, NEW s \in Seq(S), NEW t \in Seq(S)
    PROVE  /\ s \o t \in Seq(S) /\ Len(s \o t) = Len(s) + Len(t) /\ Len(s) \in Nat /\ Len(t) \in Nat
           /\ \A k \in 1 .. Len(s) : (s \o t)[k] = s[k]
           /\ \A k \in 1 .. Len(s) + Len(t) :
                k \in 1 .. Len(s) \/ (k - Len(s) \in 1 .. Len(t) /\ (s \o t)[k] = t[k - Len(s)])
  OBVIOUS

LEMMA JoinedIsFull ==
    ASSUME NEW S, NEW s \in Seq(S), NEW t \in Seq(S)
    PROVE  s # <<>> \/ t # <<>> => s \o t # <<>>
<1> SUFFICES ASSUME s # <<>> \/ t # <<>> PROVE s \o t # <<>>
  OBVIOUS
<1>1. Len(s) # 0 \/ Len(t) # 0
  <2>1. CASE s # <<>>
    BY <2>1, NotEmpty
  <2>2. CASE t # <<>>
    BY <2>2, NotEmpty
  <2> QED
    BY <2>1, <2>2
<1>2. Len(s \o t) # Len(<<>>)
  BY <1>1, Joined
<1> QED
  BY <1>2, Zenon

\* The frames once the attempt above them has come through.
Commits(i, trail) ==
  [stack[i] EXCEPT !.moved = @ \/ i >= Outer, !.trail = IF i = Outer THEN @ \o trail ELSE @]

Committed(m, trail) ==
  /\ stack' \in Seq(Frames) /\ Len(stack') = m
  /\ \A i \in 1 .. m : /\ stack'[i].is = stack[i].is /\ stack'[i].rule = stack[i].rule
                       /\ stack'[i].body = stack[i].body /\ stack'[i].tried = stack[i].tried
                       /\ stack'[i].saved = stack[i].saved /\ stack'[i].code = stack[i].code
                       /\ stack'[i].moved = (stack[i].moved \/ i >= Outer)
                       /\ stack'[i].trail = IF i = Outer THEN stack[i].trail \o trail ELSE stack[i].trail

LEMMA SeqOf ==
    ASSUME NEW S, NEW k, k \in Nat, NEW s, s \in [1 .. k -> S]
    PROVE  s \in Seq(S)
  BY SeqDef, Zenon

LEMMA CommittedIs ==
    ASSUME stack \in Seq(Frames), stack # <<>>, NEW m, m = Len(stack) - 1, NEW trail, trail \in Seq(Tokens),
           stack' = [i \in DOMAIN Below |-> Commits(i, trail)]
    PROVE  Committed(m, trail)
<1>1. m \in Nat /\ Len(stack) \in Nat \ {0} /\ DOMAIN stack = 1 .. Len(stack)
      /\ \A i \in 1 .. m : i \in 1 .. Len(stack) /\ stack[i] \in Frames
  <2>1. Len(stack) \in Nat \ {0} /\ DOMAIN stack = 1 .. Len(stack) /\ \A i \in 1 .. Len(stack) : stack[i] \in Frames
    BY NotEmpty
  <2> QED
    BY <2>1
<1>2. DOMAIN Below = 1 .. m
  <2>1. Below \in Seq(Frames) /\ Len(Below) = m
    BY Front DEF Below
  <2> QED
    BY <2>1
<1>3. ASSUME NEW i \in 1 .. m
      PROVE  /\ stack'[i] \in Frames /\ stack'[i].is = stack[i].is /\ stack'[i].rule = stack[i].rule
             /\ stack'[i].body = stack[i].body /\ stack'[i].tried = stack[i].tried
             /\ stack'[i].saved = stack[i].saved /\ stack'[i].code = stack[i].code
             /\ stack'[i].moved = (stack[i].moved \/ i >= Outer)
             /\ stack'[i].trail = IF i = Outer THEN stack[i].trail \o trail ELSE stack[i].trail
  <2> DEFINE moved == stack[i].moved \/ i >= Outer
             t == IF i = Outer THEN stack[i].trail \o trail ELSE stack[i].trail
             c == stack[i].code
             x == stack[i].name
             g == With(stack[i], moved, t, c, x)
  <2>1. stack[i] \in Frames
    BY <1>1
  <2>2. stack[i].trail \in Seq(Tokens) /\ stack[i].code \in Seq(Items) /\ stack[i].name \in Texts
    BY <2>1 DEF Frames
  <2>3. stack[i].trail \o trail \in Seq(Tokens)
    BY <2>2, Joined
  <2>4. moved \in BOOLEAN /\ t \in Seq(Tokens) /\ c \in Seq(Items) /\ x \in Texts
    BY <2>2, <2>3
  <2>5. stack'[i] = g
    <3>1. stack'[i] = Commits(i, trail)
      BY <1>2
    <3>2. Commits(i, trail) = g
      BY <2>1 DEF Commits, With, Frames
    <3> QED
      BY <3>1, <3>2
  <2> HIDE DEF moved, t, c, x
  <2>7. g = With(stack[i], moved, t, c, x)
    OBVIOUS
  <2> HIDE DEF g
  <2>6. /\ g \in Frames /\ g.is = stack[i].is /\ g.rule = stack[i].rule /\ g.body = stack[i].body
        /\ g.tried = stack[i].tried /\ g.saved = stack[i].saved /\ g.moved = moved /\ g.trail = t /\ g.code = c
    BY <2>1, <2>4, <2>7, FrameTakes
  <2> QED
    BY <2>5, <2>6 DEF moved, t, c
<1>4. stack' \in Seq(Frames) /\ Len(stack') = m
  <2>1. DOMAIN stack' = 1 .. m /\ stack' = [i \in 1 .. m |-> stack'[i]]
    BY <1>2
  <2>2. \A i \in 1 .. m : stack'[i] \in Frames
    BY <1>3
  <2>3. stack' \in [1 .. m -> Frames]
    BY <2>1, <2>2
  <2>4. stack' \in Seq(Frames)
    BY <1>1, <2>3, SeqOf
  <2> QED
    BY <1>1, <2>1, <2>4
<1> QED
  BY <1>3, <1>4 DEF Committed

LEMMA CommitFollows ==
    ASSUME GrammarIsSound, Follows, Commit
    PROVE  Follows'
<1> SUFFICES ASSUME NEW w \in Seq(Paths), Fit(w), NEW n, n = Len(stack), NEW p, p = w[n],
                    NEW trail, trail = Top.trail, NEW m, m = n - 1
             PROVE  Follows'
  BY DEF Follows
<1>1. TypeOK /\ Order /\ stack \in Seq(Frames) /\ stack # <<>> /\ look \in Seq(Tokens) /\ open \in Seq(Texts)
      /\ Top.code = <<>> /\ Top.is = "attempt"
      /\ alphabet' = alphabet /\ look' = look /\ kind' = kind /\ errors' = errors /\ open' = open /\ tainted' = tainted
  BY DEF Commit, Finished, Follows, TypeOK, history
<1>2. /\ n \in Nat \ {0} /\ n \in 1 .. n /\ n \in 1 .. Len(stack) /\ p \in Paths
      /\ Top = stack[n] /\ stack[n] \in Frames /\ Sound(p) /\ p.code = <<>> /\ Len(w) = n
      /\ stack[n].is = "attempt"
  BY <1>1, OnTop DEF Mirrors
<1>3. p.opens = <<>>
  BY <1>2 DEF Sound, EndsWell
<1>4. n # 1
  BY <1>1, <1>2 DEF Order, Grounded
<1>5. m \in 1 .. Len(stack) - 1 /\ m \in 1 .. Len(stack) /\ m \in Nat \ {0} /\ m + 1 = n /\ m \in 1 .. m
      /\ m \in 1 .. Len(w) + 1 /\ n - 1 = m
  BY <1>2, <1>4
<1>6. trail \in Seq(Tokens)
  BY <1>2 DEF Frames
<1>7. Committed(m, trail)
  <2>1. stack' = [i \in DOMAIN Below |-> Commits(i, trail)]
    BY <1>2 DEF Commit, Commits, Outer
  <2>2. m = Len(stack) - 1
    OBVIOUS
  <2> QED
    BY <1>1, <1>6, <2>1, <2>2, CommittedIs
<1>8. /\ stack' \in Seq(Frames) /\ Len(stack') = m
      /\ \A i \in 1 .. m : /\ stack'[i].is = stack[i].is /\ stack'[i].rule = stack[i].rule
                           /\ stack'[i].body = stack[i].body /\ stack'[i].tried = stack[i].tried
                           /\ stack'[i].saved = stack[i].saved /\ stack'[i].code = stack[i].code
                           /\ stack'[i].moved = (stack[i].moved \/ i >= Outer)
                           /\ stack'[i].trail = IF i = Outer THEN stack[i].trail \o trail ELSE stack[i].trail
  BY <1>7 DEF Committed
<1>9. /\ Outer \in 0 .. m
      /\ Outer # 0 => Outer \in 1 .. m /\ stack[Outer].is = "attempt"
      /\ \A h \in 1 .. m : h > Outer => stack[h].is # "attempt"
  <2>1. /\ Outer \in 0 .. Len(stack) - 1
        /\ Outer # 0 => Outer \in 1 .. Len(stack) /\ stack[Outer].is = "attempt"
        /\ \A h \in 1 .. Len(stack) - 1 : h > Outer => stack[h].is # "attempt"
    BY <1>1, OuterIs
  <2>2. Len(stack) - 1 = m
    BY <1>5
  <2> QED
    BY <1>5, <2>1, <2>2
<1>10. ASSUME NEW i \in 1 .. m
       PROVE  /\ stack[i].trail \in Seq(Tokens) /\ (stack[i].trail # <<>> => stack'[i].trail # <<>>)
              /\ i = Outer /\ trail # <<>> => stack'[i].trail # <<>>
  <2>1. stack[i] \in Frames
    BY <1>1, <1>5
  <2>2. stack[i].trail \in Seq(Tokens)
    BY <2>1 DEF Frames
  <2>3. stack[i].trail # <<>> \/ trail # <<>> => stack[i].trail \o trail # <<>>
    BY <1>6, <2>2, JoinedIsFull
  <2> QED
    BY <1>8, <2>2, <2>3
<1>11. Falls(m)
  BY <1>8, <1>10 DEF Falls, Keeps
<1>12. MovedBelow'
  <2>1. ASSUME NEW i \in 2 .. m, stack'[i].moved, stack'[i].is # "attempt"
        PROVE  stack'[i - 1].moved
    <3>1. i \in 1 .. m /\ i - 1 \in 1 .. m /\ i \in 2 .. Len(stack) /\ i \in Nat
      BY <1>5
    <3>2. CASE i - 1 >= Outer
      BY <1>8, <3>1, <3>2
    <3>3. CASE ~ (i - 1 >= Outer)
      <4>1. i # Outer
        BY <1>8, <1>9, <2>1, <3>1
      <4>2. ~ (i >= Outer)
        BY <1>9, <3>1, <3>3, <4>1
      <4>3. stack[i].moved /\ stack[i].is # "attempt"
        BY <1>8, <2>1, <3>1, <4>2
      <4>4. stack[i - 1].moved
        BY <1>1, <3>1, <4>3 DEF Order, MovedBelow
      <4> QED
        BY <1>8, <3>1, <4>4
    <3> QED
      BY <3>2, <3>3
  <2> QED
    BY <1>8, <2>1 DEF MovedBelow
<1>13. Trails'
  <2>1. \A i \in 1 .. Len(stack) : \A k \in 1 .. Len(stack[i].trail) : stack[i].trail[k].token # "eof"
    BY <1>1 DEF Order, Trails
  <2>2. \A k \in 1 .. Len(trail) : trail[k].token # "eof"
    BY <1>2, <2>1
  <2>3. ASSUME NEW i \in 1 .. m, NEW k \in 1 .. Len(stack'[i].trail)
        PROVE  stack'[i].trail[k].token # "eof"
    <3>1. i \in 1 .. Len(stack)
      BY <1>5
    <3>2. CASE i = Outer
      <4> DEFINE y == stack[i].trail
                 z == y \o trail
      <4>1. stack'[i].trail = z
        BY <1>8, <3>2
      <4>2. y \in Seq(Tokens)
        BY <1>10
      <4>3. \A x \in 1 .. Len(y) : y[x].token # "eof"
        BY <2>1, <3>1
      <4> HIDE DEF y
      <4>4. /\ Len(z) = Len(y) + Len(trail)
            /\ \A x \in 1 .. Len(y) : z[x] = y[x]
            /\ \A x \in 1 .. Len(y) + Len(trail) :
                 x \in 1 .. Len(y) \/ (x - Len(y) \in 1 .. Len(trail) /\ z[x] = trail[x - Len(y)])
        BY <1>6, <4>2, Joined
      <4> HIDE DEF z
      <4>5. k \in 1 .. Len(y) + Len(trail)
        BY <4>1, <4>4
      <4>6. CASE k \in 1 .. Len(y)
        BY <4>1, <4>3, <4>4, <4>6
      <4>7. CASE k - Len(y) \in 1 .. Len(trail) /\ z[k] = trail[k - Len(y)]
        BY <2>2, <4>1, <4>7
      <4> QED
        BY <4>4, <4>5, <4>6, <4>7
    <3>3. CASE i # Outer
      <4>1. stack'[i].trail = stack[i].trail
        BY <1>8, <3>3
      <4> QED
        BY <2>1, <3>1, <4>1
    <3> QED
      BY <3>2, <3>3
  <2> QED
    BY <1>8, <2>3 DEF Trails
<1> DEFINE r    == w[m]
           item == Head(r.code)
           q    == Back(r, {"moved", "far"})
<1>14. r \in Paths /\ Suspends(r, stack[m], stack[n]) /\ Sure(r, m) /\ Mirrors(r, stack[m])
  BY <1>1, <1>2, <1>5 DEF Fit, Linked, Certain
<1>15. r.code # <<>> /\ item.do = "attempt"
  BY <1>2, <1>14 DEF Suspends, Calls
<1>16. q \in Paths
  <2>1. q \in After(r)
    BY <1>15, AfterAttempt
  <2> QED
    BY <1>14, <2>1, AfterCode
<1>17. /\ q.is = r.is /\ q.rule = r.rule /\ q.body = r.body /\ q.code = Tail(r.code)
       /\ q.sure = (r.sure \ {"told"}) \cup {"moved", "far"} /\ q.result = "any"
       /\ q.next = AnyToken /\ q.second = AnyToken /\ q.gap = Gaps /\ q.opens = r.opens
  BY <1>14, BackIs
<1> HIDE DEF q
<1>18. Sure(q, m)'
  <2>1. stack'[m].moved
    <3>1. m >= Outer /\ m \in 1 .. m
      BY <1>5, <1>9
    <3>2. stack'[m].moved = (stack[m].moved \/ m >= Outer)
      BY <1>8, <3>1
    <3> QED
      BY <3>1, <3>2
  <2>2. Far(m)'
    <3>1. \A h \in m + 1 .. m : stack'[h].is # "rule"
      BY <1>5
    <3> QED
      BY <1>5, <2>1, <3>1 DEF Far
  <2> QED
    BY <2>1, <2>2 DEF Sure
<1>19. Seen(q)'
  <2>1. "told" \notin q.sure
    BY <1>17
  <2>2. look' \in Seq(Tokens)
    BY <1>1
  <2> QED
    BY <1>17, <2>1, <2>2, SeenNothingNext
<1>20. NewTop(w, m, q)[m] = q /\ \A i \in 1 .. m - 1 : NewTop(w, m, q)[i] = w[i]
  <2>1. m \in 1 .. Len(w) + 1
    BY <1>5
  <2> QED
    BY <1>16, <2>1, NewTopIs
<1>21. Awaited(NewTop(w, m, q))'
  <2> DEFINE v == NewTop(w, m, q)
  <2>1. \A i \in 1 .. m - 1 : v[i] = w[i]
    BY <1>20
  <2> HIDE DEF v
  <2>2. Alive => Alive'
    BY <1>1 DEF Alive
  <2>3. ASSUME NEW i \in 1 .. m - 1, ~stack'[i].moved, ~Fits("eof", w[i].next), ~Alive'
        PROVE  \E h \in i + 1 .. m : stack'[h].is = "attempt" /\ stack'[h].trail # <<>>
    <3>1. i \in 1 .. m /\ i \in 1 .. Len(stack) - 1 /\ i \in Nat
      BY <1>5
    <3>2. ~stack[i].moved /\ ~ (i >= Outer)
      BY <1>8, <2>3, <3>1
    <3>3. Awaits(w[i], i)
      BY <3>1 DEF Fit, Awaited
    <3>4. PICK h \in i + 1 .. Len(stack) : stack[h].is = "attempt" /\ stack[h].trail # <<>>
      BY <2>2, <2>3, <3>2, <3>3 DEF Awaits
    <3>5. CASE h = n
      <4>1. Outer \in i + 1 .. m /\ Outer \in 1 .. m /\ stack[Outer].is = "attempt"
        BY <1>5, <1>9, <3>1, <3>2
      <4>2. trail # <<>>
        BY <1>2, <3>4, <3>5
      <4>3. stack'[Outer].trail # <<>>
        BY <1>10, <4>1, <4>2
      <4>4. stack'[Outer].is = "attempt"
        BY <1>8, <4>1
      <4> QED
        BY <4>1, <4>3, <4>4
    <3>6. CASE h # n
      <4>1. h \in i + 1 .. m /\ h \in 1 .. m
        BY <1>2, <1>5, <3>1, <3>4, <3>6
      <4> QED
        BY <1>8, <1>10, <3>4, <4>1
    <3> QED
      BY <3>5, <3>6
  <2>4. Awaited(v)'
    BY <1>8, <2>1, <2>3 DEF Awaited, Awaits
  <2> QED
    BY <2>4 DEF v
<1>22. Accounted(w, m, q)
  <2>1. errors' \in BOOLEAN /\ open' \in Seq(Texts) /\ tainted' \in BOOLEAN
    BY <1>1 DEF TypeOK
  <2>2. ASSUME ~errors', ~tainted' PROVE Nest(NewTop(w, m, q), m, open')
    <3> DEFINE v == NewTop(w, m, q)
    <3>1. v[m] = q /\ \A i \in 1 .. m - 1 : v[i] = w[i]
      BY <1>20
    <3>2. Nest(w, m, open)
      <4>1. Nest(w, n, open)
        BY <1>1, <2>2 DEF Fit, Nested
      <4>2. w[n].opens = <<>>
        BY <1>3
      <4>3. Nest(w, n - 1, open)
        BY <1>1, <1>2, <4>1, <4>2, NestDown
      <4> QED
        BY <1>5, <4>3
    <3> HIDE DEF v
    <3>3. \A k \in 1 .. m : k = m \/ k \in 1 .. m - 1
      BY <1>5
    <3>4. \A k \in 1 .. m : v[k].opens = w[k].opens
      BY <1>17, <3>1, <3>3
    <3>5. Nest(v, m, open)
      BY <1>5, <3>2, <3>4, NestSame
    <3> QED
      BY <1>1, <3>5 DEF v
  <2> QED
    BY <2>1, <2>2 DEF Accounted
<1>23. Resumed(q, w[m])
  BY <1>17 DEF Resumed
<1> QED
  BY <1>1, <1>5, <1>11, <1>12, <1>13, <1>16, <1>18, <1>19, <1>21, <1>22, <1>23, Drops

(***************************************************************************)
(* A rule that fails.                                                      *)
(***************************************************************************)
\* The frame that ends the failure: a rule whose caller goes on, or an attempt.
Catcher == Max({i \in DOMAIN stack : stack[i].tried \/ stack[i].is = "attempt"})

LEMMA CatcherIs ==
    ASSUME stack \in Seq(Frames), Order, stack # <<>>, NEW n, n = Len(stack), stack[n].rule # "program"
    PROVE  /\ Catcher \in 2 .. n
           /\ stack[Catcher].tried \/ stack[Catcher].is = "attempt"
           /\ stack[Catcher].tried => stack[Catcher].is = "rule"
           /\ \A h \in 1 .. n : h > Catcher => stack[h].is # "attempt" /\ ~stack[h].tried
<1> DEFINE S == {i \in DOMAIN stack : stack[i].tried \/ stack[i].is = "attempt"}
<1>1. n \in Nat \ {0} /\ DOMAIN stack = 1 .. n /\ n \in 1 .. n /\ n \in Nat
  BY NotEmpty
<1>2. S \in SUBSET (0 .. n)
  BY <1>1
<1>3. S # {}
  <2>1. PICK k \in 1 .. n : stack[k].tried
    BY <1>1 DEF Order, Grounded
  <2> QED
    BY <1>1, <2>1
<1>4. Max(S) \in S /\ \A y \in S : y <= Max(S)
  <2> HIDE DEF S
  <2> QED
    BY <1>1, <1>2, <1>3, GreatestUpTo
<1>5. Catcher = Max(S)
  BY DEF Catcher
<1> HIDE DEF S
<1>6. Catcher \in 1 .. n /\ (stack[Catcher].tried \/ stack[Catcher].is = "attempt")
  BY <1>1, <1>4, <1>5 DEF S
<1>7. Catcher # 1
  BY <1>6 DEF Order, Grounded
<1>8. stack[Catcher].tried => stack[Catcher].is = "rule"
  BY <1>6 DEF Order, Grounded
<1>9. ASSUME NEW h \in 1 .. n, h > Catcher
      PROVE  stack[h].is # "attempt" /\ ~stack[h].tried
  <2>1. h \in Nat /\ Catcher \in Nat /\ h > Catcher
    BY <1>1, <1>6, <1>9
  <2>2. h \notin S
    <3> SUFFICES ASSUME h \in S PROVE FALSE
      OBVIOUS
    <3>1. h <= Catcher
      BY <1>4, <1>5
    <3> QED
      BY <2>1, <3>1
  <2> QED
    BY <1>1, <2>2 DEF S
<1>10. Catcher \in 2 .. n
  <2>1. Catcher \in Nat /\ Catcher >= 1 /\ Catcher <= n
    BY <1>1, <1>6
  <2> QED
    BY <1>1, <1>7, <2>1
<1> QED
  BY <1>6, <1>8, <1>9, <1>10

\* A rule that may fail without a diagnostic is only tried.
LEMMA SilentIsTried ==
    ASSUME GrammarIsSound, TypeOK, Order, NEW w \in Seq(Paths), Fit(w), NEW i \in 1 .. Len(stack),
           stack[i].is = "rule", stack[i].rule \in Silent
    PROVE  i # 1 /\ stack[i].tried
<1>1. i # 1
  <2>1. "program" \notin Silent
    BY DEF Silent
  <2> QED
    BY <2>1 DEF Order, Grounded
<1>2. stack \in Seq(Frames) /\ Len(stack) \in Nat /\ Len(w) = Len(stack) /\ i - 1 \in 1 .. Len(stack) - 1
      /\ i - 1 \in 1 .. Len(w) /\ (i - 1) + 1 = i
  BY <1>1 DEF TypeOK, Fit, Linked
<1> DEFINE r    == w[i - 1]
           item == Head(r.code)
<1>3. r \in Paths /\ Suspends(r, stack[i - 1], stack[i])
  BY <1>2 DEF Fit, Linked
<1>4. Sound(r) /\ r.code # <<>> /\ Calls(item, stack[i - 1], stack[i])
  BY <1>3, PathsComplete DEF Suspends
<1>5. CallsWell(r, item)
  BY <1>4 DEF Sound
<1> HIDE DEF item, r
<1>6. item.do = "call" => FALSE
  <2> SUFFICES ASSUME item.do = "call" PROVE FALSE
    OBVIOUS
  <2>1. item.rule = stack[i].rule
    BY <1>4 DEF Calls
  <2> QED
    BY <1>5, <2>1 DEF CallsWell
<1>7. stack[i].tried
  BY <1>4, <1>6 DEF Calls
<1> QED
  BY <1>1, <1>7

\* What fails without a diagnostic is such a rule, and has left no bracket open.
LEMMA FailsQuietly ==
    ASSUME GrammarIsSound, TypeOK, Order, NEW w \in Seq(Paths), Fit(w), NEW n, n = Len(stack), NEW p, p = w[n],
           stack # <<>>, p.code # <<>>, Head(p.code).do = "fail", NEW j, j = Catcher, stack[j].tried, ~errors
    PROVE  /\ stack[j].rule \in Silent
           /\ (j = n /\ w[n].opens = <<>>) \/ (j = n - 1 /\ w[n].opens = <<>> /\ w[n - 1].opens = <<>>)
<1>1. /\ n \in Nat \ {0} /\ n \in 1 .. n /\ Len(w) = n /\ p \in Paths /\ Sound(p) /\ Seen(p) /\ stack \in Seq(Frames)
      /\ p.is = stack[n].is /\ p.rule = stack[n].rule
  BY OnTop DEF Mirrors, TypeOK, Top
<1>2. FailsWell(p, Head(p.code)) /\ CallsWell(p, Head(p.code))
  BY <1>1 DEF Sound
<1>3. p.rule # "program"
  BY <1>2 DEF CallsWell
<1>4. /\ j \in 2 .. n /\ stack[j].is = "rule"
      /\ \A h \in 1 .. n : h > j => stack[h].is # "attempt" /\ ~stack[h].tried
  BY <1>1, <1>3, CatcherIs
<1>5. ~Tells(p)
  BY <1>1 DEF Seen, Tells
<1>6. p.is # "attempt"
  <2> SUFFICES ASSUME stack[n].is = "attempt" PROVE FALSE
    BY <1>1
  <2>1. ~ (n > j)
    BY <1>1, <1>4
  <2>2. n = j
    BY <1>1, <1>4, <2>1
  <2> QED
    BY <1>4, <2>2
<1>7. p.rule \in Silent /\ p.is \in {"rule", "again"} /\ p.opens = <<>>
  BY <1>2, <1>5, <1>6 DEF FailsWell
<1>8. CASE p.is = "rule"
  <2>1. stack[n].tried
    BY <1>1, <1>7, <1>8, SilentIsTried
  <2>2. ~ (n > j)
    BY <1>1, <1>4, <2>1
  <2>3. j = n
    BY <1>1, <1>4, <2>2
  <2> QED
    BY <1>1, <1>7, <2>3
<1>9. CASE p.is = "again"
  <2> DEFINE m    == n - 1
             r    == w[m]
             item == Head(r.code)
  <2>1. n # 1
    BY <1>1, <1>9 DEF Order, Grounded
  <2>2. m \in 1 .. n - 1 /\ m \in 1 .. n /\ m + 1 = n /\ m \in Nat /\ m < n
    BY <1>1, <2>1
  <2> HIDE DEF m
  <2>3. r \in Paths /\ Suspends(r, stack[m], stack[n]) /\ Mirrors(r, stack[m])
    BY <1>1, <2>2 DEF Fit, Linked
  <2>4. Sound(r) /\ r.code # <<>> /\ Calls(item, stack[m], stack[n])
    BY <2>3, PathsComplete DEF Suspends
  <2>5. CallsWell(r, item)
    BY <2>4 DEF Sound
  <2> HIDE DEF item
  <2>6. item.do = "attempt" /\ stack[n].rule = stack[m].rule
    BY <1>1, <1>9, <2>4 DEF Calls
  <2>7. r.opens = <<>> /\ (r.rule \in Silent => r.is = "rule")
    BY <2>5, <2>6 DEF CallsWell
  <2>8. stack[m].is = "rule" /\ stack[m].rule \in Silent
    BY <1>1, <1>7, <2>3, <2>6, <2>7 DEF Mirrors
  <2>9. stack[m].tried
    BY <1>1, <2>2, <2>8, SilentIsTried
  <2>10. ~ (m > j)
    BY <2>2, <2>9, <1>4
  <2>11. j # n
    BY <1>1, <1>4, <1>9
  <2>12. j = m
    BY <1>1, <1>4, <2>2, <2>10, <2>11
  <2> QED
    BY <1>7, <2>7, <2>8, <2>12 DEF m
<1> QED
  BY <1>7, <1>8, <1>9

\* The paths behind a call that has failed, with a token taken or not.
Spent(q, r, told) ==
  /\ Resumed(q, r) /\ q.opens = r.opens /\ q.result = "none"
  /\ q.sure = (r.sure \ {"told"}) \cup told \cup {"moved", "far"}
  /\ q.next = AnyToken /\ q.second = AnyToken /\ q.gap = Gaps

Unspent(q, r, told) ==
  /\ Resumed(q, r) /\ q.opens = r.opens /\ q.result = "none"
  /\ q.sure = (r.sure \ {"told"}) \cup told
  /\ q.next = IF "moved" \notin r.sure /\ ~Fits("eof", r.next) THEN Other({"eof"}) ELSE AnyToken
  /\ q.second = AnyToken /\ q.gap = Gaps

LEMMA FailedIs ==
    ASSUME GrammarIsSound, NEW r \in Paths, NEW rule, NEW told, told = IF rule \in Silent THEN {} ELSE {"told"},
           r.code # <<>>, Head(r.code).do = "try", Head(r.code).rule = rule
    PROVE  (\E q \in Paths : Spent(q, r, told)) /\ (\E q \in Paths : Unspent(q, r, told))
<1> DEFINE b  == Back(r, told)
           p1 == [b EXCEPT !.result = "none"]
           q1 == [p1 EXCEPT !.sure = @ \cup {"moved", "far"}]
           q2 == [p1 EXCEPT !.next = IF "moved" \notin r.sure /\ ~Fits("eof", r.next) THEN Other({"eof"}) ELSE @]
<1>1. Failed(r, rule) \subseteq After(r)
  BY AfterCall
<1>2. q1 \in Failed(r, rule) /\ q2 \in Failed(r, rule)
  BY DEF Failed
<1>3. q1 \in Paths /\ q2 \in Paths
  BY <1>1, <1>2, AfterCode
<1>4. /\ b.is = r.is /\ b.rule = r.rule /\ b.body = r.body
      /\ b.code = Tail(r.code) /\ b.sure = (r.sure \ {"told"}) \cup told
      /\ b.result = "any" /\ b.next = AnyToken /\ b.second = AnyToken
      /\ b.gap = Gaps /\ b.opens = r.opens /\ DOMAIN b = Fields
  BY BackIs
<1> HIDE DEF b
<1>5. Spent(q1, r, told)
  BY <1>4 DEF Fields, Resumed, Spent
<1>6. Unspent(q2, r, told)
  BY <1>4 DEF Fields, Resumed, Unspent
<1> HIDE DEF q1, q2
<1> QED
  BY <1>3, <1>5, <1>6

LEMMA FailTried ==
    ASSUME GrammarIsSound, Follows, FailRule, NEW j, j = Catcher, stack[j].tried
    PROVE  Follows'
<1> SUFFICES ASSUME NEW w \in Seq(Paths), Fit(w), NEW n, n = Len(stack), NEW p, p = w[n], NEW top, top = Item
             PROVE  Follows'
  BY DEF Follows
<1>1. Ready /\ top.do = "fail" /\ stack' = SubSeq(stack, 1, j - 1) /\ kind' = "none"
      /\ alphabet' = alphabet /\ look' = look
      /\ errors' = errors /\ open' = open /\ tainted' = tainted
  <2>1. Doing({"fail"}) /\ Unwind
    BY DEF FailRule
  <2>2. UNCHANGED history
    BY DEF FailRule, Catcher
  <2>3. stack' = SubSeq(stack, 1, j - 1) /\ kind' = "none" /\ UNCHANGED look
    BY <2>1 DEF Unwind, Catcher
  <2> QED
    BY <2>1, <2>2, <2>3 DEF Doing, history
<1>2. /\ TypeOK /\ Order /\ look \in Seq(Tokens) /\ stack \in Seq(Frames) /\ open \in Seq(Texts) /\ stack # <<>>
      /\ n \in Nat \ {0} /\ n \in 1 .. n /\ n \in 1 .. Len(stack) /\ Len(w) = n
      /\ p \in Paths /\ p.code # <<>> /\ top = Head(p.code) /\ p.is = stack[n].is /\ p.rule = stack[n].rule
      /\ Sound(p)
  BY <1>1, AtItem
<1>3. stack[n].rule # "program"
  <2>1. CallsWell(p, top)
    BY <1>2 DEF Sound
  <2> QED
    BY <1>1, <1>2, <2>1 DEF CallsWell
<1>4. /\ j \in 2 .. n /\ stack[j].is = "rule"
      /\ \A h \in 1 .. n : h > j => stack[h].is # "attempt" /\ ~stack[h].tried
  BY <1>2, <1>3, CatcherIs
<1> DEFINE m    == j - 1
           rule == stack[j].rule
           told == IF rule \in Silent THEN {} ELSE {"told"}
<1>5. m \in 1 .. Len(stack) - 1 /\ m \in 1 .. Len(stack) /\ m \in Nat \ {0} /\ m + 1 = j /\ m \in 1 .. m
  BY <1>2, <1>4
<1>6. stack' = SubSeq(stack, 1, m)
  BY <1>1
<1>7. \A h \in m + 1 .. Len(stack) : stack[h].is # "attempt"
  <2>1. \A h \in m + 1 .. Len(stack) : h \in 1 .. n /\ (h > j \/ h = j)
    BY <1>2, <1>4, <1>5
  <2> QED
    BY <1>4, <2>1
<1>8. ~errors => rule \in Silent /\ ((j = n /\ w[n].opens = <<>>)
                                     \/ (j = n - 1 /\ w[n].opens = <<>> /\ w[n - 1].opens = <<>>))
  BY <1>1, <1>2, FailsQuietly
<1>9. ~errors /\ ~tainted => Nest(w, m, open)
  <2> SUFFICES ASSUME ~errors, ~tainted PROVE Nest(w, j - 1, open)
    OBVIOUS
  <2>1. Nest(w, n, open) /\ w[n].opens = <<>>
    BY <1>8 DEF Fit, Nested
  <2>2. Nest(w, n - 1, open)
    BY <1>2, <2>1, NestDown
  <2>3. CASE j = n
    BY <2>2, <2>3
  <2>4. CASE j = n - 1 /\ w[n - 1].opens = <<>>
    <3>1. n - 1 \in Nat \ {0}
      BY <1>4, <2>4
    <3>2. Nest(w, (n - 1) - 1, open)
      BY <1>2, <2>2, <2>4, <3>1, NestDown
    <3> QED
      BY <2>4, <3>2
  <2> QED
    BY <1>8, <2>3, <2>4
<1> HIDE DEF m
<1> DEFINE r    == w[m]
           item == Head(r.code)
<1>10. r \in Paths /\ Suspends(r, stack[m], stack[j]) /\ Sure(r, m) /\ Awaits(r, m)
  BY <1>2, <1>5 DEF Fit, Linked, Certain, Awaited
<1>11. r.code # <<>> /\ Calls(item, stack[m], stack[j])
  BY <1>10 DEF Suspends
<1> HIDE DEF item
<1>12. item.do = "try" /\ item.rule = rule
  BY <1>11 DEF Calls
<1> HIDE DEF told, rule
<1>13. told \subseteq {"told"} /\ ("told" \in told => errors)
  BY <1>8 DEF told
<1>14. (\E q \in Paths : Spent(q, r, told)) /\ (\E q \in Paths : Unspent(q, r, told))
  <2>1. told = IF rule \in Silent THEN {} ELSE {"told"}
    BY DEF told
  <2> QED
    BY <1>10, <1>11, <1>12, <2>1, FailedIs DEF item
<1>15. CASE stack[m].moved
  <2>0. PICK q \in Paths : Spent(q, r, told)
    BY <1>14
  <2>1. /\ Resumed(q, r) /\ q.opens = r.opens /\ q.result = "none"
        /\ q.sure = (r.sure \ {"told"}) \cup told \cup {"moved", "far"}
        /\ q.next = AnyToken /\ q.second = AnyToken /\ q.gap = Gaps
    BY <2>0 DEF Spent
  <2>2. Sure(q, m)
    <3>1. Far(m)
      BY <1>5, <1>15 DEF Far
    <3> QED
      BY <1>10, <1>13, <1>15, <2>1, <3>1 DEF Sure
  <2>3. Seen(q)'
    <3>1. "told" \in q.sure => errors'
      BY <1>1, <1>13, <2>1
    <3>2. look' \in Seq(Tokens)
      BY <1>1, <1>2
    <3> QED
      BY <1>1, <2>1, <3>1, <3>2, SeenNothingNext
  <2>4. Resumed(q, w[m]) /\ q.opens = w[m].opens
    BY <2>1
  <2> QED
    BY <1>1, <1>2, <1>5, <1>6, <1>7, <1>9, <2>2, <2>3, <2>4, Cuts
<1>16. CASE ~stack[m].moved
  <2>0. PICK q \in Paths : Unspent(q, r, told)
    BY <1>14
  <2>1. /\ Resumed(q, r) /\ q.opens = r.opens /\ q.result = "none"
        /\ q.sure = (r.sure \ {"told"}) \cup told
        /\ q.next = IF "moved" \notin r.sure /\ ~Fits("eof", r.next) THEN Other({"eof"}) ELSE AnyToken
        /\ q.second = AnyToken /\ q.gap = Gaps
    BY <2>0 DEF Unspent
  <2>2. Sure(q, m)
    BY <1>10, <1>13, <2>1 DEF Sure
  <2>3. Seen(q)'
    <3>1. "told" \in q.sure => errors
      BY <1>13, <2>1
    <3>2. KnowsGap(Gaps)
      <4>1. CASE look = <<>>
        BY <4>1 DEF KnowsGap, Gaps
      <4>2. CASE look # <<>>
        <5>1. look[1] \in Tokens
          BY <1>2, <4>2
        <5> QED
          BY <4>2, <5>1 DEF KnowsGap, Tokens
      <4> QED
        BY <4>1, <4>2
    <3>3. Knows(1, q.next)'
      <4>1. CASE "moved" \notin r.sure /\ ~Fits("eof", r.next)
        <5>1. Alive
          BY <1>5, <1>7, <1>10, <1>16, <4>1 DEF Awaits
        <5>2. 1 <= Len(look) /\ look[1].token # "eof"
          BY <1>2, <5>1, NotEmpty DEF Alive
        <5>3. Tok(1) # "eof"
          BY <5>2 DEF Tok
        <5>4. q.next = Other({"eof"})
          BY <2>1, <4>1
        <5>5. Knows(1, q.next)
          BY <5>2, <5>3, <5>4 DEF Knows, MayBe, Fits, Other
        <5> QED
          BY <1>1, <5>5 DEF Knows, MayBe, AtEnd, Tok
      <4>2. CASE ~ ("moved" \notin r.sure /\ ~Fits("eof", r.next))
        <5>1. q.next = AnyToken
          BY <2>1, <4>2
        <5> QED
          BY <5>1, FitsAny DEF Knows
      <4> QED
        BY <4>1, <4>2
    <3>4. Knows(2, q.second)'
      BY <2>1, FitsAny DEF Knows
    <3>5. KnowsGap(q.gap)'
      BY <1>1, <2>1, <3>2 DEF KnowsGap
    <3> QED
      BY <1>1, <2>1, <3>1, <3>3, <3>4, <3>5 DEF Seen
  <2>4. Resumed(q, w[m]) /\ q.opens = w[m].opens
    BY <2>1
  <2> QED
    BY <1>1, <1>2, <1>5, <1>6, <1>7, <1>9, <2>2, <2>3, <2>4, Cuts
<1> QED
  BY <1>15, <1>16

\* An attempt that starts again with its other code.
AgainFrame(f) ==
  [f EXCEPT !.is = "again", !.code = f.body, !.moved = FALSE, !.body = <<>>, !.trail = <<>>, !.saved = <<>>]

StartsAgain(g, f) ==
  /\ g \in Frames /\ g.is = "again" /\ g.rule = f.rule /\ g.tried = f.tried /\ g.code = f.body /\ g.body = <<>>
  /\ g.moved = FALSE /\ g.trail = <<>> /\ g.saved = <<>>

LEMMA AgainFrameIs ==
    ASSUME NEW f \in Frames, f.body \in Seq(Items), <<>> \in Bodies
    PROVE  StartsAgain(AgainFrame(f), f)
<1> DEFINE T == Seq(Tokens)
           S == Saves
           B == Bodies
<1>1. <<>> \in T /\ <<>> \in S /\ <<>> \in B
  BY DEF Saves
<1>2. Frames = [is : {"rule", "loop", "attempt", "again"}, rule : {p.rule : p \in Paths},
                     bp : {0} \cup {item.bp : item \in Items}, name : Texts, code : Seq(Items),
                     body : B, tried : BOOLEAN, moved : BOOLEAN, marked : BOOLEAN, trail : T, saved : S]
  BY FramesAre
<1> HIDE DEF T, S, B
<1> QED
  BY <1>1, <1>2 DEF AgainFrame, StartsAgain

LEMMA AgainIs ==
    ASSUME stack \in Seq(Frames), NEW j \in 1 .. Len(stack), AgainFrame(stack[j]) \in Frames,
           stack' = [SubSeq(stack, 1, j) EXCEPT ![j] = AgainFrame(stack[j])]
    PROVE  /\ stack' \in Seq(Frames) /\ Len(stack') = j /\ stack'[j] = AgainFrame(stack[j])
           /\ \A i \in 1 .. j - 1 : stack'[i] = stack[i]
<1> DEFINE s == SubSeq(stack, 1, j)
           g == AgainFrame(stack[j])
<1>1. Len(stack) \in Nat /\ j \in Nat /\ j <= Len(stack) /\ j - 0 = j /\ 0 + 1 = 1 /\ j \in 1 .. j
      /\ \A x \in 1 .. j : 0 + x = x
  OBVIOUS
<1>2. s \in Seq(Frames) /\ Len(s) = j /\ \A i \in 1 .. j : s[i] = stack[i]
  <2>1. /\ SubSeq(stack, 0 + 1, j) \in Seq(Frames) /\ Len(SubSeq(stack, 0 + 1, j)) = j - 0
        /\ \A x \in 1 .. j - 0 : SubSeq(stack, 0 + 1, j)[x] = stack[0 + x]
    BY <1>1, Part
  <2> QED
    BY <1>1, <2>1
<1>3. g \in Frames /\ stack' = [s EXCEPT ![j] = g]
  OBVIOUS
<1> HIDE DEF s, g
<1>4. stack' \in Seq(Frames) /\ Len(stack') = j /\ stack'[j] = g /\ \A i \in 1 .. j - 1 : stack'[i] = s[i]
  BY <1>1, <1>2, <1>3
<1>5. \A i \in 1 .. j - 1 : stack'[i] = stack[i]
  BY <1>1, <1>2, <1>4
<1> QED
  BY <1>4, <1>5 DEF g

LEMMA FailAttempt ==
    ASSUME GrammarIsSound, Follows, FailRule, NEW j, j = Catcher, ~stack[j].tried
    PROVE  Follows'
<1> SUFFICES ASSUME NEW w \in Seq(Paths), Fit(w), NEW n, n = Len(stack), NEW p, p = w[n], NEW top, top = Item
             PROVE  Follows'
  BY DEF Follows
<1> DEFINE g == AgainFrame(stack[j])
           trail == stack[j].trail
<1>1. Ready /\ top.do = "fail" /\ look' = trail \o look /\ kind' = kind /\ alphabet' = alphabet
  <2>1. Doing({"fail"}) /\ Unwind
    BY DEF FailRule
  <2>2. look' = stack[j].trail \o look /\ UNCHANGED kind
    BY <2>1 DEF Unwind, Catcher
  <2> QED
    BY <2>1, <2>2 DEF Doing
<1>2. /\ TypeOK /\ Order /\ look \in Seq(Tokens) /\ stack \in Seq(Frames) /\ open \in Seq(Texts) /\ stack # <<>>
      /\ n \in Nat \ {0} /\ n \in 1 .. n /\ n \in 1 .. Len(stack) /\ Len(w) = n
      /\ p \in Paths /\ p.code # <<>> /\ top = Head(p.code) /\ p.is = stack[n].is /\ p.rule = stack[n].rule
      /\ Sound(p)
  BY <1>1, AtItem
<1>3. stack[n].rule # "program"
  <2>1. CallsWell(p, top)
    BY <1>2 DEF Sound
  <2> QED
    BY <1>1, <1>2, <2>1 DEF CallsWell
<1>4. /\ j \in 2 .. n /\ stack[j].is = "attempt"
      /\ \A h \in 1 .. n : h > j => stack[h].is # "attempt" /\ ~stack[h].tried
  BY <1>2, <1>3, CatcherIs
<1> DEFINE m == j - 1
<1>5. m \in 1 .. Len(stack) - 1 /\ m \in 1 .. Len(stack) /\ m \in Nat \ {0} /\ m + 1 = j /\ j \in 1 .. Len(stack)
      /\ j \in Nat \ {0} /\ j \in 1 .. j /\ j > 1 /\ j \in 1 .. Len(stack) + 1 /\ j \in 1 .. Len(w) + 1
  BY <1>2, <1>4
<1>6. stack[j] \in Frames
  BY <1>2, <1>5
<1>7. Innermost = j
  <2>1. /\ Innermost \in 0 .. n
        /\ Innermost # 0 => Innermost \in 1 .. n /\ stack[Innermost].is = "attempt"
        /\ \A h \in 1 .. n : h > Innermost => stack[h].is # "attempt"
    BY <1>2, InnermostIs
  <2>2. ~ (j > Innermost)
    BY <1>2, <1>4, <1>5, <2>1
  <2>3. ~ (Innermost > j)
    BY <1>2, <1>4, <1>5, <2>1
  <2> QED
    BY <1>2, <1>5, <2>1, <2>2, <2>3
<1> DEFINE saved == stack[j].saved
<1>8. saved \in Histories
  BY <1>2, <1>4, <1>5 DEF TypeOK
<1>9. errors' = saved[1] /\ open' = saved[2] /\ tainted' = saved[3]
  BY <1>7 DEF FailRule, Catcher
<1>10. errors' \in BOOLEAN /\ open' \in Seq(Texts) /\ tainted' \in BOOLEAN
  BY <1>8, <1>9 DEF Histories
<1> HIDE DEF saved, m
<1> DEFINE r    == w[m]
           item == Head(r.code)
           q    == Inner(Unseen(r), "again", <<>>, item.else)
<1>11. r \in Paths /\ Suspends(r, stack[m], stack[j]) /\ Sure(r, m) /\ Mirrors(r, stack[m])
  BY <1>2, <1>5 DEF Fit, Linked, Certain
<1>12. r.code # <<>> /\ item.do = "attempt" /\ stack[j].rule = stack[m].rule /\ stack[j].body = item.else
  BY <1>4, <1>11 DEF Suspends, Calls
<1>13. q \in Paths
  <2>1. q \in After(r)
    BY <1>12, AfterAttempt
  <2> QED
    BY <1>11, <2>1, AfterCode
<1>14. /\ q.is = "again" /\ q.rule = r.rule /\ q.body = <<>> /\ q.code = item.else
       /\ q.sure = r.sure \cap {"far"} /\ q.result = "any" /\ q.next = AnyToken /\ q.second = AnyToken
       /\ q.gap = Gaps /\ q.opens = <<>>
  BY <1>11, InnerIs
<1> HIDE DEF q, item
<1>15. stack[j].body \in Seq(Items) /\ <<>> \in Bodies
  <2>1. q.code \in Seq(Items)
    BY <1>13, PathForm
  <2> QED
    BY <1>12, <1>13, <1>14, <2>1 DEF Bodies
<1>16. StartsAgain(g, stack[j])
  BY <1>6, <1>15, AgainFrameIs
<1>17. /\ stack' \in Seq(Frames) /\ Len(stack') = j /\ stack'[j] = g
       /\ \A i \in 1 .. j - 1 : stack'[i] = stack[i]
  <2>1. stack' = [SubSeq(stack, 1, j) EXCEPT ![j] = g]
    <3>1. stack' = [SubSeq(stack, 1, j) EXCEPT
                      ![j].is = "again", ![j].code = stack[j].body, ![j].moved = FALSE,
                      ![j].body = <<>>, ![j].trail = <<>>, ![j].saved = <<>>]
      BY DEF FailRule, Unwind, Catcher
    <3>2. SubSeq(stack, 1, j)[j] = stack[j] /\ j \in DOMAIN SubSeq(stack, 1, j)
      BY <1>2, <1>5
    <3> QED
      BY <3>1, <3>2 DEF AgainFrame
  <2>2. AgainFrame(stack[j]) \in Frames
    BY <1>16 DEF StartsAgain
  <2> QED
    BY <1>2, <1>5, <2>1, <2>2, AgainIs
<1> HIDE DEF g
<1>18. trail \in Seq(Tokens) /\ \A k \in 1 .. Len(trail) : trail[k].token # "eof"
  <2>1. trail \in Seq(Tokens)
    BY <1>6 DEF Frames
  <2>2. \A k \in 1 .. Len(trail) : trail[k].token # "eof"
    BY <1>2, <1>5 DEF Order, Trails
  <2> QED
    BY <2>1, <2>2
<1> HIDE DEF trail
<1>19. look' \in Seq(Tokens)
  BY <1>1, <1>2, <1>18, Joined
<1>20. (trail # <<>> => Alive') /\ (Alive => Alive')
  <2>1. ASSUME trail # <<>> PROVE Alive'
    <3>1. 1 \in 1 .. Len(trail)
      <4>1. Len(trail) \in Nat /\ Len(trail) # 0
        BY <1>18, <2>1, NotEmpty
      <4> QED
        BY <4>1
    <3>2. look'[1] = trail[1]
      BY <1>1, <1>2, <1>18, <3>1, Joined
    <3>3. look' # <<>>
      BY <1>1, <1>2, <1>18, <2>1, JoinedIsFull
    <3> QED
      BY <1>18, <3>1, <3>2, <3>3 DEF Alive
  <2>2. ASSUME trail = <<>>, Alive PROVE Alive'
    <3>1. look' = look
      BY <1>1, <1>2, <2>2
    <3> QED
      BY <2>2, <3>1 DEF Alive
  <2> QED
    BY <2>1, <2>2
<1>21. Lower(j)
  <2>1. \A i \in 1 .. j - 1 : Keeps(stack[i], stack'[i])
    BY <1>17 DEF Keeps
  <2> QED
    BY <1>17, <2>1 DEF Lower
<1>22. Resumes(stack[j], stack'[j])
  BY <1>4, <1>16, <1>17 DEF Resumes, StartsAgain
<1>23. \A i \in 1 .. j : i = j \/ (i \in 1 .. j - 1 /\ i \in 1 .. Len(stack))
  BY <1>2, <1>5
<1>24. TypeOK'
  <2>1. \A i \in 1 .. j : stack'[i].is = "attempt" => stack'[i].saved \in Histories
    BY <1>2, <1>16, <1>17, <1>23 DEF TypeOK, StartsAgain
  <2>2. alphabet' \subseteq Texts
    BY <1>1, <1>2 DEF TypeOK
  <2> QED
    BY <1>10, <1>17, <1>19, <2>1, <2>2 DEF TypeOK
<1>25. Order'
  <2>1. MovedBelow'
    <3>1. ASSUME NEW i \in 2 .. j, stack'[i].moved, stack'[i].is # "attempt"
          PROVE  stack'[i - 1].moved
      <4>1. i # j
        BY <1>16, <1>17, <3>1 DEF StartsAgain
      <4>2. i \in 1 .. j - 1 /\ i - 1 \in 1 .. j - 1 /\ i \in 2 .. Len(stack)
        BY <1>2, <1>5, <4>1
      <4>3. stack[i - 1].moved
        BY <1>2, <1>17, <3>1, <4>2 DEF Order, MovedBelow
      <4> QED
        BY <1>17, <4>2, <4>3
    <3> QED
      BY <1>17, <3>1 DEF MovedBelow
  <2>2. Trails'
    <3>1. ASSUME NEW i \in 1 .. j, NEW k \in 1 .. Len(stack'[i].trail)
          PROVE  stack'[i].trail[k].token # "eof"
      <4>1. i # j
        <5> SUFFICES ASSUME i = j PROVE FALSE
          OBVIOUS
        <5>1. stack'[i].trail = <<>>
          BY <1>16, <1>17 DEF StartsAgain
        <5> QED
          BY <5>1
      <4>2. i \in 1 .. j - 1 /\ i \in 1 .. Len(stack)
        BY <1>23, <4>1
      <4>3. stack'[i] = stack[i]
        BY <1>17, <4>2
      <4>4. k \in 1 .. Len(stack[i].trail)
        BY <4>3
      <4> QED
        BY <1>2, <4>2, <4>3, <4>4 DEF Order, Trails
    <3> QED
      BY <1>17, <3>1 DEF Trails
  <2> QED
    BY <1>2, <1>5, <1>21, <1>22, <2>1, <2>2, OrderKept
<1> DEFINE v == NewTop(w, j, q)
<1>26. v \in Seq(Paths) /\ Len(v) = j /\ v[j] = q /\ \A i \in 1 .. j - 1 : v[i] = w[i]
  <2>1. j \in 1 .. Len(w) + 1
    BY <1>5
  <2> QED
    BY <1>13, <2>1, NewTopIs
<1>27. Linked(w) /\ Certain(w) /\ Awaited(w) /\ Nested(w)
  BY DEF Fit
<1>28. Linked(v)'
  <2>1. Mirrors(q, stack'[j]) /\ q.code = stack'[j].code
    BY <1>11, <1>12, <1>14, <1>16, <1>17 DEF Mirrors, StartsAgain
  <2>2. /\ \A i \in 1 .. j - 1 : stack'[i].code = stack[i].code
        /\ \A i \in 1 .. j - 2 : stack'[i].code = stack[i].code
    <3>1. \A i \in 1 .. j - 2 : i \in 1 .. j - 1
      BY <1>5
    <3> QED
      BY <1>17, <3>1
  <2>3. j > 1 => Suspends(w[j - 1], stack'[j - 1], stack'[j])
    BY <1>2, <1>5, <1>21, <1>22, <1>27, <2>2, ResumesSuspended
  <2> QED
    BY <1>2, <1>5, <1>13, <1>17, <1>21, <1>27, <2>1, <2>2, <2>3, LinkedNew
<1>29. Sure(q, j)'
  <2>1. "far" \in q.sure => Far(j)'
    <3> SUFFICES ASSUME Far(m) PROVE Far(j)'
      BY <1>11, <1>14 DEF Sure
    <3>1. PICK k \in 1 .. m : stack[k].moved /\ \A h \in k + 1 .. m : stack[h].is # "rule"
      BY DEF Far
    <3>2. k \in 1 .. j /\ k \in 1 .. j - 1 /\ k \in Nat
      BY <1>5, <3>1 DEF m
    <3>3. ASSUME NEW h \in k + 1 .. j PROVE stack'[h].is # "rule"
      <4>1. CASE h = j
        BY <1>16, <1>17, <4>1 DEF StartsAgain
      <4>2. CASE h # j
        <5>0. h \in Int /\ h >= k + 1 /\ h <= j
          BY <1>5, <3>2
        <5>1. h \in k + 1 .. m /\ h \in 1 .. j - 1
          BY <1>5, <3>2, <4>2, <5>0 DEF m
        <5> QED
          BY <1>17, <3>1, <5>1
      <4> QED
        BY <4>1, <4>2
    <3> QED
      BY <1>17, <3>1, <3>2, <3>3 DEF Far
  <2>2. "moved" \notin q.sure
    BY <1>14
  <2> QED
    BY <2>1, <2>2 DEF Sure
<1>30. Certain(v)'
  BY <1>2, <1>5, <1>13, <1>21, <1>27, <1>29, CertainNew
<1>31. Awaited(v)'
  <2>1. \A h \in j + 1 .. Len(stack) : stack[h].is # "attempt"
    <3>1. \A h \in j + 1 .. Len(stack) : h \in 1 .. n /\ h > j
      BY <1>2, <1>5
    <3> QED
      BY <1>4, <3>1
  <2>2. stack[j].is = "attempt" /\ stack[j].trail # <<>> =>
             Alive' \/ (stack'[j].is = "attempt" /\ stack'[j].trail # <<>>)
    BY <1>20 DEF trail
  <2>3. Alive => Alive'
    BY <1>20
  <2> QED
    BY <1>2, <1>5, <1>13, <1>21, <1>27, <2>1, <2>2, <2>3, AwaitedKept
<1>32. Nested(v)'
  <2>1. ASSUME ~errors', ~tainted' PROVE Nest(v, j, open')
    <3>1. Nest(w, j - 1, open')
      <4>1. ~stack[j].saved[1] /\ ~stack[j].saved[3] /\ open' = stack[j].saved[2]
        BY <1>9, <2>1 DEF saved
      <4> QED
        BY <1>4, <1>5, <1>27, <4>1 DEF Nested
    <3>2. \A k \in 1 .. j - 1 : v[k].opens = w[k].opens
      BY <1>26
    <3>3. v[j].opens = <<>>
      BY <1>14, <1>26
    <3> HIDE DEF v
    <3>4. j - 1 \in Nat
      BY <1>5
    <3>5. Nest(v, j - 1, open')
      BY <3>1, <3>2, <3>4, NestSame
    <3> QED
      BY <1>5, <1>10, <3>3, <3>5, NestUp
  <2>2. ~errors' /\ ~tainted' => Nest(v, j, open')
    BY <2>1
  <2>3. stack'[j].is = "attempt" /\ ~stack'[j].saved[1] /\ ~stack'[j].saved[3]
             => Nest(w, j - 1, stack'[j].saved[2])
    BY <1>16, <1>17 DEF StartsAgain
  <2> QED
    BY <1>2, <1>5, <1>13, <1>21, <1>27, <2>2, <2>3, NestedNew
<1>33. Seen(q)'
  <2>1. "told" \notin q.sure
    BY <1>14
  <2> QED
    BY <1>14, <1>19, <2>1, SeenNothingNext
<1>34. Fit(v)'
  <2> HIDE DEF v
  <2> QED
    BY <1>17, <1>26, <1>28, <1>30, <1>31, <1>32, <1>33 DEF Fit
<1> QED
  BY <1>24, <1>25, <1>26, <1>34 DEF Follows

LEMMA FailRuleFollows ==
    ASSUME GrammarIsSound, Follows, FailRule
    PROVE  Follows'
  BY FailTried, FailAttempt

(***************************************************************************)
(* Every state of the parser follows the paths.                            *)
(***************************************************************************)
LEMMA ProgramTexts ==
    ASSUME NEW p \in Programs
    PROVE  p.tokens \subseteq Texts /\ {p.begins[i] : i \in DOMAIN p.begins} \subseteq Texts
<1> DEFINE F(x) == x.tokens \cup {x.begins[i] : i \in DOMAIN x.begins}
<1>1. F(p) \subseteq UNION {F(x) : x \in Programs}
  <2> HIDE DEF F
  <2> QED
    OBVIOUS
<1>2. UNION {F(x) : x \in Programs} \subseteq Texts
  BY DEF Texts
<1>3. F(p) \subseteq Texts
  <2> HIDE DEF F
  <2> QED
    BY <1>1, <1>2
<1> QED
  BY <1>3

LEMMA BeginsAreSeen ==
    ASSUME NEW p \in Programs, look = [i \in DOMAIN p.begins |-> [token |-> p.begins[i], gap |-> "any"]]
    PROVE  look \in Seq(Tokens)
<1> DEFINE S == {p.begins[i] : i \in DOMAIN p.begins}
<1>1. p.begins \in Seq(S)
  BY ProgramsAssumption
<1>2. S \subseteq Texts
  BY ProgramTexts
<1> HIDE DEF S
<1>3. Len(p.begins) \in Nat /\ DOMAIN p.begins = 1 .. Len(p.begins)
      /\ \A i \in 1 .. Len(p.begins) : p.begins[i] \in Texts
  BY <1>1, <1>2
<1>4. "any" \in Gaps
  BY DEF Gaps
<1>5. look \in [1 .. Len(p.begins) -> Tokens]
  BY <1>3, <1>4 DEF Tokens
<1>6. Len(p.begins) \in Nat
  BY <1>3
<1> QED
  BY <1>5, <1>6, SeqOf

LEMMA InitFollows ==
    ASSUME GrammarIsSound, Init
    PROVE  Follows
<1> DEFINE f == Frame("program", 0, Rules.program)
           q == Entry("program")
           w == <<q>>
<1>1. PICK p \in Programs : /\ alphabet = p.tokens
                            /\ look = [i \in DOMAIN p.begins |-> [token |-> p.begins[i], gap |-> "any"]]
  BY DEF Init
<1>2. look \in Seq(Tokens) /\ alphabet \subseteq Texts
  <2>1. look \in Seq(Tokens)
    BY <1>1, BeginsAreSeen
  <2> QED
    BY <1>1, <2>1, ProgramTexts
<1>3. q \in Paths
  BY PathsComplete
<1>4. /\ q.rule = "program" /\ q.is = "rule" /\ q.body = <<>>
      /\ q.code = Rules.program /\ q.sure = {} /\ q.result = "any"
      /\ q.next = AnyToken /\ q.second = AnyToken /\ q.gap = Gaps /\ q.opens = <<>>
  <2>1. "program" \notin DOMAIN Starts
    BY DEF Starts
  <2>2. EntryToken("program") = AnyToken /\ EntrySecond("program") = AnyToken /\ EntryGap("program") = Gaps
    BY <2>1 DEF EntryToken, EntrySecond, EntryGap
  <2> QED
    BY <2>2, EntryIs
<1> HIDE DEF q
<1>5. q.code \in Seq(Items)
  BY <1>3, PathForm
<1>6. f \in Frames
  <2>1. "program" \in {r.rule : r \in Paths} /\ <<>> \in {r.body : r \in Paths} /\ Rules.program \in Seq(Items)
    BY <1>3, <1>4, <1>5
  <2>2. <<>> \in Seq(Tokens) /\ <<>> \in {<<>>} \cup Histories
    OBVIOUS
  <2>3. "" \in Texts
    BY TextsHold
  <2>4. 0 \in {0} \cup {i.bp : i \in Items}
    OBVIOUS
  <2> QED
    BY <2>1, <2>2, <2>3, <2>4 DEF Frame, Frames
<1>7. /\ f.is = "rule" /\ f.rule = "program" /\ f.body = <<>> /\ f.code = Rules.program /\ f.tried = FALSE
      /\ f.moved = FALSE /\ f.trail = <<>>
  BY DEF Frame
<1>8. stack = <<f>> /\ errors = FALSE /\ open = <<>> /\ tainted = FALSE /\ kind = "other"
  BY DEF Init
<1> HIDE DEF f
<1>9. stack \in Seq(Frames) /\ Len(stack) = 1 /\ stack[1] = f /\ stack # <<>> /\ \A i \in 1 .. Len(stack) : i = 1
  <2>1. stack \in Seq(Frames) /\ Len(stack) = 1 /\ stack[1] = f
    BY <1>6, <1>8
  <2> QED
    BY <2>1
<1>10. w \in Seq(Paths) /\ Len(w) = 1 /\ w[1] = q
  BY <1>3
<1> HIDE DEF w
<1>11. TypeOK
  <2>1. \A i \in 1 .. Len(stack) : stack[i].is # "attempt"
    BY <1>7, <1>9
  <2>2. errors \in BOOLEAN /\ open \in Seq(Texts) /\ tainted \in BOOLEAN
    <3>1. <<>> \in Seq(Texts)
      OBVIOUS
    <3> QED
      BY <1>8, <3>1
  <2> QED
    BY <1>2, <1>9, <2>1, <2>2 DEF TypeOK
<1>12. Order
  <2>1. Grounded
    BY <1>7, <1>9 DEF Grounded
  <2>2. MovedBelow /\ Ranked
    BY <1>9 DEF MovedBelow, Ranked
  <2>3. Trails
    <3>1. Len(stack[1].trail) = 0
      BY <1>7, <1>9
    <3> QED
      BY <1>9, <3>1 DEF Trails
  <2> QED
    BY <2>1, <2>2, <2>3 DEF Order
<1>13. Linked(w)
  BY <1>4, <1>7, <1>9, <1>10 DEF Linked, Mirrors
<1>14. Certain(w) /\ Awaited(w)
  <2>1. Certain(w)
    BY <1>4, <1>9, <1>10 DEF Certain, Sure
  <2>2. Awaited(w)
    BY <1>9 DEF Awaited
  <2> QED
    BY <2>1, <2>2
<1>15. Nested(w)
  <2>1. Nest(w, 1, <<>>)
    <3> DEFINE c == [k \in 0 .. 1 |-> 0]
    <3>1. c \in [0 .. 1 -> Nat] /\ c[0] = 0 /\ c[1] = Len(<<>>) /\ \A k, l \in 0 .. 1 : k <= l => c[k] <= c[l]
      OBVIOUS
    <3>2. \A k \in 1 .. 1 : w[k].opens = SubSeq(<<>>, c[k - 1] + 1, c[k])
      <4>1. SubSeq(<<>>, 1, 0) = <<>>
        OBVIOUS
      <4>2. \A k \in 1 .. 1 : k = 1 /\ c[k - 1] + 1 = 1 /\ c[k] = 0
        OBVIOUS
      <4> HIDE DEF c
      <4> QED
        BY <1>4, <1>10, <4>1, <4>2
    <3> HIDE DEF c
    <3> QED
      BY <3>1, <3>2 DEF Nest
  <2> QED
    BY <1>7, <1>8, <1>9, <2>1 DEF Nested
<1>16. Seen(q)
  <2>1. ("told" \in q.sure => errors) /\ q.result = "any"
    BY <1>4
  <2> QED
    BY <1>2, <1>4, <2>1, SeenNothing
<1>17. Fit(w)
  BY <1>9, <1>10, <1>13, <1>14, <1>15, <1>16 DEF Fit
<1> QED
  BY <1>10, <1>11, <1>12, <1>17 DEF Follows

LEMMA StutterFollows ==
    ASSUME Follows, UNCHANGED vars
    PROVE  Follows'
<1>1. TypeOK' /\ Order'
  BY DEF Follows, vars, history, TypeOK, Order, Grounded, MovedBelow, Ranked, Trails
<1>2. ASSUME NEW w \in Seq(Paths), Fit(w) PROVE Fit(w)'
  <2>1. Linked(w)' /\ Awaited(w)' /\ Nested(w)'
    BY <1>2 DEF Fit, vars, history, Linked, Awaited, Awaits, Alive, Nested
  <2>2. Certain(w)'
    BY <1>2 DEF Fit, vars, history, Certain, Sure, Far
  <2>3. stack' # <<>> => Seen(w[Len(stack)])'
    <3>1. ASSUME NEW q, Seen(q) PROVE Seen(q)'
      BY <3>1, SeenStays DEF vars, history
    <3> QED
      BY <1>2, <3>1 DEF Fit, vars
  <2> QED
    BY <2>1, <2>2, <2>3 DEF Fit
<1> QED
  BY <1>1, <1>2 DEF Follows

(***************************************************************************)
(* The grammar is sound: PathsAssumption, which TLC evaluates.             *)
(***************************************************************************)
LEMMA GrammarSound == GrammarIsSound
  BY PathsAssumption DEF GrammarIsSound

\* Every state of every run of the parser, on any program, follows the paths of
\* the grammar, which are sound: parser.rs, whatever is being typed.
THEOREM ParserFollows == Spec => []Follows
<1> USE GrammarSound
<1>1. Init => Follows
  BY InitFollows
<1>2. Follows /\ [Step]_vars => Follows'
  <2> SUFFICES ASSUME Follows, [Step]_vars PROVE Follows'
    OBVIOUS
  <2>1. CASE NextToken
    BY <2>1, NextTokenFollows
  <2>2. CASE NextGap
    BY <2>2, NextGapFollows
  <2>3. CASE TakeToken
    BY <2>3, TakeTokenFollows
  <2>4. CASE SkipToken
    BY <2>4, SkipTokenFollows
  <2>5. CASE TakeName
    BY <2>5, TakeNameFollows
  <2>6. CASE TakeOperator
    BY <2>6, TakeOperatorFollows
  <2>7. CASE Decide
    BY <2>7, DecideFollows
  <2>8. CASE Choose
    BY <2>8, ChooseFollows
  <2>9. CASE Note
    BY <2>9, NoteFollows
  <2>10. CASE EnterRule
    BY <2>10, EnterRuleFollows
  <2>11. CASE EnterLoop
    BY <2>11, EnterLoopFollows
  <2>12. CASE EnterAttempt
    BY <2>12, EnterAttemptFollows
  <2>13. CASE LeaveRule
    BY <2>13, LeaveRuleFollows
  <2>14. CASE NextRound
    BY <2>14, NextRoundFollows
  <2>15. CASE Commit
    BY <2>15, CommitFollows
  <2>16. CASE LeaveLoop
    BY <2>16, LeaveLoopFollows
  <2>17. CASE FailRule
    BY <2>17, FailRuleFollows
  <2>18. CASE Report
    BY <2>18, ReportFollows
  <2>19. CASE Refuse
    BY <2>19, RefuseFollows
  <2>20. CASE UNCHANGED vars
    BY <2>20, StutterFollows
  <2> QED
    BY <2>1, <2>2, <2>3, <2>4, <2>5, <2>6, <2>7, <2>8, <2>9, <2>10, <2>11, <2>12, <2>13, <2>14, <2>15,
       <2>16, <2>17, <2>18, <2>19, <2>20 DEF Step
<1> QED
  BY <1>1, <1>2, PTL DEF Spec

(***************************************************************************)
(* What follows.                                                           *)
(***************************************************************************)
\* Every round of every loop takes a token (parser.rs, the guards against an
\* endless loop), but in the lists of type arguments and type parameters.
THEOREM EveryRoundAdvances == Spec => []OnlyGenericsStall
<1> USE GrammarSound
<1>1. Follows => OnlyGenericsStall
  <2> SUFFICES ASSUME Follows, stack # <<>>, Top.rule \notin {"type_primary", "generic_params"},
                      Top.is = "loop", Top.code = <<>>
               PROVE  Top.moved
    BY DEF OnlyGenericsStall, RoundsAdvance
  <2>1. PICK w \in Seq(Paths) : Fit(w)
    BY DEF Follows
  <2> DEFINE p == w[Len(stack)]
  <2>2. /\ Mirrors(p, Top) /\ p.code = Top.code /\ Sure(p, Len(stack)) /\ Sound(p) /\ Top = stack[Len(stack)]
    BY <2>1, OnTop DEF Follows
  <2>3. EndsWell(p)
    BY <2>2 DEF Sound
  <2> HIDE DEF p
  <2>4. Moved(p)
    BY <2>2, <2>3 DEF EndsWell, Mirrors, Stalling
  <2> QED
    BY <2>2, <2>4 DEF Moved, Sure
<1> QED
  BY <1>1, ParserFollows, PTL

\* No rule comes back to itself, at the same binding power, without a token taken
\* in between: the recursion of parser.rs ends on every program.
THEOREM RecursionTakesTokens == Spec => []NoLeftRecursion
<1> USE GrammarSound
<1>1. Follows => NoLeftRecursion
  <2> SUFFICES ASSUME Follows, NEW i \in DOMAIN stack, NEW j \in DOMAIN stack, i < j,
                      stack[i].is = "rule", stack[j].is = "rule", stack[i].rule = stack[j].rule
               PROVE  \E k \in i .. j : stack[k].moved
    BY DEF NoLeftRecursion
  <2>1. Len(stack) \in Nat /\ DOMAIN stack = 1 .. Len(stack) /\ i \in 1 .. Len(stack) /\ j \in 1 .. Len(stack)
    BY DEF Follows, TypeOK
  <2>2. Rank(stack[i].rule) \in Nat
    BY DEF Rank
  <2>3. \E k \in i .. j - 1 : stack[k].moved
    BY <2>1, <2>2 DEF Follows, Order, Ranked
  <2>4. \A k \in i .. j - 1 : k \in i .. j
    BY <2>1
  <2> QED
    BY <2>3, <2>4
<1> QED
  BY <1>1, ParserFollows, PTL

\* Where a block or the program goes on behind a statement that has failed, the
\* failure was reported (parser.rs, parse_program and parse_block).
THEOREM FailuresAreReported == Spec => []FailureReported
<1> USE GrammarSound
<1>1. Follows => FailureReported
  <2> SUFFICES ASSUME Follows, kind = "none", Running, Item.do = "kind",
                      Top.rule \in {"program", "block", "function_block", "define_block"}
               PROVE  errors
    BY DEF FailureReported
  <2>1. PICK w \in Seq(Paths) : Fit(w)
    BY DEF Follows
  <2> DEFINE p == w[Len(stack)]
  <2>2. stack # <<>> /\ Top.code # <<>>
    BY DEF Running
  <2>3. /\ Mirrors(p, Top) /\ p.code = Top.code /\ Seen(p) /\ Sound(p)
    BY <2>1, <2>2, OnTop DEF Follows
  <2>4. FailsWell(p, Head(p.code))
    BY <2>2, <2>3 DEF Sound
  <2> HIDE DEF p
  <2>5. p.result = "some" \/ Tells(p)
    BY <2>3, <2>4 DEF FailsWell, Mirrors, Recovering, Item
  <2> QED
    BY <2>3, <2>5 DEF Seen, Tells
<1> QED
  BY <1>1, ParserFollows, PTL

\* A program that is accepted has balanced brackets, but where the parser steps
\* over tokens (parser.rs, expect and its callers).
THEOREM AcceptedProgramsAreBalanced == Spec => []AcceptedIsBalanced
<1> USE GrammarSound
<1>1. Follows => AcceptedIsBalanced
  <2> SUFFICES ASSUME Follows, stack = <<>>, ~errors, ~tainted PROVE open = <<>>
    BY DEF AcceptedIsBalanced
  <2>1. PICK w \in Seq(Paths) : Fit(w)
    BY DEF Follows
  <2>2. Nest(w, 0, open) /\ open \in Seq(Texts)
    BY <2>1 DEF Fit, Nested, Follows, TypeOK
  <2>3. Len(open) = 0
    BY <2>2 DEF Nest
  <2> QED
    BY <2>2, <2>3
<1> QED
  BY <1>1, ParserFollows, PTL
==============================================================================
