--------------------------- MODULE OrvRuntimeProofs ---------------------------
(***************************************************************************)
(* The runtime: what holds of OrvInterp for every program, however deep    *)
(* its blocks and however long it runs, and of OrvServer for every set of  *)
(* requests, keys and kinds of request, every limit and window.            *)
(***************************************************************************)
EXTENDS OrvInterp, OrvServer, FiniteSetTheorems, SequenceTheorems,
        WellFoundedInduction, TLAPS

BlockKinds == Calls \cup {"handler", "after", "plain", "loop", "try", "catch", "html",
                     "unsafe", "transaction", "job", "cron"}

Blocks(K) == [kind : BlockKinds, as : As, left : Nat, keep : K,
              dead : BOOLEAN, cut : BOOLEAN, dirty : BOOLEAN]

IsStack(s) == \E K : s \in Seq(Blocks(K))

(***************************************************************************)
(* How a step changes the stack.  Below its n-th block a stack keeps what  *)
(* the blocks are and what their locals hold; a step only marks blocks, or *)
(* takes a `try` for its `catch`.                                          *)
(***************************************************************************)
SameBlock(a, b) ==
    /\ b.as = a.as
    /\ \/ {a.kind, b.kind} \subseteq {"try", "catch"}
       \/ /\ b.kind = a.kind /\ b.keep = a.keep
          /\ a.kind = "domain" => b.left = a.left
          /\ a.dirty => b.dirty

Alike(s, t, n) == n <= Len(s) /\ n <= Len(t) /\ \A i \in 1 .. n : SameBlock(s[i], t[i])

\* The stack keeps its blocks, gets one on top or loses the one on top.
Marked(s, t) == IsStack(t) /\ Len(t) = Len(s) /\ Alike(s, t, Len(s))
Popped(s, t) == IsStack(t) /\ Len(s) > 0 /\ Len(t) = Len(s) - 1 /\ Alike(s, t, Len(t))
Pushed(s, t) == IsStack(t) /\ Len(t) = Len(s) + 1 /\ Alike(s, t, Len(s))

LEMMA StackIs ==
    ASSUME NEW K, NEW s \in Seq(Blocks(K))
    PROVE  IsStack(s) /\ Len(s) \in Nat /\ \A i \in 1 .. Len(s) : s[i] \in Blocks(K)
<1>1. \E L : s \in Seq(Blocks(L))
  OBVIOUS
<1> QED
  BY <1>1 DEF IsStack

LEMMA LengthIs ==
    ASSUME NEW s, IsStack(s)
    PROVE  Len(s) \in Nat
BY DEF IsStack

LEMMA SameItself ==
    ASSUME NEW b
    PROVE  SameBlock(b, b)
BY DEF SameBlock

LEMMA SameIsMarked ==
    ASSUME NEW s, IsStack(s)
    PROVE  Marked(s, s)
BY LengthIs, SameItself DEF Marked, Alike

LEMMA BelowIsPopped ==
    ASSUME IsStack(stack), stack # <<>>
    PROVE  Popped(stack, Below) /\ \A i \in 1 .. Len(stack) - 1 : Below[i] = stack[i]
<1>1. PICK K : stack \in Seq(Blocks(K))
  BY DEF IsStack
<1> DEFINE n == Len(stack)
<1>2. n \in Nat /\ n > 0 /\ \A i \in 1 .. n - 1 : stack[i] \in Blocks(K)
  BY <1>1, StackIs
<1>3. Below \in Seq(Blocks(K)) /\ Len(Below) = n - 1 /\ \A i \in 1 .. n - 1 : Below[i] = stack[i]
  <2> HIDE DEF n
  <2>1. 1 \in Int /\ n - 1 \in Int
    BY <1>2
  <2>2. /\ SubSeq(stack, 1, n - 1) \in Seq(Blocks(K))
        /\ Len(SubSeq(stack, 1, n - 1)) = IF 1 <= n - 1 THEN n - 1 - 1 + 1 ELSE 0
        /\ \A i \in 1 .. n - 1 - 1 + 1 : SubSeq(stack, 1, n - 1)[i] = stack[1 + i - 1]
    BY <1>2, <2>1, SubSeqProperties
  <2>3. Len(SubSeq(stack, 1, n - 1)) = n - 1
    BY <1>2, <2>2
  <2>4. \A i \in 1 .. n - 1 : SubSeq(stack, 1, n - 1)[i] = stack[i]
    BY <1>2, <2>2
  <2>5. Below = SubSeq(stack, 1, n - 1)
    BY DEF Below, n
  <2> QED
    BY <2>2, <2>3, <2>4, <2>5
<1> HIDE DEF n
<1>4. IsStack(Below)
  BY <1>3, StackIs
<1>5. Alike(stack, Below, n - 1)
  BY <1>2, <1>3, SameItself DEF Alike, n
<1> QED
  BY <1>2, <1>3, <1>4, <1>5 DEF Popped, n

LEMMA BlockIs ==
    ASSUME NEW kind \in BlockKinds, NEW as \in As, NEW left \in Nat
    PROVE  Block(kind, as, left) \in Blocks({Keep(kind)})
BY DEF Block, Blocks

\* The stack t is s with the block b on top.
OnTop(s, b, t) ==
    Pushed(s, t) /\ t[Len(s) + 1] = b /\ \A i \in 1 .. Len(s) : t[i] = s[i]

LEMMA BlockIsPushed ==
    ASSUME NEW s, IsStack(s), NEW M, NEW b \in Blocks(M)
    PROVE  OnTop(s, b, Append(s, b))
<1> DEFINE n == Len(s)
           t == Append(s, b)
<1>1. PICK K : s \in Seq(Blocks(K))
  BY DEF IsStack
<1> DEFINE L == K \cup M
<1>2. s \in Seq(Blocks(L)) /\ n \in Nat
  <2>1. Blocks(K) \subseteq Blocks(L)
    BY DEF Blocks
  <2> HIDE DEF L
  <2> QED
    BY <1>1, <2>1
<1>3. b \in Blocks(L)
  BY DEF Blocks
<1> HIDE DEF L
<1>4. t \in Seq(Blocks(L)) /\ Len(t) = n + 1 /\ t[n + 1] = b /\ \A i \in 1 .. n : t[i] = s[i]
  BY <1>2, <1>3
<1> HIDE DEF n, t
<1>5. IsStack(t)
  BY <1>4, StackIs
<1>6. Alike(s, t, n)
  BY <1>2, <1>4, SameItself DEF Alike, n
<1>7. OnTop(s, b, t)
  BY <1>4, <1>5, <1>6 DEF OnTop, Pushed, n
<1> QED
  BY <1>7 DEF t

LEMMA EnteredIs ==
    ASSUME NEW s, IsStack(s), NEW kind \in BlockKinds, NEW as \in As, NEW left \in Nat
    PROVE  OnTop(s, Block(kind, as, left), Append(s, Block(kind, as, left)))
<1> DEFINE b == Block(kind, as, left)
           M == {Keep(kind)}
<1>1. b \in Blocks(M)
  BY BlockIs
<1> HIDE DEF b, M
<1>2. OnTop(s, b, Append(s, b))
  BY <1>1, BlockIsPushed
<1> QED
  BY <1>2 DEF b

LEMMA Remarked ==
    ASSUME NEW K, NEW s \in Seq(Blocks(K)), NEW t, NEW n, n = Len(s), t = [i \in 1 .. n |-> t[i]],
           \A i \in 1 .. n : t[i] \in Blocks(K) /\ SameBlock(s[i], t[i])
    PROVE  Marked(s, t)
<1>1. n \in Nat
  OBVIOUS
<1>2. t \in Seq(Blocks(K)) /\ Len(t) = n
  BY <1>1
<1>3. IsStack(t)
  BY <1>2, StackIs
<1> QED
  BY <1>1, <1>2, <1>3 DEF Marked, Alike

\* What the code and the history note of a block.
LEMMA BlockNotes ==
    ASSUME NEW K, NEW b \in Blocks(K), NEW x \in BOOLEAN, NEW y \in BOOLEAN, NEW c,
           \/ c = [b EXCEPT !.dead = x]
           \/ c = [b EXCEPT !.cut = x]
           \/ c = [b EXCEPT !.dead = x, !.cut = y]
           \/ c = [b EXCEPT !.dirty = @ \/ x]
           \/ /\ b.kind # "domain" /\ b.left > 0
              /\ c = [b EXCEPT !.left = @ - 1, !.dead = FALSE, !.cut = FALSE]
    PROVE  c \in Blocks(K) /\ SameBlock(b, c)
<1>1. CASE c = [b EXCEPT !.dead = x]
  BY <1>1 DEF Blocks, SameBlock
<1>2. CASE c = [b EXCEPT !.cut = x]
  BY <1>2 DEF Blocks, SameBlock
<1>3. CASE c = [b EXCEPT !.dead = x, !.cut = y]
  BY <1>3 DEF Blocks, SameBlock
<1>4. CASE c = [b EXCEPT !.dirty = @ \/ x]
  BY <1>4 DEF Blocks, SameBlock
<1>5. CASE /\ b.kind # "domain" /\ b.left > 0
           /\ c = [b EXCEPT !.left = @ - 1, !.dead = FALSE, !.cut = FALSE]
  <2>1. b.left - 1 \in Nat /\ b = [kind |-> b.kind, as |-> b.as, left |-> b.left, keep |-> b.keep,
                                   dead |-> b.dead, cut |-> b.cut, dirty |-> b.dirty]
    BY <1>5 DEF Blocks
  <2> DEFINE m == b.left - 1
  <2>2. c = [b EXCEPT !.left = m, !.dead = FALSE, !.cut = FALSE]
    BY <1>5
  <2> HIDE DEF m
  <2>3. c = [kind |-> b.kind, as |-> b.as, left |-> m, keep |-> b.keep,
             dead |-> FALSE, cut |-> FALSE, dirty |-> b.dirty]
    BY <2>1, <2>2
  <2>4. m \in Nat
    BY <2>1 DEF m
  <2>5. b.kind \in BlockKinds /\ b.as \in As /\ b.keep \in K /\ b.kind # "domain" /\ b.dirty \in BOOLEAN
    BY <1>5 DEF Blocks
  <2>6. c \in Blocks(K)
    BY <2>3, <2>4, <2>5 DEF Blocks
  <2>7. c.kind = b.kind /\ c.as = b.as /\ c.keep = b.keep /\ c.dirty = b.dirty
    BY <2>3
  <2> QED
    BY <2>5, <2>6, <2>7 DEF SameBlock
<1> QED
  BY <1>1, <1>2, <1>3, <1>4, <1>5

\* The block c is b, but for what signals have ended.
Noted(b, c) ==
    \/ c = b
    \/ \E x \in BOOLEAN : c = [b EXCEPT !.dead = x] \/ c = [b EXCEPT !.cut = x]
    \/ \E x \in BOOLEAN, y \in BOOLEAN : c = [b EXCEPT !.dead = x, !.cut = y]

LEMMA NotedIs ==
    ASSUME NEW K, NEW b \in Blocks(K), NEW c, Noted(b, c)
    PROVE  c \in Blocks(K) /\ SameBlock(b, c)
<1>1. CASE c = b
  BY <1>1, SameItself
<1>2. ASSUME NEW x \in BOOLEAN, c = [b EXCEPT !.dead = x] \/ c = [b EXCEPT !.cut = x]
      PROVE  c \in Blocks(K) /\ SameBlock(b, c)
  BY <1>2, BlockNotes
<1>3. ASSUME NEW x \in BOOLEAN, NEW y \in BOOLEAN, c = [b EXCEPT !.dead = x, !.cut = y]
      PROVE  c \in Blocks(K) /\ SameBlock(b, c)
  BY <1>3, BlockNotes
<1> QED
  BY <1>1, <1>2, <1>3 DEF Noted

LEMMA NotesMark ==
    ASSUME NEW s, IsStack(s), NEW t, t = [i \in DOMAIN s |-> t[i]],
           \A i \in DOMAIN s : Noted(s[i], t[i])
    PROVE  Marked(s, t)
<1>1. PICK K : s \in Seq(Blocks(K))
  BY DEF IsStack
<1> DEFINE n == Len(s)
<1>2. DOMAIN s = 1 .. n /\ \A i \in 1 .. n : s[i] \in Blocks(K)
  BY <1>1, StackIs
<1>3. \A i \in 1 .. n : t[i] \in Blocks(K) /\ SameBlock(s[i], t[i])
  <2> TAKE i \in 1 .. n
  <2>1. Noted(s[i], t[i]) /\ s[i] \in Blocks(K)
    BY <1>2
  <2> QED
    BY <2>1, NotedIs
<1> HIDE DEF n
<1> QED
  BY <1>1, <1>2, <1>3, Remarked DEF n

\* Signals mark blocks as ended.
LEMMA KillMarks ==
    ASSUME IsStack(stack), NEW B, Kill(B)
    PROVE  Marked(stack, stack')
<1>1. /\ stack' = [i \in DOMAIN stack |-> stack'[i]]
      /\ \A i \in DOMAIN stack : stack'[i] = [stack[i] EXCEPT !.dead = stack[i].dead \/ i \in B]
  BY DEF Kill
<1>2. \A i \in DOMAIN stack : Noted(stack[i], stack'[i])
  <2> TAKE i \in DOMAIN stack
  <2>1. (stack[i].dead \/ i \in B) \in BOOLEAN
    OBVIOUS
  <2> QED
    BY <1>1, <2>1 DEF Noted
<1> QED
  BY <1>1, <1>2, NotesMark

LEMMA LoopControlMarks ==
    ASSUME IsStack(stack), NEW signal, LoopControl(signal)
    PROVE  Marked(stack, stack')
<1>1. PICK target :
        stack' = [i \in DOMAIN stack |->
                    IF i < Own THEN stack[i]
                    ELSE [stack[i] EXCEPT !.cut = i >= target /\ Dead(i, {})]]
  BY DEF LoopControl
<1>2. \A i \in DOMAIN stack : Noted(stack[i], stack'[i])
  <2> TAKE i \in DOMAIN stack
  <2>1. stack'[i] = stack[i] \/ stack'[i] = [stack[i] EXCEPT !.cut = i >= target /\ Dead(i, {})]
    BY <1>1
  <2>2. (i >= target /\ Dead(i, {})) \in BOOLEAN
    OBVIOUS
  <2> QED
    BY <2>1, <2>2 DEF Noted
<1>3. stack' = [i \in DOMAIN stack |-> stack'[i]]
  BY <1>1
<1> QED
  BY <1>2, <1>3, NotesMark

\* The end of a loop's round.
LEMMA RoundOverMarks ==
    ASSUME NEW s, IsStack(s)
    PROVE  Marked(s, RoundOver(s))
<1> DEFINE t == RoundOver(s)
<1>1. /\ t = [i \in DOMAIN s |-> t[i]]
      /\ \A i \in DOMAIN s :
           t[i] = s[i] \/ t[i] = [s[i] EXCEPT !.cut = s[i].cut /\ i = Len(stack) /\ loop = "break"]
  BY DEF RoundOver
<1> HIDE DEF t
<1>2. \A i \in DOMAIN s : Noted(s[i], t[i])
  <2> TAKE i \in DOMAIN s
  <2>1. (s[i].cut /\ i = Len(stack) /\ loop = "break") \in BOOLEAN
    OBVIOUS
  <2> QED
    BY <1>1, <2>1 DEF Noted
<1>3. Marked(s, t)
  BY <1>1, <1>2, NotesMark
<1> QED
  BY <1>3 DEF t

\* The end of a block, and marks on those below.
LEMMA PoppedMarked ==
    ASSUME NEW s, NEW t, NEW u, IsStack(s), Popped(s, t), Marked(t, u)
    PROVE  Popped(s, u)
<1>1. /\ IsStack(u) /\ Len(u) = Len(t) /\ Len(t) = Len(s) - 1 /\ Len(s) > 0 /\ Len(s) \in Nat
      /\ \A i \in 1 .. Len(t) : SameBlock(s[i], t[i]) /\ SameBlock(t[i], u[i])
  BY LengthIs DEF Popped, Marked, Alike
<1>2. \A i \in 1 .. Len(t) : SameBlock(s[i], u[i])
  BY <1>1 DEF SameBlock
<1> QED
  BY <1>1, <1>2 DEF Popped, Alike

\* A failing call takes marks off the blocks of its caller.
LEMMA CallFails ==
    ASSUME IsStack(stack), stack # <<>>, CallFailed
    PROVE  Popped(stack, stack')
<1>1. Popped(stack, Below)
  BY BelowIsPopped
<1>2. IsStack(Below)
  BY <1>1 DEF Popped
<1>3. \A i \in DOMAIN Below : Noted(Below[i], stack'[i])
  <2> TAKE i \in DOMAIN Below
  <2>1. \/ stack'[i] = Below[i]
        \/ stack'[i] = [Below[i] EXCEPT !.dead = Below[i].dead /\ ret,
                                        !.cut = Below[i].cut /\ loop = Top.keep.loop]
    BY DEF CallFailed
  <2>2. (Below[i].dead /\ ret) \in BOOLEAN /\ (Below[i].cut /\ loop = Top.keep.loop) \in BOOLEAN
    OBVIOUS
  <2> QED
    BY <2>1, <2>2 DEF Noted
<1>4. stack' = [i \in DOMAIN Below |-> stack'[i]]
  BY DEF CallFailed
<1>5. Marked(Below, stack')
  BY <1>2, <1>3, <1>4, NotesMark
<1> QED
  BY <1>1, <1>5, PoppedMarked

\* The block on top goes on.
LEMMA TopMarks ==
    ASSUME IsStack(stack), stack # <<>>, NEW b, NEW t,
           t = [stack EXCEPT ![Len(stack)] = b],
           \/ b = [Top EXCEPT !.dead = FALSE, !.cut = FALSE]
           \/ /\ Top.kind # "domain" /\ Top.left > 0
              /\ b = [Top EXCEPT !.left = @ - 1, !.dead = FALSE, !.cut = FALSE]
    PROVE  Marked(stack, t)
<1>1. PICK K : stack \in Seq(Blocks(K))
  BY DEF IsStack
<1> DEFINE n == Len(stack)
<1>2. n \in 1 .. n /\ DOMAIN stack = 1 .. n
  BY <1>1
<1>3. \A i \in 1 .. n : stack[i] \in Blocks(K)
  BY <1>1, StackIs
<1>4. Top \in Blocks(K) /\ Top = stack[n]
  BY <1>2, <1>3 DEF Top
<1>5. b \in Blocks(K) /\ SameBlock(Top, b)
  BY <1>4, BlockNotes
<1>6. /\ t = [i \in 1 .. n |-> t[i]]
      /\ t[n] = b
      /\ \A i \in 1 .. n : i # n => t[i] = stack[i]
  BY <1>2
<1> HIDE DEF n
<1>7. \A i \in 1 .. n : t[i] \in Blocks(K) /\ SameBlock(stack[i], t[i])
  BY <1>3, <1>4, <1>5, <1>6, SameItself
<1>8. n = Len(stack)
  BY DEF n
<1> QED
  BY ONLY <1>1, <1>6, <1>7, <1>8, Remarked

LEMMA AgainIs ==
    ASSUME IsStack(stack), stack # <<>>
    PROVE  /\ Again(stack) = [stack EXCEPT ![Len(stack)] = [Top EXCEPT !.dead = FALSE, !.cut = FALSE]]
           /\ Again([stack EXCEPT ![Len(stack)].left = @ - 1])
                = [stack EXCEPT ![Len(stack)] = [Top EXCEPT !.left = @ - 1, !.dead = FALSE, !.cut = FALSE]]
<1>1. Len(stack) \in DOMAIN stack
  BY DEF IsStack
<1> QED
  BY <1>1 DEF Top, Again

LEMMA SwallowMarks ==
    ASSUME NEW s, IsStack(s), NEW t, t = Swallowed(s)
    PROVE  /\ Marked(s, t)
           /\ \A i \in 1 .. Len(s) : i = Own /\ (env # Own \/ html # OwnHtml) => t[i].dirty
           /\ \A i \in 1 .. Len(s) : t[i].kind = s[i].kind
<1>1. PICK K : s \in Seq(Blocks(K))
  BY DEF IsStack
<1> DEFINE n == Len(s)
<1>2. \A i \in 1 .. n : s[i] \in Blocks(K)
  BY <1>1, StackIs
<1>3. DOMAIN s = 1 .. n
  BY <1>1
<1> DEFINE x(i) == i = Own /\ (env # Own \/ html # OwnHtml)
<1>4. /\ t = [i \in 1 .. n |-> t[i]]
      /\ \A i \in 1 .. n : t[i] = [s[i] EXCEPT !.dirty = @ \/ x(i)] /\ x(i) \in BOOLEAN
  BY <1>3 DEF Swallowed
<1> HIDE DEF x
<1>5. \A i \in 1 .. n : t[i] \in Blocks(K) /\ SameBlock(s[i], t[i])
  BY <1>2, <1>4, BlockNotes
<1>6. \A i \in 1 .. n : (x(i) => t[i].dirty) /\ t[i].kind = s[i].kind
  BY <1>2, <1>4 DEF Blocks
<1> HIDE DEF n
<1>7. Marked(s, t)
  BY <1>1, <1>4, <1>5, Remarked DEF n
<1> QED
  BY <1>6, <1>7 DEF x, n

(***************************************************************************)
(* The actions, by what they do to the stack.                              *)
(***************************************************************************)
Grows(kind, left) ==
    /\ Pushed(stack, stack')
    /\ \E as \in As : stack'[Len(stack) + 1] = Block(kind, as, left)

LEMMA EnterGrows ==
    ASSUME IsStack(stack), NEW kind \in BlockKinds, NEW as \in As, NEW left \in Nat, Enter(kind, as, left)
    PROVE  Grows(kind, left) /\ mode' = "next"
<1>1. OnTop(stack, Block(kind, as, left), stack')
  BY EnteredIs DEF Enter
<1> QED
  BY <1>1 DEF OnTop, Grows, Enter

LEMMA LeaveShrinks ==
    ASSUME IsStack(stack), stack # <<>>, stack' = Below
    PROVE  Popped(stack, stack')
BY BelowIsPopped

Undisturbed == \/ UNCHANGED tables
               \/ made' = made + 1 /\ db' = db \cup {made + 1} /\ undone' = undone

\* Statements without a block, and what comes between statements.
Answers == \/ Respond \/ Redirect \/ Serve \/ BindRequest \/ Session \/ Csrf \/ Auth \/ RateLimitPolicy
Jumps   == Return \/ Break \/ Continue
Others  == Write \/ Throw \/ RegisterAfter \/ LookAtSignals \/ LastStatement \/ (Content /\ content = 0)

LEMMA NoBlock ==
    ASSUME IsStack(stack), Answers \/ Jumps \/ Others
    PROVE  Marked(stack, stack') /\ UNCHANGED fields /\ Undisturbed /\ mode \in {"next", "evaluated"}
<1>1. CASE Answers
  <2>1. /\ Answer \/ GoOn \/ Raise
        /\ OnlyAnswers /\ mode = "next"
    <3>1. CASE Respond
      BY <3>1 DEF Respond, Evaluates
    <3>2. CASE Redirect
      BY <3>2 DEF Redirect, Evaluates
    <3>3. CASE Serve
      BY <3>3 DEF Serve, Evaluates
    <3>4. CASE BindRequest
      BY <3>4 DEF BindRequest, Evaluates
    <3>5. CASE Session
      BY <3>5 DEF Session, Evaluates
    <3>6. CASE Csrf
      BY <3>6 DEF Csrf, Evaluates
    <3>7. CASE Auth
      BY <3>7 DEF Auth, Evaluates
    <3>8. CASE RateLimitPolicy
      BY <3>8 DEF RateLimitPolicy, Evaluates
    <3> QED
      BY <1>1, <3>1, <3>2, <3>3, <3>4, <3>5, <3>6, <3>7, <3>8 DEF Answers
  <2>2. CASE Answer
    BY <2>1, <2>2, KillMarks DEF Answer, OnlyAnswers, Undisturbed
  <2>3. CASE GoOn \/ Raise
    BY <2>1, <2>3, SameIsMarked DEF GoOn, Raise, OnlyAnswers, Undisturbed
  <2> QED
    BY <2>1, <2>2, <2>3
<1>2. CASE Jumps
  <2>1. CASE Return
    BY <2>1, KillMarks DEF Return, Evaluates, Undisturbed
  <2>2. CASE Break \/ Continue
    <3>1. PICK signal \in {"break", "continue"} : LoopControl(signal)
      BY <2>2 DEF Break, Continue
    <3>2. UNCHANGED fields /\ UNCHANGED tables /\ mode = "next"
      BY <3>1 DEF LoopControl, Evaluates
    <3> QED
      BY <3>1, <3>2, LoopControlMarks DEF Undisturbed
  <2> QED
    BY <1>2, <2>1, <2>2 DEF Jumps
<1>3. CASE Others
  BY <1>3, SameIsMarked DEF Others, Write, Throw, RegisterAfter, LookAtSignals, LastStatement, Content,
     Evaluates, Undisturbed, tables
<1> QED
  BY <1>1, <1>2, <1>3

Neutral == {"plain", "loop", "try", "catch", "transaction", "cron"}

LEMMA NewBlock ==
    ASSUME IsStack(stack), If \/ Loop \/ Try \/ (Content /\ content # 0) \/ Transaction \/ RunDueCrons
    PROVE  /\ \E kind \in Neutral, left \in Nat : Grows(kind, left)
           /\ UNCHANGED <<fields, tables>> /\ mode = "next" /\ mode' = "next"
<1>1. \E kind \in Neutral, as \in As, left \in Nat : Enter(kind, as, left)
  BY DEF If, Loop, Try, Content, Transaction, RunDueCrons, Neutral, As
<1>2. UNCHANGED <<fields, tables>> /\ mode = "next"
  BY DEF If, Loop, Try, Content, Transaction, RunDueCrons, Evaluates
<1> QED
  BY <1>1, <1>2, EnterGrows DEF Neutral, BlockKinds

LEMMA NewCall ==
    ASSUME IsStack(stack), Call \/ UserDomain
    PROVE  /\ \E kind \in Calls, left \in 0 .. 1 :
                /\ Grows(kind, left)
                /\ kind # "domain" => content' = content
                /\ kind = "domain" /\ left = 1 => content' = Len(stack) + 1
                /\ kind = "domain" /\ left = 0 => content' = 0
           /\ env' = Len(stack) + 1 /\ html' = 0
           /\ UNCHANGED <<unsafe, scopes, tables>> /\ mode = "next" /\ mode' = "next"
<1>1. /\ \E kind \in Calls, as \in As, left \in 0 .. 1 :
           /\ Enter(kind, as, left)
           /\ kind # "domain" => content' = content
           /\ kind = "domain" /\ left = 1 => content' = Len(stack) + 1
           /\ kind = "domain" /\ left = 0 => content' = 0
      /\ Called /\ mode = "next"
  BY DEF Call, UserDomain, Evaluates, Calls
<1>2. PICK kind \in Calls, as \in As, left \in 0 .. 1 :
        /\ Enter(kind, as, left)
        /\ kind # "domain" => content' = content
        /\ kind = "domain" /\ left = 1 => content' = Len(stack) + 1
        /\ kind = "domain" /\ left = 0 => content' = 0
  BY <1>1
<1>3. Grows(kind, left) /\ mode' = "next"
  <2>1. kind \in BlockKinds /\ left \in Nat /\ Enter(kind, as, left)
    BY <1>2 DEF BlockKinds
  <2> QED
    BY <2>1, EnterGrows
<1> QED
  BY <1>1, <1>2, <1>3 DEF Called

LEMMA NewHtml ==
    ASSUME IsStack(stack), Html
    PROVE  /\ Grows("html", 0) /\ html' = Len(stack) + 1
           /\ UNCHANGED <<env, content, unsafe, scopes, tables>> /\ mode = "next" /\ mode' = "next"
BY EnterGrows DEF Html, Evaluates, BlockKinds, As

LEMMA NewUnsafe ==
    ASSUME IsStack(stack), Unsafe
    PROVE  /\ Grows("unsafe", 0) /\ unsafe' = unsafe + 1
           /\ UNCHANGED <<env, html, content, scopes, tables>> /\ mode = "next" /\ mode' = "next"
BY EnterGrows DEF Unsafe, Evaluates, BlockKinds, As

LEMMA NewJob ==
    ASSUME IsStack(stack), Enqueue
    PROVE  /\ \E left \in Nat : Grows("job", left)
           /\ scopes' = scopes + 1
           /\ UNCHANGED <<env, html, content, unsafe, tables>> /\ mode = "next" /\ mode' = "next"
<1>1. PICK retries \in 0 .. MaxRetries : Enter("job", "expr", retries)
  BY DEF Enqueue
<1>2. Grows("job", retries) /\ mode' = "next" /\ retries \in Nat
  <2>1. "job" \in BlockKinds /\ "expr" \in As /\ retries \in Nat
    BY BoundsAssumption DEF BlockKinds, As
  <2> QED
    BY <1>1, <2>1, EnterGrows
<1> QED
  BY <1>2 DEF Enqueue, Evaluates

LEMMA BlockEnds ==
    ASSUME IsStack(stack), EndPlain \/ EndRound \/ EndTransaction \/ EndCron
    PROVE  /\ Marked(stack, stack') \/ (Popped(stack, stack') /\ Top.kind \in Neutral)
           /\ UNCHANGED fields /\ Undisturbed /\ mode = "end"
<1>1. /\ UNCHANGED fields /\ Undisturbed /\ mode = "end" /\ stack # <<>>
      /\ Top.kind \in Neutral
  BY DEF EndPlain, EndRound, EndTransaction, EndCron, Ends, Row, Undisturbed, Neutral
<1>2. \/ stack' = Below
      \/ stack' = RoundOver(Below)
      \/ stack' = RoundOver(stack)
      \/ stack' = Again(stack)
      \/ /\ Top.kind = "cron" /\ Top.left > 0
         /\ stack' = Again([stack EXCEPT ![Len(stack)].left = @ - 1])
  BY DEF EndPlain, EndRound, EndTransaction, EndCron, Leave, LeaveTo, NextCron, Ends
<1>3. CASE stack' = Below
  BY <1>1, <1>3, LeaveShrinks
<1>4. CASE stack' = RoundOver(Below)
  <2>1. Popped(stack, Below) /\ IsStack(Below)
    BY <1>1, BelowIsPopped DEF Popped
  <2> QED
    BY <1>1, <1>4, <2>1, RoundOverMarks, PoppedMarked
<1>5. CASE stack' = RoundOver(stack)
  BY <1>1, <1>5, RoundOverMarks
<1>6. CASE stack' = Again(stack)
  BY <1>1, <1>6, AgainIs, TopMarks
<1>7. CASE /\ Top.kind = "cron" /\ Top.left > 0
           /\ stack' = Again([stack EXCEPT ![Len(stack)].left = @ - 1])
  BY <1>1, <1>7, AgainIs, TopMarks
<1> QED
  BY <1>1, <1>2, <1>3, <1>4, <1>5, <1>6, <1>7

LEMMA ErrorEnds ==
    ASSUME IsStack(stack), ErrorPasses \/ ErrorPassesCall \/ FailCron
    PROVE  Popped(stack, stack') /\ UNCHANGED fields /\ Undisturbed /\ mode = "error" /\ mode' = "error"
<1>1. /\ stack # <<>> /\ UNCHANGED fields /\ Undisturbed /\ mode = "error" /\ mode' = "error"
      /\ stack' = Below \/ CallFailed
  BY DEF ErrorPasses, ErrorPassesCall, FailCron, Passes, Row, Undisturbed
<1> QED
  BY <1>1, LeaveShrinks, CallFails

\* A catch takes the place of its try; a job tries again or is given up.
LEMMA Recovers ==
    ASSUME IsStack(stack), Catch \/ RetryJob \/ FailJob
    PROVE  /\ Marked(stack, stack') \/ Popped(stack, stack')
           /\ UNCHANGED <<env, html, content, unsafe>> /\ Undisturbed /\ mode = "error"
           /\ stack # <<>>
           /\ Catch \/ RetryJob => Marked(stack, stack') /\ scopes' = scopes
           /\ FailJob => Popped(stack, stack') /\ Top.kind = "job" /\ scopes' = scopes - 1
           /\ Catch => Top.kind = "try"
           /\ RetryJob => Top.kind = "job"
           /\ \A i \in 1 .. Len(stack') : i = Own /\ (env # Own \/ html # OwnHtml) => stack'[i].dirty
<1> DEFINE n == Len(stack)
<1>1. stack # <<>> /\ mode = "error" /\ n \in Nat /\ n > 0
  <2>1. stack # <<>> /\ mode = "error"
    BY DEF Catch, RetryJob, FailJob, Passes
  <2> QED
    BY <2>1 DEF IsStack
<1>2. Popped(stack, Below) /\ \A i \in 1 .. n - 1 : Below[i] = stack[i]
  BY <1>1, BelowIsPopped
<1>3. IsStack(Below) /\ Len(Below) = n - 1 /\ Top = stack[n]
  BY <1>2 DEF Popped, Top
<1>4. CASE Catch
  <2> DEFINE b == Block("catch", Top.as, 0)
             s == Append(Below, b)
  <2>1. stack' = Swallowed(s) /\ Top.kind = "try" /\ UNCHANGED <<fields, tables>>
    BY <1>4 DEF Catch, Passes
  <2>2. PICK K : Below \in Seq(Blocks(K)) /\ Keep("catch") \in K
    <3>1. PICK L : Below \in Seq(Blocks(L))
      BY <1>3 DEF IsStack
    <3> DEFINE K == L \cup {Keep("catch")}
    <3>2. Blocks(L) \subseteq Blocks(K)
      BY DEF Blocks
    <3>3. Keep("catch") \in K
      OBVIOUS
    <3> HIDE DEF K
    <3> QED
      BY <3>1, <3>2, <3>3
  <2>3. Top.as \in As
    <3>1. PICK L : stack \in Seq(Blocks(L))
      BY DEF IsStack
    <3>2. stack[n] \in Blocks(L)
      BY <1>1, <3>1
    <3> QED
      BY <1>3, <3>2 DEF Blocks
  <2>4. b \in Blocks(K) /\ b.kind = "catch" /\ b.as = Top.as
    BY <2>2, <2>3 DEF Block, Blocks, BlockKinds
  <2> HIDE DEF b
  <2>5. /\ s \in Seq(Blocks(K)) /\ Len(s) = n /\ s[n] = b
        /\ \A i \in 1 .. n - 1 : s[i] = stack[i]
    BY <1>1, <1>2, <1>3, <2>2, <2>4
  <2>6. \A i \in 1 .. n : SameBlock(stack[i], s[i])
    <3> TAKE i \in 1 .. n
    <3>1. CASE i = n
      BY <1>3, <2>1, <2>4, <2>5, <3>1 DEF SameBlock
    <3>2. CASE i # n
      BY <1>1, <2>5, <3>2, SameItself
    <3> QED
      BY <3>1, <3>2
  <2>7. IsStack(s)
    BY <2>5, StackIs
  <2> HIDE DEF s
  <2>8. /\ Marked(s, stack')
        /\ \A i \in 1 .. n : i = Own /\ (env # Own \/ html # OwnHtml) => stack'[i].dirty
    BY <2>1, <2>5, <2>7, SwallowMarks
  <2>9. IsStack(stack') /\ Len(stack') = n /\ \A i \in 1 .. n : SameBlock(s[i], stack'[i])
    BY <2>5, <2>8 DEF Marked, Alike
  <2>10. \A i \in 1 .. n : SameBlock(stack[i], stack'[i])
    <3> TAKE i \in 1 .. n
    <3>1. SameBlock(stack[i], s[i]) /\ SameBlock(s[i], stack'[i])
      BY <2>6, <2>9
    <3> QED
      BY <3>1 DEF SameBlock
  <2>11. Marked(stack, stack')
    BY <1>1, <2>9, <2>10 DEF Marked, Alike
  <2>12. ~RetryJob /\ ~FailJob
    BY <2>1 DEF RetryJob, FailJob, Passes
  <2> QED
    BY <1>1, <2>1, <2>8, <2>9, <2>11, <2>12 DEF Undisturbed, fields
<1>5. CASE RetryJob
  <2> DEFINE s == Again([stack EXCEPT ![Len(stack)].left = @ - 1])
  <2>1. /\ stack' = Swallowed(s) /\ Top.kind = "job" /\ Top.left > 0 /\ UNCHANGED <<fields, tables>>
    BY <1>5 DEF RetryJob, Passes
  <2>2. s = [stack EXCEPT ![Len(stack)] = [Top EXCEPT !.left = @ - 1, !.dead = FALSE, !.cut = FALSE]]
    BY <1>1, AgainIs
  <2>3. Marked(stack, s)
    BY <1>1, <2>1, <2>2, TopMarks
  <2> HIDE DEF s
  <2>4. IsStack(s) /\ Len(s) = n
    BY <2>3 DEF Marked
  <2>5. /\ Marked(s, stack')
        /\ \A i \in 1 .. n : i = Own /\ (env # Own \/ html # OwnHtml) => stack'[i].dirty
    BY <2>1, <2>4, SwallowMarks
  <2>6. IsStack(stack') /\ Len(stack') = n
    BY <2>4, <2>5 DEF Marked
  <2>7. \A i \in 1 .. n : SameBlock(stack[i], stack'[i])
    <3> TAKE i \in 1 .. n
    <3>1. SameBlock(stack[i], s[i]) /\ SameBlock(s[i], stack'[i])
      BY <2>3, <2>4, <2>5 DEF Marked, Alike
    <3> QED
      BY <3>1 DEF SameBlock
  <2>8. Marked(stack, stack')
    BY <1>1, <2>6, <2>7 DEF Marked, Alike
  <2>9. ~Catch /\ ~FailJob
    BY <2>1 DEF Catch, FailJob, Passes
  <2> QED
    BY <1>1, <2>1, <2>5, <2>6, <2>8, <2>9 DEF Undisturbed, fields
<1>6. CASE FailJob
  <2>1. /\ stack' = Swallowed(Below) /\ Top.kind = "job" /\ Top.left = 0 /\ scopes' = scopes - 1
        /\ UNCHANGED <<env, html, content, unsafe>> /\ Undisturbed
    BY <1>6 DEF FailJob, Passes, Row, Undisturbed
  <2>2. /\ Marked(Below, stack')
        /\ \A i \in 1 .. n - 1 : i = Own /\ (env # Own \/ html # OwnHtml) => stack'[i].dirty
    BY <1>3, <2>1, SwallowMarks
  <2>3. IsStack(stack') /\ Len(stack') = n - 1
    BY <1>3, <2>2 DEF Marked
  <2>4. \A i \in 1 .. n - 1 : SameBlock(stack[i], stack'[i])
    BY <1>2, <1>3, <2>2 DEF Marked, Alike
  <2>5. Popped(stack, stack')
    BY <1>1, <2>3, <2>4 DEF Popped, Alike
  <2>6. ~Catch /\ ~RetryJob
    BY <2>1 DEF Catch, RetryJob, Passes
  <2> QED
    BY <1>1, <2>1, <2>2, <2>3, <2>5, <2>6
<1> QED
  BY <1>4, <1>5, <1>6

LEMMA InitStack ==
    ASSUME Init
    PROVE  /\ IsStack(stack) /\ Len(stack) = 1 /\ stack[1].kind = "handler"
           /\ ~stack[1].dead /\ ~stack[1].cut
<1> DEFINE b == [kind |-> "handler", as |-> "expr", left |-> 0, keep |-> [x \in {} |-> 0],
                 dead |-> FALSE, cut |-> FALSE, dirty |-> FALSE]
           K == {[x \in {} |-> 0]}
<1>1. b \in Blocks(K) /\ b.kind = "handler" /\ ~b.dead /\ ~b.cut
  BY DEF Blocks, BlockKinds, As
<1>2. stack = <<b>>
  BY DEF Init
<1> HIDE DEF b, K
<1>3. stack \in Seq(Blocks(K)) /\ Len(stack) = 1 /\ stack[1] = b
  BY <1>1, <1>2
<1>4. IsStack(stack)
  BY <1>3, StackIs
<1> QED
  BY <1>1, <1>3, <1>4

(***************************************************************************)
(* Transactions.  A snapshot holds what was written before its transaction *)
(* began, but for what had been taken back; snapshots are older the lower  *)
(* they are.                                                               *)
(***************************************************************************)
SnapshotFits(b, n, gone) ==
    b.kind = "transaction" => b.keep.made \in 0 .. n /\ b.keep.db = (1 .. b.keep.made) \ gone

SnapshotsFit(s, n, gone) ==
    /\ \A i \in 1 .. Len(s) : SnapshotFits(s[i], n, gone)
    /\ \A i, j \in 1 .. Len(s) :
         i < j /\ s[i].kind = "transaction" /\ s[j].kind = "transaction" => s[i].keep.made <= s[j].keep.made

Ledger ==
    /\ IsStack(stack)
    /\ made \in Nat /\ undone \subseteq 1 .. made
    /\ TransactionsExact
    /\ SnapshotsFit(stack, made, undone)

LEMMA SnapshotsBelow ==
    ASSUME NEW s, IsStack(s), NEW t, IsStack(t), Alike(s, t, Len(t)), NEW n \in Nat, NEW m \in Nat, n <= m,
           NEW gone, SnapshotsFit(s, n, gone)
    PROVE  SnapshotsFit(t, m, gone)
<1>1. Len(t) \in Nat /\ Len(s) \in Nat /\ Len(t) <= Len(s)
  BY LengthIs DEF Alike
<1>2. \A i \in 1 .. Len(t) :
        /\ i \in 1 .. Len(s)
        /\ t[i].kind = "transaction" => s[i].kind = "transaction" /\ s[i].keep = t[i].keep
  BY <1>1 DEF Alike, SameBlock
<1>3. \A i \in 1 .. Len(t) : SnapshotFits(t[i], m, gone)
  <2> TAKE i \in 1 .. Len(t)
  <2> SUFFICES ASSUME t[i].kind = "transaction"
               PROVE  t[i].keep.made \in 0 .. m /\ t[i].keep.db = (1 .. t[i].keep.made) \ gone
    BY DEF SnapshotFits
  <2>1. SnapshotFits(s[i], n, gone) /\ s[i].kind = "transaction" /\ s[i].keep = t[i].keep
    BY <1>2 DEF SnapshotsFit
  <2>2. t[i].keep.made \in 0 .. n /\ t[i].keep.db = (1 .. t[i].keep.made) \ gone
    BY <2>1 DEF SnapshotFits
  <2> QED
    BY <2>2
<1> QED
  BY <1>2, <1>3 DEF SnapshotsFit

LEMMA SnapshotsAbove ==
    ASSUME NEW s, IsStack(s), NEW t, Pushed(s, t), NEW n \in Nat,
           NEW gone, SnapshotsFit(s, n, gone),
           LET b == t[Len(s) + 1]
           IN  b.kind = "transaction" => b.keep.made = n /\ b.keep.db = (1 .. n) \ gone
    PROVE  SnapshotsFit(t, n, gone)
<1>1. Len(s) \in Nat /\ Len(t) = Len(s) + 1
  BY LengthIs DEF Pushed
<1> DEFINE k == Len(s)
           b == t[k + 1]
<1>2. \A i \in 1 .. k + 1 : i \in 1 .. k \/ i = k + 1
  BY <1>1
<1>3. \A i \in 1 .. k : t[i].kind = "transaction" => s[i].kind = "transaction" /\ s[i].keep = t[i].keep
  BY <1>1 DEF Pushed, Alike, SameBlock
<1>4. b.kind = "transaction" => b.keep.made = n /\ b.keep.db = (1 .. n) \ gone
  OBVIOUS
<1>5. \A i \in 1 .. k : SnapshotFits(s[i], n, gone)
  BY DEF SnapshotsFit
<1>6. \A i, j \in 1 .. k :
        i < j /\ s[i].kind = "transaction" /\ s[j].kind = "transaction" => s[i].keep.made <= s[j].keep.made
  BY DEF SnapshotsFit
<1> HIDE DEF k
<1>7. \A i \in 1 .. k : SnapshotFits(t[i], n, gone)
  BY <1>3, <1>5 DEF SnapshotFits
<1>8. SnapshotFits(b, n, gone)
  <2> HIDE DEF b
  <2> QED
    BY <1>4 DEF SnapshotFits
<1>9. ASSUME NEW i \in 1 .. k + 1, NEW j \in 1 .. k + 1, i < j,
             t[i].kind = "transaction", t[j].kind = "transaction"
      PROVE  t[i].keep.made <= t[j].keep.made
  <2>1. CASE j \in 1 .. k
    <3>1. i \in 1 .. k
      BY <1>1, <1>9, <2>1 DEF k
    <3> QED
      BY <1>3, <1>6, <1>9, <2>1, <3>1
  <2>2. CASE j = k + 1
    <3>1. i \in 1 .. k
      BY <1>1, <1>9, <2>2 DEF k
    <3>2. t[i].keep.made \in 0 .. n
      BY <1>7, <1>9, <3>1 DEF SnapshotFits
    <3>3. t[j].keep.made = n
      BY <1>4, <1>9, <2>2
    <3> QED
      BY <3>2, <3>3
  <2> QED
    BY <1>2, <2>1, <2>2
<1>10. Len(t) = k + 1
  BY <1>1 DEF k
<1>11. \A i \in 1 .. k + 1 : SnapshotFits(t[i], n, gone)
  BY <1>2, <1>7, <1>8
<1> QED
  BY <1>9, <1>10, <1>11 DEF SnapshotsFit

LEMMA TablesExact ==
    ASSUME Ledger, Undisturbed
    PROVE  made' \in Nat /\ made <= made' /\ undone' = undone /\ undone \subseteq 1 .. made' /\ TransactionsExact'
<1>1. made \in Nat /\ undone \subseteq 1 .. made /\ db = (1 .. made) \ undone
  BY DEF Ledger, TransactionsExact
<1>2. CASE UNCHANGED tables
  BY <1>1, <1>2 DEF tables, TransactionsExact
<1>3. CASE made' = made + 1 /\ db' = db \cup {made + 1} /\ undone' = undone
  BY <1>1, <1>3 DEF TransactionsExact
<1> QED
  BY <1>2, <1>3 DEF Undisturbed

LEMMA LedgerKept ==
    ASSUME Ledger, Undisturbed, Marked(stack, stack') \/ Popped(stack, stack')
    PROVE  Ledger'
<1>1. IsStack(stack') /\ Alike(stack, stack', Len(stack'))
  BY DEF Marked, Popped
<1>2. SnapshotsFit(stack', made', undone)
  BY <1>1, TablesExact, SnapshotsBelow DEF Ledger
<1> QED
  BY <1>1, <1>2, TablesExact DEF Ledger

LEMMA LedgerGrows ==
    ASSUME Ledger, UNCHANGED tables, NEW kind, NEW left, Grows(kind, left)
    PROVE  Ledger'
<1>1. PICK as \in As : stack'[Len(stack) + 1] = Block(kind, as, left)
  BY DEF Grows
<1>2. Block(kind, as, left).kind = kind /\ Block(kind, as, left).keep = Keep(kind)
  BY DEF Block
<1>3. kind = "transaction" => Keep(kind) = [db |-> db, made |-> made]
  BY DEF Keep, Calls
<1>4. made \in Nat /\ db = (1 .. made) \ undone /\ SnapshotsFit(stack, made, undone) /\ IsStack(stack)
  BY DEF Ledger, TransactionsExact
<1>5. Pushed(stack, stack') /\ IsStack(stack')
  BY DEF Grows, Pushed
<1> DEFINE b == stack'[Len(stack) + 1]
<1>6. b.kind = "transaction" => b.keep.made = made /\ b.keep.db = (1 .. made) \ undone
  <2>1. b.kind = kind /\ b.keep = Keep(kind)
    BY <1>1, <1>2
  <2> HIDE DEF b
  <2>2. CASE b.kind = "transaction"
    <3>1. b.keep = [db |-> db, made |-> made]
      BY <1>3, <2>1, <2>2
    <3> QED
      BY <1>4, <3>1
  <2> QED
    BY <2>2
<1>7. SnapshotsFit(stack', made, undone)
  BY <1>4, <1>5, <1>6, SnapshotsAbove
<1> QED
  BY <1>5, <1>7, TablesExact DEF Ledger, Undisturbed, tables

\* The handler's stack is gone, or holds an @after block.
LEMMA LedgerAfresh ==
    ASSUME Ledger, UNCHANGED tables, IsStack(stack'),
           Len(stack') <= 1, \A i \in 1 .. Len(stack') : stack'[i].kind # "transaction"
    PROVE  Ledger'
<1>1. SnapshotsFit(stack', made', undone')
  BY DEF SnapshotsFit, SnapshotFits
<1> QED
  BY <1>1, TablesExact DEF Ledger, Undisturbed, tables

LEMMA LedgerRolledBack ==
    ASSUME Ledger, RollBack
    PROVE  Ledger'
<1> DEFINE n == Len(stack)
           k == Top.keep
<1>1. /\ stack # <<>> /\ Top.kind = "transaction" /\ stack' = Below /\ db' = k.db
      /\ undone' = undone \cup (k.made + 1 .. made) /\ made' = made
  BY DEF RollBack, Passes, RolledBack
<1>2. IsStack(stack) /\ made \in Nat /\ undone \subseteq 1 .. made /\ SnapshotsFit(stack, made, undone)
  BY DEF Ledger
<1>3. n \in Nat /\ n > 0 /\ Top = stack[n]
  <2>1. n \in Nat
    BY <1>2, LengthIs
  <2>2. n # 0
    BY <1>1, <1>2 DEF IsStack
  <2> QED
    BY <2>1, <2>2 DEF Top
<1>4. k.made \in 0 .. made /\ k.db = (1 .. k.made) \ undone
  BY <1>1, <1>2, <1>3 DEF SnapshotsFit, SnapshotFits
<1>5. Popped(stack, stack') /\ \A i \in 1 .. n - 1 : stack'[i] = stack[i]
  BY <1>1, <1>2, BelowIsPopped
<1>6. IsStack(stack') /\ Len(stack') = n - 1
  BY <1>5 DEF Popped
<1>7. \A i \in 1 .. n - 1 : stack[i].kind = "transaction" =>
         /\ stack[i].keep.made \in 0 .. made /\ stack[i].keep.made <= k.made
         /\ stack[i].keep.db = (1 .. stack[i].keep.made) \ undone
  BY <1>1, <1>2, <1>3 DEF SnapshotsFit, SnapshotFits
<1> HIDE DEF k, n
<1>8. TransactionsExact' /\ undone' \subseteq 1 .. made' /\ made' \in Nat
  <2> DEFINE m == k.made
  <2>1. m \in 0 .. made /\ db' = (1 .. m) \ undone /\ undone' = undone \cup (m + 1 .. made)
    BY <1>1, <1>4
  <2> HIDE DEF m
  <2>2. \A x : x \in (1 .. m) \ undone <=> x \in (1 .. made) \ (undone \cup (m + 1 .. made))
    BY <1>2, <2>1
  <2>3. db' = (1 .. made) \ undone'
    BY <2>1, <2>2
  <2>4. undone' \subseteq 1 .. made
    BY <1>2, <2>1
  <2> QED
    BY <1>1, <1>2, <2>3, <2>4 DEF TransactionsExact
<1>9. \A i \in 1 .. n - 1 : SnapshotFits(stack'[i], made', undone')
  <2> TAKE i \in 1 .. n - 1
  <2> DEFINE b == stack'[i]
             m == b.keep.made
  <2> SUFFICES ASSUME b.kind = "transaction"
               PROVE  m \in 0 .. made' /\ b.keep.db = (1 .. m) \ undone'
    BY DEF SnapshotFits
  <2>1. m \in 0 .. made /\ m <= k.made /\ b.keep.db = (1 .. m) \ undone
    BY <1>5, <1>7
  <2> HIDE DEF m, b
  <2>2. (1 .. m) \ undone' = (1 .. m) \ undone
    BY <1>1, <1>4, <2>1
  <2> QED
    BY <1>1, <2>1, <2>2
<1>10. \A i, j \in 1 .. n - 1 : i < j /\ stack'[i].kind = "transaction" /\ stack'[j].kind = "transaction"
           => stack'[i].keep.made <= stack'[j].keep.made
  <2>1. \A i \in 1 .. n - 1 : i \in 1 .. n
    BY <1>3
  <2>2. \A i, j \in 1 .. n : i < j /\ stack[i].kind = "transaction" /\ stack[j].kind = "transaction"
           => stack[i].keep.made <= stack[j].keep.made
    BY <1>2 DEF SnapshotsFit, n
  <2> QED
    BY <1>5, <2>1, <2>2
<1> QED
  BY <1>6, <1>8, <1>9, <1>10 DEF Ledger, SnapshotsFit

LEMMA HandlerEnds ==
    ASSUME IsStack(stack), EndBody \/ Fail
    PROVE  /\ IsStack(stack') /\ stack # <<>> /\ Top.kind \in {"handler", "after"}
           /\ UNCHANGED <<fields, tables>>
           /\ \/ stack' = <<>>
              \/ /\ mode = "end"
                 /\ stack' = <<[Block("after", "expr", 0) EXCEPT !.dirty = Top.dirty]>>
                 /\ Len(stack') = 1 /\ stack'[1].kind = "after" /\ stack'[1].dirty = Top.dirty
                 /\ ~stack'[1].dead /\ ~stack'[1].cut
<1>1. stack # <<>> /\ Top.kind \in {"handler", "after"} /\ UNCHANGED <<fields, tables>>
  BY DEF EndBody, Fail, Ends, Passes
<1>2. \/ stack' = <<>>
      \/ mode = "end" /\ stack' = <<[Block("after", "expr", 0) EXCEPT !.dirty = Top.dirty]>>
  BY DEF EndBody, NextAfter, Fail, Ends
<1>3. CASE stack' = <<>>
  <2>1. stack' \in Seq(Blocks({}))
    BY <1>3
  <2> QED
    BY <1>1, <1>3, <2>1, StackIs
<1>4. CASE mode = "end" /\ stack' = <<[Block("after", "expr", 0) EXCEPT !.dirty = Top.dirty]>>
  <2>1. Top.dirty \in BOOLEAN
    <3>1. PICK K : stack \in Seq(Blocks(K))
      BY DEF IsStack
    <3>2. Len(stack) \in 1 .. Len(stack) /\ \A i \in 1 .. Len(stack) : stack[i] \in Blocks(K)
      BY <1>1, <3>1, StackIs
    <3> QED
      BY <3>2 DEF Top, Blocks
  <2> DEFINE b == [Block("after", "expr", 0) EXCEPT !.dirty = Top.dirty]
             K == {Keep("after")}
  <2>2. b \in Blocks(K) /\ b.kind = "after" /\ b.dirty = Top.dirty /\ ~b.dead /\ ~b.cut
    BY <2>1 DEF Block, Blocks, BlockKinds, As
  <2>3. stack' = <<b>>
    BY <1>4
  <2> HIDE DEF b, K
  <2>4. stack' \in Seq(Blocks(K)) /\ Len(stack') = 1 /\ stack'[1] = b
    BY <2>2, <2>3
  <2>5. IsStack(stack')
    BY <2>4, StackIs
  <2> QED
    BY <1>1, <1>4, <2>2, <2>4, <2>5
<1> QED
  BY <1>2, <1>3, <1>4

LEMMA NextLedger ==
    ASSUME Ledger, [Next]_vars
    PROVE  Ledger'
<1>s. IsStack(stack)
  BY DEF Ledger
<1>1. CASE Answers \/ Jumps \/ Others
  BY <1>1, <1>s, NoBlock, LedgerKept
<1>2. CASE If \/ Loop \/ Try \/ (Content /\ content # 0) \/ Transaction \/ RunDueCrons
  BY <1>2, <1>s, NewBlock, LedgerGrows
<1>3. CASE Call \/ UserDomain
  BY <1>3, <1>s, NewCall, LedgerGrows
<1>4. CASE Html
  BY <1>4, <1>s, NewHtml, LedgerGrows
<1>5. CASE Unsafe
  BY <1>5, <1>s, NewUnsafe, LedgerGrows
<1>6. CASE Enqueue
  BY <1>6, <1>s, NewJob, LedgerGrows
<1>7. CASE EndPlain \/ EndRound \/ EndTransaction \/ EndCron
  BY <1>7, <1>s, BlockEnds, LedgerKept
<1>8. CASE ErrorPasses \/ ErrorPassesCall \/ FailCron
  BY <1>8, <1>s, ErrorEnds, LedgerKept
<1>9. CASE RollBack
  BY <1>9, LedgerRolledBack
<1>10. CASE EndBody \/ Fail
  <2>1. IsStack(stack') /\ UNCHANGED tables /\ (stack' = <<>> \/ (Len(stack') = 1 /\ stack'[1].kind = "after"))
    BY <1>10, <1>s, HandlerEnds
  <2>2. CASE stack' = <<>>
    BY <2>1, <2>2, LedgerAfresh
  <2>3. CASE Len(stack') = 1 /\ stack'[1].kind = "after"
    <3>1. Len(stack') <= 1 /\ \A i \in 1 .. Len(stack') : stack'[i].kind # "transaction"
      BY <2>3
    <3> QED
      BY <2>1, <3>1, LedgerAfresh
  <2> QED
    BY <2>1, <2>2, <2>3
<1>11. CASE EndCall \/ EndHtml \/ EndUnsafe \/ EndJob
  <2>1. stack' = Below /\ stack # <<>> /\ Undisturbed
    BY <1>11 DEF EndCall, EndHtml, EndUnsafe, EndJob, Ends, Leave, LeaveTo, Row, Undisturbed
  <2> QED
    BY <1>s, <2>1, LeaveShrinks, LedgerKept
<1>12. CASE ErrorPassesDomain \/ ErrorPassesHtml \/ ErrorPassesUnsafe
  <2>1. (stack' = Below \/ CallFailed) /\ stack # <<>> /\ Undisturbed
    BY <1>12 DEF ErrorPassesDomain, ErrorPassesHtml, ErrorPassesUnsafe, Passes, Undisturbed
  <2> QED
    BY <1>s, <2>1, LeaveShrinks, CallFails, LedgerKept
<1>13. CASE Catch \/ RetryJob \/ FailJob
  BY <1>13, <1>s, Recovers, LedgerKept
<1>14. CASE UNCHANGED vars
  BY <1>14, <1>s, SameIsMarked, LedgerKept DEF vars, Undisturbed
<1> QED
  BY <1>1, <1>2, <1>3, <1>4, <1>5, <1>6, <1>7, <1>8, <1>9, <1>10, <1>11, <1>12, <1>13, <1>14
     DEF Next, Statement, End, Error, Answers, Jumps, Others

LEMMA InitLedger == Init => Ledger
<1> SUFFICES ASSUME Init PROVE Ledger
  OBVIOUS
<1>1. IsStack(stack) /\ Len(stack) = 1 /\ stack[1].kind = "handler"
  BY InitStack
<1>2. SnapshotsFit(stack, made, undone)
  BY <1>1 DEF SnapshotsFit, SnapshotFits
<1> QED
  BY <1>1, <1>2 DEF Init, Ledger, TransactionsExact

\* The tables hold every write but those made inside a transaction that failed,
\* however transactions, jobs, crons and calls are nested and errors caught
\* (eval_db_transaction, run_job_handler_with_retries, eval_try).
THEOREM WritesAreExact == Spec => []TransactionsExact
<1>1. Ledger => TransactionsExact
  BY DEF Ledger
<1>2. Ledger /\ [Next]_vars => Ledger'
  BY NextLedger
<1> QED
  BY <1>1, <1>2, InitLedger, PTL DEF Spec

(***************************************************************************)
(* The greatest of a set of naturals.                                      *)
(***************************************************************************)
LEMMA MaxIs ==
    ASSUME NEW S \in SUBSET Nat, NEW n \in S, \A i \in S : i <= n
    PROVE  Max(S) = n
<1>1. \E x \in S : \A y \in S : x >= y
  OBVIOUS
<1>2. Max(S) \in S /\ \A y \in S : Max(S) >= y
  BY <1>1 DEF Max
<1>3. Max(S) >= n /\ n >= Max(S) /\ Max(S) \in Nat /\ n \in Nat
  BY <1>2
<1> QED
  BY <1>3

\* Every set of naturals up to a bound has a greatest element.
LEMMA GreatestUpTo ==
    ASSUME NEW n \in Nat, NEW S \in SUBSET (0 .. n), S # {}
    PROVE  Max(S) \in S /\ \A y \in S : y <= Max(S)
<1> DEFINE R == {ss \in Nat \X Nat : ss[1] < ss[2]}
           T == {k \in Nat : n - k \in S}
<1>1. IsWellFoundedOn(R, Nat)
  BY NatLessThanWellFounded DEF OpToRel
<1>2. \A x, y \in Nat : <<x, y>> \in R <=> x < y
  OBVIOUS
<1>3. T \in SUBSET Nat /\ T # {}
  <2>1. PICK x \in S : TRUE
    OBVIOUS
  <2>2. x \in 0 .. n
    OBVIOUS
  <2>3. n - x \in Nat /\ n - (n - x) = x
    BY <2>2
  <2> QED
    BY <2>1, <2>3
<1> HIDE DEF R
<1>4. PICK k \in T : \A y \in T : ~ (<<y, k>> \in R)
  <2> HIDE DEF T
  <2> QED
    BY <1>1, <1>3, WFMin
<1>5. \A y \in T : k <= y
  <2> HIDE DEF T
  <2> TAKE y \in T
  <2>1. y \in Nat /\ k \in Nat /\ ~ (<<y, k>> \in R)
    BY <1>3, <1>4
  <2>2. ~ (y < k)
    BY <1>2, <2>1
  <2> QED
    BY <2>1, <2>2
<1>6. n - k \in S /\ k \in Nat
  BY <1>4
<1>7. \A y \in S : y <= n - k
  <2> TAKE y \in S
  <2>1. y \in Nat /\ n - y \in Nat /\ n - (n - y) = y
    OBVIOUS
  <2>2. n - y \in T
    BY <2>1
  <2> HIDE DEF T
  <2>3. k <= n - y
    BY <1>5, <2>2
  <2> QED
    BY <1>6, <2>1, <2>3
<1> DEFINE m == n - k
<1>8. m \in S /\ \A y \in S : y <= m
  BY <1>6, <1>7
<1> HIDE DEF m
<1>9. Max(S) = m
  BY <1>8, MaxIs
<1> QED
  BY <1>8, <1>9

LEMMA MaxNext ==
    ASSUME NEW n \in Nat
    PROVE  \A S \in SUBSET (0 .. n) : Max(S \cup {n + 1}) = n + 1
<1> TAKE S \in SUBSET (0 .. n)
<1>1. S \cup {n + 1} \in SUBSET Nat /\ \A i \in S \cup {n + 1} : i <= n + 1
  OBVIOUS
<1> QED
  BY <1>1, MaxIs

(***************************************************************************)
(* The call, the page, the @content and the boundaries that the n-th block *)
(* of a stack is inside of.                                                *)
(***************************************************************************)
Callers == Calls \cup {"handler", "after"}

CallsAt(s, n)      == {i \in 1 .. n : s[i].kind \in Callers}
OwnAt(s, n)        == Max({0} \cup CallsAt(s, n))
PagesAt(s, n)      == {i \in OwnAt(s, n) + 1 .. n : s[i].kind = "html"}
HtmlAt(s, n)       == Max({0} \cup PagesAt(s, n))
DomainsAt(s, n)    == {i \in 1 .. n : s[i].kind = "domain"}
ContentAt(s, n)    == IF DomainsAt(s, n) = {} THEN 0
                      ELSE IF s[Max(DomainsAt(s, n))].left = 1 THEN Max(DomainsAt(s, n)) ELSE 0
KindAt(s, n, kind) == {i \in 1 .. n : s[i].kind = kind}
CountAt(s, n, kind) == Cardinality(KindAt(s, n, kind))

LEMMA OwnRange ==
    ASSUME NEW s, NEW n \in Nat
    PROVE  OwnAt(s, n) \in 0 .. n /\ OwnAt(s, n) \in {0} \cup CallsAt(s, n)
<1>1. {0} \cup CallsAt(s, n) \in SUBSET (0 .. n) /\ {0} \cup CallsAt(s, n) # {}
  BY DEF CallsAt
<1> QED
  BY <1>1, GreatestUpTo DEF OwnAt

LEMMA CountRange ==
    ASSUME NEW s, NEW n \in Nat, NEW kind
    PROVE  IsFiniteSet(KindAt(s, n, kind)) /\ CountAt(s, n, kind) \in Nat
<1>1. KindAt(s, n, kind) \subseteq 1 .. n
  BY DEF KindAt
<1>2. IsFiniteSet(1 .. n)
  BY FS_Interval
<1>3. IsFiniteSet(KindAt(s, n, kind))
  BY <1>1, <1>2, FS_Subset
<1> QED
  BY <1>3, FS_CardinalityType DEF CountAt

\* Below the blocks where two stacks are alike they give the same.
LEMMA AtAlike ==
    ASSUME NEW s, NEW t, NEW n \in Nat, Alike(s, t, n), NEW m \in 0 .. n
    PROVE  /\ OwnAt(t, m) = OwnAt(s, m) /\ HtmlAt(t, m) = HtmlAt(s, m)
           /\ ContentAt(t, m) = ContentAt(s, m)
           /\ CountAt(t, m, "unsafe") = CountAt(s, m, "unsafe")
           /\ CountAt(t, m, "job") = CountAt(s, m, "job")
<1>1. m \in Nat /\ m <= n
  OBVIOUS
<1>2. \A i \in 1 .. m :
        /\ t[i].kind \in Callers <=> s[i].kind \in Callers
        /\ \A k \in {"html", "domain", "unsafe", "job"} : t[i].kind = k <=> s[i].kind = k
        /\ s[i].kind = "domain" => t[i].left = s[i].left
  BY <1>1 DEF Alike, SameBlock, Callers, Calls
<1>3. OwnAt(t, m) = OwnAt(s, m)
  <2>1. CallsAt(t, m) = CallsAt(s, m)
    BY <1>2 DEF CallsAt
  <2> QED
    BY <2>1 DEF OwnAt
<1>4. HtmlAt(t, m) = HtmlAt(s, m)
  <2>1. OwnAt(s, m) \in 0 .. m
    BY <1>1, OwnRange
  <2>2. \A i \in OwnAt(s, m) + 1 .. m : i \in 1 .. m
    BY <1>1, <2>1
  <2>3. PagesAt(t, m) = PagesAt(s, m)
    BY <1>2, <1>3, <2>2 DEF PagesAt
  <2> QED
    BY <2>3 DEF HtmlAt
<1>5. ContentAt(t, m) = ContentAt(s, m)
  <2> DEFINE d == DomainsAt(s, m)
  <2>1. DomainsAt(t, m) = d
    BY <1>2 DEF DomainsAt
  <2>2. d \in SUBSET (0 .. m)
    BY <1>1 DEF DomainsAt
  <2>3. d # {} => Max(d) \in d
    BY <1>1, <2>2, GreatestUpTo
  <2>4. d # {} => t[Max(d)].left = s[Max(d)].left
    BY <1>2, <2>3 DEF DomainsAt
  <2> QED
    BY <2>1, <2>4 DEF ContentAt
<1>6. KindAt(t, m, "unsafe") = KindAt(s, m, "unsafe") /\ KindAt(t, m, "job") = KindAt(s, m, "job")
  BY <1>2 DEF KindAt
<1> QED
  BY <1>3, <1>4, <1>5, <1>6 DEF CountAt

\* One block more.
LEMMA AtOneMore ==
    ASSUME NEW s, NEW n \in Nat, NEW k, k = s[n + 1].kind
    PROVE  /\ k \in Callers => OwnAt(s, n + 1) = n + 1 /\ HtmlAt(s, n + 1) = 0
           /\ k \notin Callers => OwnAt(s, n + 1) = OwnAt(s, n)
           /\ k = "html" => HtmlAt(s, n + 1) = n + 1
           /\ k \notin Callers \cup {"html"} => HtmlAt(s, n + 1) = HtmlAt(s, n)
           /\ k = "domain" /\ s[n + 1].left = 1 => ContentAt(s, n + 1) = n + 1
           /\ k = "domain" /\ s[n + 1].left # 1 => ContentAt(s, n + 1) = 0
           /\ k # "domain" => ContentAt(s, n + 1) = ContentAt(s, n)
           /\ \A c \in {"unsafe", "job"} :
                /\ k = c => CountAt(s, n + 1, c) = CountAt(s, n, c) + 1
                /\ k # c => CountAt(s, n + 1, c) = CountAt(s, n, c)
<1>1. 1 .. n + 1 = (1 .. n) \cup {n + 1} /\ n + 1 \notin 1 .. n
  OBVIOUS
<1>2. k \in Callers => OwnAt(s, n + 1) = n + 1
  <2> SUFFICES ASSUME k \in Callers PROVE OwnAt(s, n + 1) = n + 1
    OBVIOUS
  <2>1. {0} \cup CallsAt(s, n + 1) = ({0} \cup CallsAt(s, n)) \cup {n + 1}
    BY <1>1 DEF CallsAt
  <2>2. {0} \cup CallsAt(s, n) \in SUBSET (0 .. n)
    BY DEF CallsAt
  <2>3. Max(({0} \cup CallsAt(s, n)) \cup {n + 1}) = n + 1
    BY <2>2, MaxNext
  <2> QED
    BY <2>1, <2>3 DEF OwnAt
<1>3. k \notin Callers => OwnAt(s, n + 1) = OwnAt(s, n)
  <2> SUFFICES ASSUME k \notin Callers PROVE OwnAt(s, n + 1) = OwnAt(s, n)
    OBVIOUS
  <2>1. CallsAt(s, n + 1) = CallsAt(s, n)
    BY <1>1 DEF CallsAt
  <2> QED
    BY <2>1 DEF OwnAt
<1> DEFINE own == OwnAt(s, n)
<1>4. own \in 0 .. n
  BY OwnRange
<1> HIDE DEF own
<1>5. own + 1 .. n + 1 = (own + 1 .. n) \cup {n + 1}
  BY <1>4
<1>6. k \in Callers => HtmlAt(s, n + 1) = 0
  <2> SUFFICES ASSUME k \in Callers PROVE HtmlAt(s, n + 1) = 0
    OBVIOUS
  <2>1. OwnAt(s, n + 1) + 1 .. n + 1 = {}
    BY <1>2
  <2>2. {0} \cup PagesAt(s, n + 1) = {0}
    BY <2>1 DEF PagesAt
  <2>3. Max({0}) = 0
    BY MaxIs
  <2> QED
    BY <2>2, <2>3 DEF HtmlAt
<1>7. k = "html" => HtmlAt(s, n + 1) = n + 1
  <2> SUFFICES ASSUME k = "html" PROVE HtmlAt(s, n + 1) = n + 1
    OBVIOUS
  <2>1. OwnAt(s, n + 1) = own
    BY <1>3 DEF own, Callers, Calls
  <2>2. {0} \cup PagesAt(s, n + 1) = ({0} \cup PagesAt(s, n)) \cup {n + 1}
    BY <1>5, <2>1 DEF PagesAt, own
  <2>3. {0} \cup PagesAt(s, n) \in SUBSET (0 .. n)
    BY <1>4 DEF PagesAt, own
  <2>4. Max(({0} \cup PagesAt(s, n)) \cup {n + 1}) = n + 1
    BY <2>3, MaxNext
  <2> QED
    BY <2>2, <2>4 DEF HtmlAt
<1>8. k \notin Callers \cup {"html"} => HtmlAt(s, n + 1) = HtmlAt(s, n)
  <2> SUFFICES ASSUME k \notin Callers, k # "html" PROVE HtmlAt(s, n + 1) = HtmlAt(s, n)
    OBVIOUS
  <2>1. OwnAt(s, n + 1) = own
    BY <1>3 DEF own
  <2>2. PagesAt(s, n + 1) = PagesAt(s, n)
    BY <1>5, <2>1 DEF PagesAt, own
  <2> QED
    BY <2>2 DEF HtmlAt
<1>9. DomainsAt(s, n) \in SUBSET (0 .. n)
  BY DEF DomainsAt
<1>10. k = "domain" => DomainsAt(s, n + 1) # {} /\ Max(DomainsAt(s, n + 1)) = n + 1
  <2> SUFFICES ASSUME k = "domain" PROVE DomainsAt(s, n + 1) # {} /\ Max(DomainsAt(s, n + 1)) = n + 1
    OBVIOUS
  <2>1. DomainsAt(s, n + 1) = DomainsAt(s, n) \cup {n + 1}
    BY <1>1 DEF DomainsAt
  <2>2. Max(DomainsAt(s, n) \cup {n + 1}) = n + 1
    BY <1>9, MaxNext
  <2> QED
    BY <2>1, <2>2
<1>11. k # "domain" => ContentAt(s, n + 1) = ContentAt(s, n)
  <2> SUFFICES ASSUME k # "domain" PROVE ContentAt(s, n + 1) = ContentAt(s, n)
    OBVIOUS
  <2>1. DomainsAt(s, n + 1) = DomainsAt(s, n)
    BY <1>1 DEF DomainsAt
  <2> QED
    BY <2>1 DEF ContentAt
<1>12. ASSUME NEW c
       PROVE  /\ k = c => CountAt(s, n + 1, c) = CountAt(s, n, c) + 1
              /\ k # c => CountAt(s, n + 1, c) = CountAt(s, n, c)
  <2>1. CASE k = c
    <3>1. KindAt(s, n + 1, c) = KindAt(s, n, c) \cup {n + 1} /\ n + 1 \notin KindAt(s, n, c)
      BY <1>1, <2>1 DEF KindAt
    <3> QED
      BY <2>1, <3>1, CountRange, FS_AddElement DEF CountAt
  <2>2. CASE k # c
    <3>1. KindAt(s, n + 1, c) = KindAt(s, n, c)
      BY <1>1, <2>2 DEF KindAt
    <3> QED
      BY <2>2, <3>1 DEF CountAt
  <2> QED
    BY <2>1, <2>2
<1>13. k = "domain" /\ s[n + 1].left = 1 => ContentAt(s, n + 1) = n + 1
  BY <1>10 DEF ContentAt
<1>14. k = "domain" /\ s[n + 1].left # 1 => ContentAt(s, n + 1) = 0
  BY <1>10 DEF ContentAt
<1> QED
  BY <1>2, <1>3, <1>6, <1>7, <1>8, <1>11, <1>12, <1>13, <1>14

(***************************************************************************)
(* The invariant of the fields.  A call keeps the variables and the page   *)
(* of its caller, a page the page around it, unless the caller has         *)
(* swallowed an error; a domain call keeps the slot it replaced.  While no *)
(* error is under way the fields are those of the innermost block.         *)
(***************************************************************************)
Rooted(s) == \A i \in 1 .. Len(s) : s[i].kind \in {"handler", "after"} <=> i = 1

\* The variables v and the page p are those of the n-th block's call.
Fits(s, n, v, p) == s[OwnAt(s, n)].dirty \/ (v = OwnAt(s, n) /\ p = HtmlAt(s, n))

PageFits(s, n, p) == s[OwnAt(s, n)].dirty \/ p = HtmlAt(s, n)

KeepFits(s, n, b) ==
    /\ b.kind = "domain" => b.keep.content = ContentAt(s, n)
    /\ b.kind \in Calls  => Fits(s, n, b.keep.env, b.keep.html)
    /\ b.kind = "html"   => PageFits(s, n, b.keep.html)

KeepsFit(s) == \A i \in 1 .. Len(s) : KeepFits(s, i - 1, s[i])

Slots ==
    /\ content = ContentAt(stack, Len(stack))
    /\ unsafe = CountAt(stack, Len(stack), "unsafe")
    /\ scopes = CountAt(stack, Len(stack), "job")

Located == stack # <<>> => Fits(stack, Len(stack), env, html)

Context ==
    /\ IsStack(stack) /\ Rooted(stack) /\ KeepsFit(stack)
    /\ Slots
    /\ mode # "error" => Located

LEMMA NotEmpty ==
    ASSUME NEW s, IsStack(s)
    PROVE  /\ s # <<>> <=> Len(s) > 0
           /\ s = <<>> <=> Len(s) = 0
BY DEF IsStack

LEMMA OwnIsThere ==
    ASSUME NEW s, IsStack(s), Rooted(s), NEW n \in 1 .. Len(s)
    PROVE  OwnAt(s, n) \in 1 .. n
<1>1. Len(s) \in Nat /\ n \in Nat /\ 1 \in 1 .. n /\ 1 \in 1 .. Len(s)
  BY LengthIs
<1>2. 1 \in CallsAt(s, n)
  BY <1>1 DEF Rooted, CallsAt, Callers
<1>3. {0} \cup CallsAt(s, n) \in SUBSET (0 .. n) /\ {0} \cup CallsAt(s, n) # {}
  BY DEF CallsAt
<1>4. OwnAt(s, n) \in 0 .. n /\ 1 <= OwnAt(s, n)
  BY <1>1, <1>2, <1>3, GreatestUpTo DEF OwnAt
<1> QED
  BY <1>1, <1>4

\* A stack that is alike up to its n-th block is as good up to there.
LEMMA FitsAlike ==
    ASSUME NEW s, IsStack(s), Rooted(s), NEW t, NEW n \in Nat, Alike(s, t, n), NEW m \in 1 .. n, NEW v, NEW p
    PROVE  /\ Fits(s, m, v, p) => Fits(t, m, v, p)
           /\ PageFits(s, m, p) => PageFits(t, m, p)
<1>1. m \in 0 .. n /\ m \in 1 .. Len(s)
  BY LengthIs DEF Alike
<1>2. OwnAt(t, m) = OwnAt(s, m) /\ HtmlAt(t, m) = HtmlAt(s, m)
  BY <1>1, AtAlike
<1>3. OwnAt(s, m) \in 1 .. m
  BY <1>1, OwnIsThere
<1> DEFINE o == OwnAt(s, m)
<1>4. o \in 1 .. n /\ s[o].kind \in Callers
  <2>1. o \in {0} \cup CallsAt(s, m)
    BY <1>1, OwnRange
  <2> QED
    BY <1>1, <1>3, <2>1 DEF CallsAt
<1> HIDE DEF o
<1>5. s[o].dirty => t[o].dirty
  BY <1>4 DEF Alike, SameBlock, Callers, Calls
<1> QED
  BY <1>2, <1>5 DEF Fits, PageFits, o

LEMMA KeepsAlike ==
    ASSUME NEW s, IsStack(s), Rooted(s), KeepsFit(s), NEW t, NEW n \in Nat, Alike(s, t, n)
    PROVE  /\ \A i \in 1 .. n : KeepFits(t, i - 1, t[i])
           /\ \A i \in 1 .. n : t[i].kind \in {"handler", "after"} <=> i = 1
<1>1. n <= Len(s) /\ Len(s) \in Nat
  BY LengthIs DEF Alike
<1>2. \A i \in 1 .. n : i \in 1 .. Len(s) /\ SameBlock(s[i], t[i])
  BY <1>1 DEF Alike
<1>3. \A i \in 1 .. n : t[i].kind \in {"handler", "after"} <=> i = 1
  BY <1>2 DEF SameBlock, Rooted
<1>4. ASSUME NEW i \in 1 .. n PROVE KeepFits(t, i - 1, t[i])
  <2>1. KeepFits(s, i - 1, s[i])
    BY <1>2 DEF KeepsFit
  <2>2. t[i].kind \in Calls \cup {"html"} => t[i].kind = s[i].kind /\ t[i].keep = s[i].keep
    BY <1>2 DEF SameBlock, Calls
  <2>3. CASE i = 1
    BY <1>3, <2>3 DEF KeepFits, Calls
  <2>4. CASE i # 1
    <3> DEFINE m == i - 1
    <3>1. m \in 1 .. n /\ m \in 0 .. n
      BY <2>4
    <3> HIDE DEF m
    <3>2. ContentAt(t, m) = ContentAt(s, m)
      BY <3>1, AtAlike
    <3>3. \A v, p : /\ Fits(s, m, v, p) => Fits(t, m, v, p)
                    /\ PageFits(s, m, p) => PageFits(t, m, p)
      BY <3>1, FitsAlike
    <3>4. KeepFits(s, m, s[i])
      BY <2>1 DEF m
    <3>5. KeepFits(t, m, t[i])
      BY <2>2, <3>2, <3>3, <3>4 DEF KeepFits, Calls
    <3> QED
      BY <3>5 DEF m
  <2> QED
    BY <2>3, <2>4
<1> QED
  BY <1>3, <1>4

LEMMA OwnIsMax ==
    ASSUME IsStack(stack), Rooted(stack), stack # <<>>
    PROVE  /\ Own = OwnAt(stack, Len(stack)) /\ Own \in 1 .. Len(stack)
           /\ OwnHtml = HtmlAt(stack, Len(stack))
<1> DEFINE n == Len(stack)
           m == OwnAt(stack, n)
<1>1. n \in Nat /\ n \in 1 .. n /\ DOMAIN stack = 1 .. n
  BY NotEmpty DEF IsStack
<1>2. m \in 1 .. n
  BY <1>1, OwnIsThere
<1>3. m \in CallsAt(stack, n)
  BY <1>1, <1>2, OwnRange
<1>4. \A i \in CallsAt(stack, n) : i <= m
  <2>1. {0} \cup CallsAt(stack, n) \in SUBSET (0 .. n) /\ {0} \cup CallsAt(stack, n) # {}
    BY DEF CallsAt
  <2> QED
    BY <1>1, <2>1, GreatestUpTo DEF OwnAt
<1>5. Own = Max(CallsAt(stack, n))
  BY <1>1 DEF Own, CallsAt, Callers, Calls
<1>6. CallsAt(stack, n) \in SUBSET Nat
  BY DEF CallsAt
<1> HIDE DEF m
<1>7. Own = m
  BY <1>3, <1>4, <1>5, <1>6, MaxIs
<1> QED
  BY <1>2, <1>7 DEF m, OwnHtml, HtmlAt, PagesAt

\* One block more: what it keeps is what is in force.
LEMMA KeepsAbove ==
    ASSUME NEW s, IsStack(s), Rooted(s), KeepsFit(s), Len(s) > 0, NEW t, Pushed(s, t),
           NEW b, b = t[Len(s) + 1], b.kind \notin {"handler", "after"}, KeepFits(s, Len(s), b)
    PROVE  Rooted(t) /\ KeepsFit(t)
<1> DEFINE n == Len(s)
<1>1. n \in Nat /\ n > 0 /\ Len(t) = n + 1 /\ Alike(s, t, n) /\ n \in 1 .. n /\ n \in 0 .. n
  BY LengthIs DEF Pushed
<1>2. /\ \A i \in 1 .. n : KeepFits(t, i - 1, t[i])
      /\ \A i \in 1 .. n : t[i].kind \in {"handler", "after"} <=> i = 1
  BY <1>1, KeepsAlike
<1>3. ContentAt(t, n) = ContentAt(s, n)
  BY <1>1, AtAlike
<1>4. \A v, p : /\ Fits(s, n, v, p) => Fits(t, n, v, p)
                /\ PageFits(s, n, p) => PageFits(t, n, p)
  BY <1>1, FitsAlike
<1>5. KeepFits(t, n, b)
  BY <1>3, <1>4 DEF KeepFits
<1>6. b = t[n + 1] /\ b.kind \notin {"handler", "after"}
  OBVIOUS
<1> HIDE DEF n
<1>7. \A i \in 1 .. n + 1 : i \in 1 .. n \/ (i = n + 1 /\ i # 1 /\ i - 1 = n)
  BY <1>1
<1>8. \A i \in 1 .. n + 1 : KeepFits(t, i - 1, t[i])
  BY <1>2, <1>5, <1>6, <1>7
<1>9. \A i \in 1 .. n + 1 : t[i].kind \in {"handler", "after"} <=> i = 1
  BY <1>2, <1>6, <1>7
<1> QED
  BY <1>1, <1>8, <1>9 DEF Rooted, KeepsFit

LEMMA KeepsBelow ==
    ASSUME NEW s, IsStack(s), Rooted(s), KeepsFit(s), NEW t, Marked(s, t) \/ Popped(s, t)
    PROVE  Rooted(t) /\ KeepsFit(t)
<1>1. Len(t) \in Nat /\ Alike(s, t, Len(t))
  BY LengthIs DEF Marked, Popped
<1> QED
  BY <1>1, KeepsAlike DEF Rooted, KeepsFit

\* The step leaves the blocks as they are.
LEMMA ContextMarked ==
    ASSUME Context, Marked(stack, stack'), UNCHANGED fields,
           mode = "error" => mode' = "error"
    PROVE  Context'
<1> DEFINE n == Len(stack)
<1>1. IsStack(stack) /\ Rooted(stack) /\ KeepsFit(stack) /\ Slots /\ n \in Nat
  BY LengthIs DEF Context
<1>2. IsStack(stack') /\ Len(stack') = n /\ Alike(stack, stack', n)
  BY DEF Marked
<1>3. Rooted(stack') /\ KeepsFit(stack')
  BY <1>1, KeepsBelow
<1>4. Slots'
  <2>1. n \in 0 .. n
    BY <1>1
  <2>2. /\ ContentAt(stack', n) = ContentAt(stack, n)
        /\ CountAt(stack', n, "unsafe") = CountAt(stack, n, "unsafe")
        /\ CountAt(stack', n, "job") = CountAt(stack, n, "job")
    BY <1>1, <1>2, <2>1, AtAlike
  <2> QED
    BY <1>1, <1>2, <2>2 DEF Slots, fields
<1>5. ASSUME mode' # "error" PROVE Located'
  <2> SUFFICES ASSUME stack' # <<>> PROVE Fits(stack', n, env, html)
    BY <1>2 DEF Located, fields
  <2>1. n > 0
    BY <1>2, NotEmpty
  <2>2. stack # <<>> /\ n \in 1 .. n
    BY <1>1, <2>1, NotEmpty
  <2>3. Fits(stack, n, env, html)
    BY <1>5, <2>2 DEF Context, Located
  <2> QED
    BY <1>1, <1>2, <2>2, <2>3, FitsAlike
<1> QED
  BY <1>2, <1>3, <1>4, <1>5 DEF Context

\* The fields of the block below the one on top, as the step leaves them.
LEMMA ContextPopped ==
    ASSUME Context, Popped(stack, stack'), NEW n, n = Len(stack) - 1,
           content' = ContentAt(stack, n),
           unsafe' = CountAt(stack, n, "unsafe"),
           scopes' = CountAt(stack, n, "job"),
           mode' # "error" /\ n > 0 => Fits(stack, n, env', html') \/ Fits(stack', n, env', html')
    PROVE  Context'
<1>1. IsStack(stack) /\ Rooted(stack) /\ KeepsFit(stack) /\ n \in Nat
  BY LengthIs DEF Context, Popped
<1>2. IsStack(stack') /\ Len(stack') = n /\ Alike(stack, stack', n)
  BY DEF Popped
<1>3. Rooted(stack') /\ KeepsFit(stack')
  BY <1>1, KeepsBelow
<1>4. Slots'
  <2>1. n \in 0 .. n
    BY <1>1
  <2>2. /\ ContentAt(stack', n) = ContentAt(stack, n)
        /\ CountAt(stack', n, "unsafe") = CountAt(stack, n, "unsafe")
        /\ CountAt(stack', n, "job") = CountAt(stack, n, "job")
    BY <1>1, <1>2, <2>1, AtAlike
  <2> QED
    BY <1>2, <2>2 DEF Slots
<1>5. ASSUME mode' # "error" PROVE Located'
  <2> SUFFICES ASSUME stack' # <<>> PROVE Fits(stack', n, env', html')
    BY <1>2 DEF Located
  <2>1. n > 0 /\ n \in 1 .. n
    BY <1>1, <1>2, NotEmpty
  <2> QED
    BY <1>1, <1>2, <1>5, <2>1, FitsAlike
<1> QED
  BY <1>2, <1>3, <1>4, <1>5 DEF Context

\* The fields as they are for the block on top, and for the one below.
LEMMA TopIs ==
    ASSUME Context, stack # <<>>, NEW n, n = Len(stack) - 1
    PROVE  /\ n \in Nat /\ Top = stack[n + 1] /\ n + 1 = Len(stack) /\ KeepFits(stack, n, Top)
           /\ Top.kind \in {"handler", "after"} => n = 0
           /\ Top.kind \in Calls => n > 0
           /\ Top.kind # "domain" => content = ContentAt(stack, n)
           /\ Top.kind # "unsafe" => unsafe = CountAt(stack, n, "unsafe")
           /\ Top.kind = "unsafe" => unsafe - 1 = CountAt(stack, n, "unsafe")
           /\ Top.kind # "job" => scopes = CountAt(stack, n, "job")
           /\ Top.kind = "job" => scopes - 1 = CountAt(stack, n, "job")
           /\ Top.kind \notin Callers => OwnAt(stack, n) = OwnAt(stack, n + 1)
           /\ Top.kind \notin Callers \cup {"html"} => HtmlAt(stack, n) = HtmlAt(stack, n + 1)
<1>1. IsStack(stack) /\ Rooted(stack) /\ KeepsFit(stack) /\ Slots
  BY DEF Context
<1>2. Len(stack) \in Nat /\ Len(stack) > 0
  BY <1>1, NotEmpty, LengthIs
<1>3. n \in Nat /\ Top = stack[n + 1] /\ n + 1 = Len(stack)
  BY <1>2 DEF Top
<1>4. n + 1 \in 1 .. Len(stack) /\ n + 1 - 1 = n
  BY <1>2, <1>3
<1>5. KeepFits(stack, n, Top)
  BY <1>1, <1>3, <1>4 DEF KeepsFit
<1>6. Top.kind \in {"handler", "after"} <=> n = 0
  <2>1. Top.kind \in {"handler", "after"} <=> n + 1 = 1
    BY <1>1, <1>3, <1>4 DEF Rooted
  <2> QED
    BY <1>3, <2>1
<1>7. Top.kind \in Calls => n > 0
  BY <1>3, <1>6, <1>1, <1>4 DEF Calls, Rooted
<1>8. CountAt(stack, n, "unsafe") \in Nat /\ CountAt(stack, n, "job") \in Nat
  BY <1>3, CountRange
<1>9. /\ content = ContentAt(stack, n + 1)
      /\ unsafe = CountAt(stack, n + 1, "unsafe")
      /\ scopes = CountAt(stack, n + 1, "job")
  BY <1>1, <1>3 DEF Slots
<1>10. /\ Top.kind \notin Callers => OwnAt(stack, n + 1) = OwnAt(stack, n)
       /\ Top.kind \notin Callers \cup {"html"} => HtmlAt(stack, n + 1) = HtmlAt(stack, n)
       /\ Top.kind # "domain" => ContentAt(stack, n + 1) = ContentAt(stack, n)
       /\ \A c \in {"unsafe", "job"} :
            /\ Top.kind = c => CountAt(stack, n + 1, c) = CountAt(stack, n, c) + 1
            /\ Top.kind # c => CountAt(stack, n + 1, c) = CountAt(stack, n, c)
  BY <1>3, AtOneMore
<1> QED
  BY <1>3, <1>5, <1>6, <1>7, <1>8, <1>9, <1>10

\* The step enters a block, and the fields are set for it.
LEMMA ContextGrows ==
    ASSUME Context, stack # <<>>, mode # "error",
           NEW kind \in BlockKinds \ {"handler", "after"}, NEW left \in Nat, Grows(kind, left),
           kind # "domain" => content' = content,
           kind = "domain" /\ left = 1 => content' = Len(stack) + 1,
           kind = "domain" /\ left # 1 => content' = 0,
           unsafe' = IF kind = "unsafe" THEN unsafe + 1 ELSE unsafe,
           scopes' = IF kind = "job" THEN scopes + 1 ELSE scopes,
           kind \notin Calls => env' = env,
           kind \notin Calls \cup {"html"} => html' = html,
           kind \in Calls => env' = Len(stack) + 1 /\ html' = 0,
           kind = "html" => html' = Len(stack) + 1
    PROVE  Context'
<1> DEFINE n == Len(stack)
           t == stack'
           b == t[n + 1]
<1>1. IsStack(stack) /\ Rooted(stack) /\ KeepsFit(stack) /\ Slots
  BY DEF Context
<1>2. n \in Nat /\ n > 0 /\ n \in 1 .. n /\ n \in 0 .. n
  BY <1>1, NotEmpty, LengthIs
<1>3. IsStack(t) /\ Len(t) = n + 1 /\ Alike(stack, t, n) /\ Pushed(stack, t)
  BY DEF Grows, Pushed
<1>4. b.kind = kind /\ b.left = left /\ b.keep = Keep(kind)
  BY DEF Grows, Block
<1>5. Fits(stack, n, env, html)
  BY DEF Context, Located
<1>6. KeepFits(stack, n, b)
  <2>1. ASSUME kind \in Calls PROVE b.keep.env = env /\ b.keep.html = html /\ b.keep.content = content
    <3>1. Keep(kind) = [env |-> env, html |-> html, ret |-> ret, loop |-> loop, content |-> content]
      BY <2>1 DEF Keep, Calls
    <3> HIDE DEF b
    <3> QED
      BY <1>4, <3>1
  <2>2. ASSUME kind = "html" PROVE b.keep.html = html
    <3>1. Keep(kind) = [html |-> html]
      BY <2>2 DEF Keep, Calls
    <3> HIDE DEF b
    <3> QED
      BY <1>4, <3>1
  <2>3. content = ContentAt(stack, n)
    BY <1>1 DEF Slots
  <2> HIDE DEF b, n
  <2> QED
    BY <1>4, <1>5, <2>1, <2>2, <2>3 DEF KeepFits, Fits, PageFits, Calls
<1>7. Rooted(t) /\ KeepsFit(t)
  <2>1. b.kind \notin {"handler", "after"}
    BY <1>4
  <2> QED
    BY <1>1, <1>2, <1>3, <1>6, <2>1, KeepsAbove
<1>8. /\ OwnAt(t, n) = OwnAt(stack, n) /\ HtmlAt(t, n) = HtmlAt(stack, n)
      /\ ContentAt(t, n) = ContentAt(stack, n)
      /\ CountAt(t, n, "unsafe") = CountAt(stack, n, "unsafe")
      /\ CountAt(t, n, "job") = CountAt(stack, n, "job")
  BY <1>2, <1>3, AtAlike
<1>9. Fits(t, n, env, html)
  BY <1>1, <1>2, <1>3, <1>5, FitsAlike
<1>10. /\ kind \in Callers => OwnAt(t, n + 1) = n + 1 /\ HtmlAt(t, n + 1) = 0
       /\ kind \notin Callers => OwnAt(t, n + 1) = OwnAt(t, n)
       /\ kind = "html" => HtmlAt(t, n + 1) = n + 1
       /\ kind \notin Callers \cup {"html"} => HtmlAt(t, n + 1) = HtmlAt(t, n)
       /\ kind = "domain" /\ left = 1 => ContentAt(t, n + 1) = n + 1
       /\ kind = "domain" /\ left # 1 => ContentAt(t, n + 1) = 0
       /\ kind # "domain" => ContentAt(t, n + 1) = ContentAt(t, n)
       /\ \A c \in {"unsafe", "job"} :
            /\ kind = c => CountAt(t, n + 1, c) = CountAt(t, n, c) + 1
            /\ kind # c => CountAt(t, n + 1, c) = CountAt(t, n, c)
  <2>1. kind = t[n + 1].kind /\ left = t[n + 1].left /\ n \in Nat
    BY <1>2, <1>4
  <2> HIDE DEF t, n, b
  <2> QED
    BY ONLY <2>1, AtOneMore
<1> HIDE DEF t, n, b
<1>11. Slots'
  <2>1. /\ content = ContentAt(stack, n) /\ unsafe = CountAt(stack, n, "unsafe")
        /\ scopes = CountAt(stack, n, "job")
    BY <1>1 DEF Slots, n
  <2>2. content' = ContentAt(t, n + 1)
    BY <1>8, <1>10, <2>1 DEF n
  <2>3. unsafe' = CountAt(t, n + 1, "unsafe")
    BY <1>8, <1>10, <2>1
  <2>4. scopes' = CountAt(t, n + 1, "job")
    BY <1>8, <1>10, <2>1
  <2> QED
    BY <1>3, <2>2, <2>3, <2>4 DEF Slots, t
<1>12. Fits(t, n + 1, env', html')
  <2>1. CASE kind \in Calls
    BY <1>10, <2>1 DEF Fits, Callers, n
  <2>2. CASE kind = "html"
    <3>1. OwnAt(t, n + 1) = OwnAt(t, n) /\ HtmlAt(t, n + 1) = n + 1 /\ env' = env /\ html' = n + 1
      BY <1>10, <2>2 DEF Callers, Calls, n
    <3> QED
      BY <1>9, <3>1 DEF Fits
  <2>3. CASE kind \notin Calls \cup {"html"}
    <3>1. OwnAt(t, n + 1) = OwnAt(t, n) /\ HtmlAt(t, n + 1) = HtmlAt(t, n) /\ env' = env /\ html' = html
      BY <1>10, <2>3 DEF Callers
    <3> QED
      BY <1>9, <3>1 DEF Fits
  <2> QED
    BY <2>1, <2>2, <2>3
<1> QED
  BY <1>3, <1>7, <1>11, <1>12 DEF Context, Located, t

\* A block with a boundary of its own ends, and what it set is taken back.
LEMMA ContextTakenBack ==
    ASSUME Context, EndCall \/ EndHtml \/ EndUnsafe \/ EndJob
    PROVE  Context'
<1> DEFINE n == Len(stack) - 1
<1>1. stack' = Below /\ stack # <<>> /\ mode = "end"
  BY DEF EndCall, EndHtml, EndUnsafe, EndJob, Ends, Leave, LeaveTo
<1>2. IsStack(stack) /\ Popped(stack, stack')
  BY <1>1, LeaveShrinks DEF Context
<1>3. /\ n \in Nat /\ n + 1 = Len(stack) /\ KeepFits(stack, n, Top)
      /\ Top.kind # "domain" => content = ContentAt(stack, n)
      /\ Top.kind # "unsafe" => unsafe = CountAt(stack, n, "unsafe")
      /\ Top.kind = "unsafe" => unsafe - 1 = CountAt(stack, n, "unsafe")
      /\ Top.kind # "job" => scopes = CountAt(stack, n, "job")
      /\ Top.kind = "job" => scopes - 1 = CountAt(stack, n, "job")
      /\ Top.kind \notin Callers => OwnAt(stack, n) = OwnAt(stack, n + 1)
      /\ Top.kind \notin Callers \cup {"html"} => HtmlAt(stack, n) = HtmlAt(stack, n + 1)
  BY <1>1, TopIs
<1>4. Fits(stack, n + 1, env, html)
  BY <1>1, <1>3 DEF Context, Located
<1> HIDE DEF n
<1>5. CASE EndCall
  <2>1. /\ Top.kind \in Calls /\ env' = Top.keep.env /\ html' = Top.keep.html
        /\ Top.kind = "domain" => content' = Top.keep.content
        /\ Top.kind # "domain" => content' = content
        /\ unsafe' = unsafe /\ scopes' = scopes
    BY <1>5 DEF EndCall, Ends, EnvAfter
  <2>2. Fits(stack, n, env', html') /\ content' = ContentAt(stack, n)
    BY <1>3, <2>1 DEF KeepFits
  <2>3. unsafe' = CountAt(stack, n, "unsafe") /\ scopes' = CountAt(stack, n, "job")
    BY <1>3, <2>1 DEF Calls
  <2> QED
    BY <1>2, <2>2, <2>3, ContextPopped DEF n
<1>6. CASE EndHtml
  <2>1. Top.kind = "html" /\ html' = Top.keep.html /\ UNCHANGED <<env, content, unsafe, scopes>>
    BY <1>6 DEF EndHtml, Ends
  <2>2. PageFits(stack, n, html') /\ OwnAt(stack, n) = OwnAt(stack, n + 1)
    BY <1>3, <2>1 DEF KeepFits, Callers, Calls
  <2>3. Fits(stack, n, env', html')
    BY <1>4, <2>1, <2>2 DEF Fits, PageFits
  <2>4. /\ content' = ContentAt(stack, n)
        /\ unsafe' = CountAt(stack, n, "unsafe") /\ scopes' = CountAt(stack, n, "job")
    BY <1>3, <2>1
  <2> QED
    BY <1>2, <2>3, <2>4, ContextPopped DEF n
<1>7. CASE EndUnsafe \/ EndJob
  <2>1. /\ UNCHANGED <<env, html, content>>
        /\ \/ Top.kind = "unsafe" /\ unsafe' = unsafe - 1 /\ scopes' = scopes
           \/ Top.kind = "job" /\ unsafe' = unsafe /\ scopes' = scopes - 1
    BY <1>7 DEF EndUnsafe, EndJob, Ends
  <2>2. Fits(stack, n, env', html')
    <3>1. Top.kind \notin Callers \cup {"html"}
      BY <2>1 DEF Callers, Calls
    <3> QED
      BY <1>3, <1>4, <2>1, <3>1 DEF Fits
  <2>3. /\ content' = ContentAt(stack, n)
        /\ unsafe' = CountAt(stack, n, "unsafe") /\ scopes' = CountAt(stack, n, "job")
    BY <1>3, <2>1
  <2> QED
    BY <1>2, <2>2, <2>3, ContextPopped DEF n
<1> QED
  BY <1>5, <1>6, <1>7

\* An error leaves a block: the slots are taken back, if not the variables.
LEMMA ContextError ==
    ASSUME Context, \/ ErrorPasses \/ ErrorPassesCall \/ FailCron \/ RollBack
                    \/ ErrorPassesDomain \/ ErrorPassesHtml \/ ErrorPassesUnsafe
    PROVE  Context'
<1> DEFINE n == Len(stack) - 1
<1>1. (stack' = Below \/ CallFailed) /\ stack # <<>> /\ mode' = "error"
  BY DEF ErrorPasses, ErrorPassesCall, FailCron, RollBack, ErrorPassesDomain, ErrorPassesHtml,
     ErrorPassesUnsafe, Passes
<1>2. IsStack(stack) /\ Popped(stack, stack')
  BY <1>1, LeaveShrinks, CallFails DEF Context
<1>3. /\ KeepFits(stack, n, Top)
      /\ Top.kind # "domain" => content = ContentAt(stack, n)
      /\ Top.kind # "unsafe" => unsafe = CountAt(stack, n, "unsafe")
      /\ Top.kind = "unsafe" => unsafe - 1 = CountAt(stack, n, "unsafe")
      /\ Top.kind # "job" => scopes = CountAt(stack, n, "job")
  BY <1>1, TopIs
<1> HIDE DEF n
<1>4. /\ scopes' = scopes /\ Top.kind # "job"
      /\ \/ Top.kind \notin {"domain", "unsafe"} /\ content' = content /\ unsafe' = unsafe
         \/ Top.kind = "domain" /\ content' = Top.keep.content /\ unsafe' = unsafe
         \/ Top.kind = "unsafe" /\ content' = content /\ unsafe' = unsafe - 1
  BY DEF ErrorPasses, ErrorPassesCall, FailCron, RollBack, ErrorPassesDomain, ErrorPassesHtml,
     ErrorPassesUnsafe, Passes, UnsafeAfterError, fields
<1>5. /\ content' = ContentAt(stack, n)
      /\ unsafe' = CountAt(stack, n, "unsafe") /\ scopes' = CountAt(stack, n, "job")
  BY <1>3, <1>4 DEF KeepFits
<1> QED
  BY <1>1, <1>2, <1>5, ContextPopped DEF n

\* An error is caught: code goes on where the error found the variables and
\* the page, or in a call that is noted for it.
LEMMA ContextRecovers ==
    ASSUME Context, Catch \/ RetryJob \/ FailJob
    PROVE  Context'
<1> DEFINE n == Len(stack)
<1>1. /\ Marked(stack, stack') \/ Popped(stack, stack')
      /\ UNCHANGED <<env, html, content, unsafe>> /\ stack # <<>>
      /\ Catch \/ RetryJob => Marked(stack, stack') /\ scopes' = scopes
      /\ FailJob => Popped(stack, stack') /\ Top.kind = "job" /\ scopes' = scopes - 1
      /\ \A i \in 1 .. Len(stack') : i = Own /\ (env # Own \/ html # OwnHtml) => stack'[i].dirty
      /\ IsStack(stack) /\ Rooted(stack) /\ KeepsFit(stack) /\ Slots
  BY Recovers DEF Context
<1>2. Own = OwnAt(stack, n) /\ Own \in 1 .. n /\ OwnHtml = HtmlAt(stack, n)
  BY <1>1, OwnIsMax
<1>3. n \in Nat /\ n > 0
  BY <1>1, NotEmpty, LengthIs
<1>4. CASE Catch \/ RetryJob
  <2>1. IsStack(stack') /\ Len(stack') = n /\ Alike(stack, stack', n) /\ Marked(stack, stack')
    BY <1>1, <1>4 DEF Marked
  <2>2. Rooted(stack') /\ KeepsFit(stack')
    BY <1>1, <2>1, KeepsBelow
  <2>3. n \in 0 .. n
    BY <1>3
  <2>4. /\ OwnAt(stack', n) = OwnAt(stack, n) /\ HtmlAt(stack', n) = HtmlAt(stack, n)
        /\ ContentAt(stack', n) = ContentAt(stack, n)
        /\ CountAt(stack', n, "unsafe") = CountAt(stack, n, "unsafe")
        /\ CountAt(stack', n, "job") = CountAt(stack, n, "job")
    BY <1>3, <2>1, <2>3, AtAlike
  <2>5. Slots'
    BY <1>1, <1>4, <2>1, <2>4 DEF Slots
  <2>6. Fits(stack', n, env', html')
    BY <1>1, <1>2, <2>1, <2>4 DEF Fits
  <2> QED
    BY <2>1, <2>2, <2>5, <2>6 DEF Context, Located
<1>5. CASE FailJob
  <2> DEFINE m == n - 1
  <2>1. /\ m + 1 = n /\ m \in Nat
        /\ Top.kind # "domain" => content = ContentAt(stack, m)
        /\ Top.kind # "unsafe" => unsafe = CountAt(stack, m, "unsafe")
        /\ Top.kind = "job" => scopes - 1 = CountAt(stack, m, "job")
        /\ Top.kind \notin Callers => OwnAt(stack, m) = OwnAt(stack, m + 1)
        /\ Top.kind \notin Callers \cup {"html"} => HtmlAt(stack, m) = HtmlAt(stack, m + 1)
    BY <1>1, TopIs
  <2>2. Top.kind = "job" /\ scopes' = scopes - 1 /\ Popped(stack, stack')
    BY <1>1, <1>5
  <2>3. "job" \notin Callers \cup {"html"}
    BY DEF Callers, Calls
  <2> HIDE DEF m
  <2>4. OwnAt(stack, m) = Own /\ HtmlAt(stack, m) = OwnHtml
    BY <1>2, <2>1, <2>2, <2>3
  <2>5. Len(stack') = m /\ Alike(stack, stack', m) /\ m \in 0 .. m
    BY <2>1, <2>2 DEF Popped, m
  <2>6. OwnAt(stack', m) = Own /\ HtmlAt(stack', m) = OwnHtml
    BY <2>1, <2>4, <2>5, AtAlike
  <2>7. m > 0 => Fits(stack', m, env', html')
    <3> SUFFICES ASSUME m > 0 PROVE Fits(stack', m, env', html')
      OBVIOUS
    <3>1. m \in 1 .. Len(stack)
      BY <2>1
    <3>2. Own \in 1 .. m
      BY <1>1, <2>4, <3>1, OwnIsThere
    <3> QED
      BY <1>1, <2>5, <2>6, <3>2 DEF Fits
  <2> QED
    BY <1>1, <2>1, <2>2, <2>7, ContextPopped DEF m
<1> QED
  BY <1>4, <1>5

\* The handler's stack is gone, or holds an @after block in its place.
LEMMA ContextAfresh ==
    ASSUME Context, EndBody \/ Fail
    PROVE  Context'
<1>1. /\ IsStack(stack') /\ stack # <<>> /\ Top.kind \in {"handler", "after"} /\ UNCHANGED fields
      /\ \/ stack' = <<>>
         \/ /\ mode = "end" /\ Len(stack') = 1 /\ stack'[1].kind = "after" /\ stack'[1].dirty = Top.dirty
  BY HandlerEnds DEF Context
<1>2. Len(stack) = 1 /\ Top = stack[1]
  <2> DEFINE n == Len(stack) - 1
  <2>1. n = 0 /\ Top = stack[n + 1] /\ n + 1 = Len(stack)
    BY <1>1, TopIs
  <2> HIDE DEF n
  <2>2. n + 1 = 1
    BY <2>1
  <2> QED
    BY <2>1, <2>2
<1>3. ContentAt(stack, 0) = 0 /\ \A s, kind : ContentAt(s, 0) = 0 /\ CountAt(s, 0, kind) = 0
  <2>1. 1 .. 0 = {}
    OBVIOUS
  <2>2. \A s, kind : DomainsAt(s, 0) = {} /\ KindAt(s, 0, kind) = {}
    BY <2>1 DEF DomainsAt, KindAt
  <2> QED
    BY <2>2, FS_EmptySet DEF ContentAt, CountAt
<1>4. content = 0 /\ unsafe = 0 /\ scopes = 0
  <2> DEFINE n == Len(stack) - 1
  <2>1. /\ Top.kind # "domain" => content = ContentAt(stack, n)
        /\ Top.kind # "unsafe" => unsafe = CountAt(stack, n, "unsafe")
        /\ Top.kind # "job" => scopes = CountAt(stack, n, "job")
    BY <1>1, TopIs
  <2>2. n = 0
    BY <1>2
  <2> HIDE DEF n
  <2> QED
    BY <1>1, <1>3, <2>1, <2>2
<1>5. CASE stack' = <<>>
  <2>1. Len(stack') = 0
    BY <1>5
  <2> QED
    BY <1>1, <1>3, <1>4, <1>5, <2>1 DEF Context, Rooted, KeepsFit, Slots, Located, fields
<1>6. CASE /\ mode = "end" /\ Len(stack') = 1 /\ stack'[1].kind = "after" /\ stack'[1].dirty = Top.dirty
  <2>1. \A i \in 1 .. 1 : i = 1
    OBVIOUS
  <2>2. Rooted(stack') /\ KeepsFit(stack')
    BY <1>6, <2>1 DEF Rooted, KeepsFit, KeepFits, Calls
  <2>3. \A s : s[1].kind \in {"handler", "after"} =>
          /\ OwnAt(s, 1) = 1 /\ HtmlAt(s, 1) = 0 /\ ContentAt(s, 1) = 0
          /\ CountAt(s, 1, "unsafe") = 0 /\ CountAt(s, 1, "job") = 0
    <3> TAKE s
    <3> SUFFICES ASSUME s[1].kind \in {"handler", "after"}
                 PROVE  /\ OwnAt(s, 1) = 1 /\ HtmlAt(s, 1) = 0 /\ ContentAt(s, 1) = 0
                        /\ CountAt(s, 1, "unsafe") = 0 /\ CountAt(s, 1, "job") = 0
      OBVIOUS
    <3> DEFINE k == s[0 + 1].kind
    <3>1. k \in {"handler", "after"} /\ k \in Callers /\ k # "domain" /\ k # "unsafe" /\ k # "job"
      BY DEF Callers
    <3>2. /\ k \in Callers => OwnAt(s, 0 + 1) = 0 + 1 /\ HtmlAt(s, 0 + 1) = 0
          /\ k # "domain" => ContentAt(s, 0 + 1) = ContentAt(s, 0)
          /\ \A c \in {"unsafe", "job"} : k # c => CountAt(s, 0 + 1, c) = CountAt(s, 0, c)
      BY AtOneMore
    <3> HIDE DEF k
    <3> QED
      BY <1>3, <3>1, <3>2
  <2>4. Slots'
    BY <1>1, <1>4, <1>6, <2>3 DEF Slots, fields
  <2>5. Fits(stack, 1, env, html)
    BY <1>1, <1>2, <1>6 DEF Context, Located
  <2>6. Fits(stack', 1, env', html')
    BY <1>1, <1>2, <1>6, <2>3, <2>5 DEF Fits, fields
  <2> QED
    BY <1>1, <1>6, <2>2, <2>4, <2>6 DEF Context, Located
<1> QED
  BY <1>1, <1>5, <1>6

LEMMA NextContext ==
    ASSUME Context, [Next]_vars
    PROVE  Context'
<1>s. IsStack(stack) /\ (stack # <<>> /\ mode # "error" => Fits(stack, Len(stack), env, html))
  BY DEF Context, Located
<1>1. CASE Answers \/ Jumps \/ Others
  BY <1>1, <1>s, NoBlock, ContextMarked
<1>2. CASE If \/ Loop \/ Try \/ (Content /\ content # 0) \/ Transaction \/ RunDueCrons
  <2>1. PICK kind \in Neutral, left \in Nat : Grows(kind, left)
    BY <1>2, <1>s, NewBlock
  <2>2. UNCHANGED fields /\ mode = "next" /\ stack # <<>>
    BY <1>2, <1>s, NewBlock DEF If, Loop, Try, Content, Transaction, RunDueCrons, Evaluates
  <2>3. kind \in BlockKinds \ {"handler", "after"} /\ kind \notin Calls \cup {"html", "unsafe", "job", "domain"}
    BY DEF Neutral, BlockKinds, Calls
  <2> QED
    BY <2>1, <2>2, <2>3, ContextGrows DEF fields
<1>3. CASE Call \/ UserDomain
  <2>1. PICK kind \in Calls, left \in 0 .. 1 :
          /\ Grows(kind, left)
          /\ kind # "domain" => content' = content
          /\ kind = "domain" /\ left = 1 => content' = Len(stack) + 1
          /\ kind = "domain" /\ left = 0 => content' = 0
    BY <1>3, <1>s, NewCall
  <2>2. env' = Len(stack) + 1 /\ html' = 0 /\ unsafe' = unsafe /\ scopes' = scopes /\ mode = "next"
    BY <1>3, <1>s, NewCall
  <2>3. stack # <<>>
    BY <1>3 DEF Call, UserDomain, Evaluates
  <2>4. /\ kind \in BlockKinds \ {"handler", "after"} /\ kind # "html" /\ kind # "unsafe" /\ kind # "job"
        /\ left \in Nat /\ (left # 1 => left = 0)
    BY DEF BlockKinds, Calls
  <2> QED
    BY <2>1, <2>2, <2>3, <2>4, ContextGrows
<1>4. CASE Html
  <2>1. /\ Grows("html", 0) /\ html' = Len(stack) + 1 /\ UNCHANGED <<env, content, unsafe, scopes>>
        /\ mode = "next" /\ stack # <<>>
    BY <1>4, <1>s, NewHtml DEF Html, Evaluates
  <2>2. "html" \in BlockKinds \ {"handler", "after"} /\ "html" \notin Calls
    BY DEF BlockKinds, Calls
  <2> QED
    BY <2>1, <2>2, ContextGrows
<1>5. CASE Unsafe
  <2>1. /\ Grows("unsafe", 0) /\ unsafe' = unsafe + 1 /\ UNCHANGED <<env, html, content, scopes>>
        /\ mode = "next" /\ stack # <<>>
    BY <1>5, <1>s, NewUnsafe DEF Unsafe, Evaluates
  <2>2. "unsafe" \in BlockKinds \ {"handler", "after"} /\ "unsafe" \notin Calls
    BY DEF BlockKinds, Calls
  <2> QED
    BY <2>1, <2>2, ContextGrows
<1>6. CASE Enqueue
  <2>1. PICK left \in Nat : Grows("job", left)
    BY <1>6, <1>s, NewJob
  <2>2. /\ scopes' = scopes + 1 /\ UNCHANGED <<env, html, content, unsafe>>
        /\ mode = "next" /\ stack # <<>>
    BY <1>6, <1>s, NewJob DEF Enqueue, Evaluates
  <2>3. "job" \in BlockKinds \ {"handler", "after"} /\ "job" \notin Calls
    BY DEF BlockKinds, Calls
  <2> QED
    BY <2>1, <2>2, <2>3, ContextGrows
<1>7. CASE EndPlain \/ EndRound \/ EndTransaction \/ EndCron
  <2>1. /\ Marked(stack, stack') \/ (Popped(stack, stack') /\ Top.kind \in Neutral)
        /\ UNCHANGED fields /\ mode = "end" /\ stack # <<>>
    BY <1>7, <1>s, BlockEnds DEF EndPlain, EndRound, EndTransaction, EndCron, Ends
  <2>2. CASE Marked(stack, stack')
    BY <2>1, <2>2, ContextMarked
  <2>3. CASE Popped(stack, stack') /\ Top.kind \in Neutral
    <3> DEFINE n == Len(stack) - 1
    <3>1. /\ n + 1 = Len(stack)
          /\ Top.kind # "domain" => content = ContentAt(stack, n)
          /\ Top.kind # "unsafe" => unsafe = CountAt(stack, n, "unsafe")
          /\ Top.kind # "job" => scopes = CountAt(stack, n, "job")
          /\ Top.kind \notin Callers => OwnAt(stack, n) = OwnAt(stack, n + 1)
          /\ Top.kind \notin Callers \cup {"html"} => HtmlAt(stack, n) = HtmlAt(stack, n + 1)
      BY <2>1, TopIs
    <3>2. Top.kind \notin Callers \cup {"html", "domain", "unsafe", "job"}
      BY <2>3 DEF Neutral, Callers, Calls
    <3> HIDE DEF n
    <3>3. Fits(stack, n, env', html')
      BY <1>s, <2>1, <3>1, <3>2 DEF Fits, fields
    <3>4. /\ content' = ContentAt(stack, n)
          /\ unsafe' = CountAt(stack, n, "unsafe") /\ scopes' = CountAt(stack, n, "job")
      BY <2>1, <3>1, <3>2 DEF fields
    <3> QED
      BY <2>3, <3>3, <3>4, ContextPopped DEF n
  <2> QED
    BY <2>1, <2>2, <2>3
<1>8. CASE EndCall \/ EndHtml \/ EndUnsafe \/ EndJob
  BY <1>8, ContextTakenBack
<1>9. CASE \/ ErrorPasses \/ ErrorPassesCall \/ FailCron \/ RollBack
           \/ ErrorPassesDomain \/ ErrorPassesHtml \/ ErrorPassesUnsafe
  BY <1>9, ContextError
<1>10. CASE Catch \/ RetryJob \/ FailJob
  BY <1>10, ContextRecovers
<1>11. CASE EndBody \/ Fail
  BY <1>11, ContextAfresh
<1>12. CASE UNCHANGED vars
  <2>1. stack' = stack /\ mode' = mode /\ UNCHANGED fields
    BY <1>12 DEF vars
  <2> QED
    BY <1>s, <2>1, SameIsMarked, ContextMarked
<1> QED
  BY <1>1, <1>2, <1>3, <1>4, <1>5, <1>6, <1>7, <1>8, <1>9, <1>10, <1>11, <1>12
     DEF Next, Statement, End, Error, Answers, Jumps, Others

LEMMA InitContext == Init => Context
<1> SUFFICES ASSUME Init PROVE Context
  OBVIOUS
<1>1. IsStack(stack) /\ Len(stack) = 1 /\ stack[1].kind = "handler"
  BY InitStack
<1>2. \A i \in 1 .. 1 : i = 1
  OBVIOUS
<1>3. Rooted(stack) /\ KeepsFit(stack)
  BY <1>1, <1>2 DEF Rooted, KeepsFit, KeepFits, Calls
<1> DEFINE k == stack[0 + 1].kind
<1>4. k \in Callers /\ k # "domain" /\ k # "unsafe" /\ k # "job"
  BY <1>1 DEF Callers
<1>5. /\ k \in Callers => OwnAt(stack, 0 + 1) = 0 + 1 /\ HtmlAt(stack, 0 + 1) = 0
      /\ k # "domain" => ContentAt(stack, 0 + 1) = ContentAt(stack, 0)
      /\ \A c \in {"unsafe", "job"} : k # c => CountAt(stack, 0 + 1, c) = CountAt(stack, 0, c)
  BY AtOneMore
<1> HIDE DEF k
<1>6. DomainsAt(stack, 0) = {} /\ \A c : KindAt(stack, 0, c) = {}
  BY DEF DomainsAt, KindAt
<1>7. ContentAt(stack, 0) = 0 /\ \A c : CountAt(stack, 0, c) = 0
  BY <1>6, FS_EmptySet DEF ContentAt, CountAt
<1> QED
  BY <1>1, <1>3, <1>4, <1>5, <1>7 DEF Init, Context, Slots, Located, Fits

\* However blocks end - by their last statement, a signal or an error, caught or
\* not - @content is the block given to the innermost domain call, and the
\* depth of @unsafe and of the jobs' scopes is what the open blocks say
\* (call_user_domain, eval_unsafe, run_job_handler).
THEOREM BoundariesAreKept == Spec => []BoundariesKept
<1>1. Context => BoundariesKept
  <2> SUFFICES ASSUME Context PROVE BoundariesKept
    OBVIOUS
  <2> DEFINE n == Len(stack)
  <2>1. Slots /\ DOMAIN stack = 1 .. n
    BY DEF Context, IsStack
  <2>2. OwnContent = ContentAt(stack, n)
    BY <2>1 DEF OwnContent, ContentAt, DomainsAt
  <2>3. \A c : {i \in DOMAIN stack : stack[i].kind = c} = KindAt(stack, n, c)
    BY <2>1 DEF KindAt
  <2> QED
    BY <2>1, <2>2, <2>3 DEF BoundariesKept, Slots, CountAt
<1>2. Context /\ [Next]_vars => Context'
  BY NextContext
<1> QED
  BY <1>1, <1>2, InitContext, PTL DEF Spec

\* Code runs in the variables of its own call and writes to its call's page;
\* only a call that has swallowed the error of a call inside it may not
\* (call_function, call_lambda and call_user_domain restore on their way out,
\* but not when the body is an Err).
THEOREM CodeRunsInItsContext == Spec => []OwnContext
<1>1. Context => OwnContext
  <2> SUFFICES ASSUME Context, mode = "next", stack # <<>>
               PROVE  stack[Own].dirty \/ (env = Own /\ html = OwnHtml)
    BY DEF OwnContext
  <2>1. Fits(stack, Len(stack), env, html)
    BY DEF Context, Located
  <2>2. Own = OwnAt(stack, Len(stack)) /\ OwnHtml = HtmlAt(stack, Len(stack))
    BY OwnIsMax DEF Context
  <2> QED
    BY <2>1, <2>2 DEF Fits
<1>2. Context /\ [Next]_vars => Context'
  BY NextContext
<1> QED
  BY <1>1, <1>2, InitContext, PTL DEF Spec

(***************************************************************************)
(* The invariant of the signals.  While a block that a signal has ended is *)
(* on the stack, the signal is not lost: it is raised, or the call that    *)
(* the block waits for raises it again when it ends.  A block goes on      *)
(* without looking at the signals after a `let` only, and what is in a     *)
(* `let` ends no block around it.                                          *)
(***************************************************************************)
NoCall(s, i) == \A k \in i + 1 .. Len(s) : s[k].kind \notin Calls

\* The call that is directly above the i-th block.
CallAbove(s, i, k) ==
    /\ k \in i + 1 .. Len(s) /\ s[k].kind \in Calls
    /\ \A j \in i + 1 .. k - 1 : s[j].kind \notin Calls

Returns(s, i, r, x) ==
    /\ NoCall(s, i) => r
    /\ \A k \in 1 .. Len(s) : CallAbove(s, i, k) => s[k].keep.ret \/ (x /\ s[k].kind # "lambda")

Breaks(s, i, l) ==
    /\ NoCall(s, i) => l # "none"
    /\ \A k \in 1 .. Len(s) : CallAbove(s, i, k) => s[k].keep.loop # "none"

InStatement(s, i) == i < Len(s) => s[i + 1].as = "expr"

MarkFits(s, i, r, l, x) ==
    /\ s[i].dead => Returns(s, i, r, x) /\ InStatement(s, i)
    /\ s[i].cut => Breaks(s, i, l) /\ InStatement(s, i)

Marks(s, r, l, x) == \A i \in 1 .. Len(s) : MarkFits(s, i, r, l, x)

Unmarked(b) == ~b.dead /\ ~b.cut

Signals ==
    /\ Marks(stack, ret, loop, response)
    /\ mode = "next" /\ stack # <<>> => Unmarked(Top)

\* The notes of a stack are truth values.
LEMMA NotesAre ==
    ASSUME NEW s, IsStack(s)
    PROVE  /\ Len(s) \in Nat /\ DOMAIN s = 1 .. Len(s)
           /\ \A i \in 1 .. Len(s) :
                /\ s[i].kind \in BlockKinds /\ s[i].as \in As
                /\ \A x, y \in BOOLEAN :
                     /\ LET c == [s[i] EXCEPT !.dead = x]
                        IN  c.dead = x /\ c.cut = s[i].cut
                     /\ LET c == [s[i] EXCEPT !.cut = x]
                        IN  c.cut = x /\ c.dead = s[i].dead
                     /\ LET c == [s[i] EXCEPT !.dead = x, !.cut = y]
                        IN  c.cut = y /\ c.dead = x
                     /\ LET c == [s[i] EXCEPT !.dirty = @ \/ x]
                        IN  c.cut = s[i].cut /\ c.dead = s[i].dead
<1>1. PICK K : s \in Seq(Blocks(K))
  BY DEF IsStack
<1>2. \A i \in 1 .. Len(s) : s[i] \in Blocks(K)
  BY <1>1, StackIs
<1>3. Len(s) \in Nat /\ DOMAIN s = 1 .. Len(s)
  BY <1>1
<1> QED
  BY <1>2, <1>3 DEF Blocks

\* Where stacks are alike they have the same calls, and the same statements.
LEMMA CallsAlike ==
    ASSUME NEW s, IsStack(s), NEW t, NEW n, Alike(s, t, n), NEW k \in 1 .. n
    PROVE  /\ t[k].kind \in Calls <=> s[k].kind \in Calls
           /\ t[k].kind \in Calls => t[k].kind = s[k].kind /\ t[k].keep = s[k].keep
           /\ t[k].as = s[k].as
BY DEF Alike, SameBlock, Calls

\* A shorter stack that is alike.
Lower(s, t) == IsStack(s) /\ IsStack(t) /\ Len(t) <= Len(s) /\ Alike(s, t, Len(t))

LEMMA LowerCalls ==
    ASSUME NEW s, NEW t, Lower(s, t), NEW i \in 1 .. Len(t), NEW k \in 1 .. Len(t), CallAbove(t, i, k)
    PROVE  CallAbove(s, i, k) /\ k \in 1 .. Len(s) /\ t[k].kind = s[k].kind /\ t[k].keep = s[k].keep
<1> DEFINE n == Len(t)
<1>1. /\ Len(s) \in Nat /\ n \in Nat /\ n <= Len(s) /\ IsStack(s) /\ Alike(s, t, n)
      /\ k \in i + 1 .. n /\ t[k].kind \in Calls /\ \A j \in i + 1 .. k - 1 : t[j].kind \notin Calls
  BY LengthIs DEF Lower, CallAbove
<1>2. \A j \in i + 1 .. k - 1 : j \in 1 .. n
  BY <1>1
<1>3. \A j \in i + 1 .. k - 1 : s[j].kind \notin Calls
  BY <1>1, <1>2, CallsAlike
<1>4. s[k].kind \in Calls /\ t[k].kind = s[k].kind /\ t[k].keep = s[k].keep
  BY <1>1, CallsAlike
<1>5. k \in i + 1 .. Len(s) /\ k \in 1 .. Len(s)
  BY <1>1
<1> QED
  BY <1>3, <1>4, <1>5 DEF CallAbove

LEMMA LowerReturns ==
    ASSUME NEW s, NEW t, Lower(s, t), NEW i \in 1 .. Len(t), NEW r, NEW x, NEW r2, NEW x2,
           Returns(s, i, r, x), x => x2, NoCall(t, i) => r2
    PROVE  Returns(t, i, r2, x2)
BY LowerCalls DEF Returns

LEMMA LowerBreaks ==
    ASSUME NEW s, NEW t, Lower(s, t), NEW i \in 1 .. Len(t), NEW l, NEW l2,
           Breaks(s, i, l), NoCall(t, i) => l2 # "none"
    PROVE  Breaks(t, i, l2)
BY LowerCalls DEF Breaks

LEMMA LowerStatement ==
    ASSUME NEW s, NEW t, Lower(s, t), NEW i \in 1 .. Len(t), InStatement(s, i)
    PROVE  InStatement(t, i)
<1>1. Len(s) \in Nat /\ Len(t) \in Nat /\ Len(t) <= Len(s) /\ IsStack(s) /\ Alike(s, t, Len(t))
  BY LengthIs DEF Lower
<1> SUFFICES ASSUME i < Len(t) PROVE t[i + 1].as = "expr"
  BY DEF InStatement
<1>2. i + 1 \in 1 .. Len(t) /\ i < Len(s)
  BY <1>1
<1> QED
  BY <1>1, <1>2, CallsAlike DEF InStatement

\* No call ends.
SameCalls(s, t) ==
    \/ Marked(s, t)
    \/ Popped(s, t) /\ s[Len(s)].kind \notin Calls

LEMMA NoCallEnds ==
    ASSUME NEW s, IsStack(s), NEW t, SameCalls(s, t), NEW i \in 1 .. Len(t), NoCall(t, i)
    PROVE  NoCall(s, i)
<1>1. /\ Len(s) \in Nat /\ Len(t) \in Nat /\ Alike(s, t, Len(t))
      /\ Len(t) = Len(s) \/ (Len(t) = Len(s) - 1 /\ s[Len(s)].kind \notin Calls)
  BY LengthIs DEF SameCalls, Marked, Popped
<1> SUFFICES ASSUME NEW k \in i + 1 .. Len(s) PROVE s[k].kind \notin Calls
  BY DEF NoCall
<1>2. CASE k \in 1 .. Len(t)
  <2>1. t[k].kind \notin Calls
    BY <1>1, <1>2 DEF NoCall
  <2> QED
    BY <1>1, <1>2, <2>1, CallsAlike
<1>3. CASE k \notin 1 .. Len(t)
  <2>1. k = Len(s) /\ Len(t) # Len(s)
    BY <1>1, <1>3
  <2> QED
    BY <1>1, <2>1
<1> QED
  BY <1>2, <1>3

\* Blocks lose marks, if anything, and signals are only raised.
LEMMA FewerMarks ==
    ASSUME NEW s, IsStack(s), NEW t, SameCalls(s, t),
           NEW r, NEW l, NEW x, NEW r2, NEW l2, NEW x2, Marks(s, r, l, x),
           x => x2,
           \A i \in 1 .. Len(t) :
             /\ t[i].dead => s[i].dead /\ (r => r2)
             /\ t[i].cut => s[i].cut /\ (l # "none" => l2 # "none")
    PROVE  Marks(t, r2, l2, x2)
<1>1. Lower(s, t) /\ Len(t) \in Nat /\ Len(s) \in Nat /\ Len(t) <= Len(s)
  <2>1. /\ IsStack(t) /\ Len(t) \in Nat /\ Len(s) \in Nat /\ Len(t) <= Len(s) /\ Alike(s, t, Len(t))
    BY LengthIs DEF SameCalls, Marked, Popped
  <2> QED
    BY <2>1 DEF Lower
<1>2. ASSUME NEW i \in 1 .. Len(t) PROVE MarkFits(t, i, r2, l2, x2)
  <2>1. i \in 1 .. Len(s) /\ MarkFits(s, i, r, l, x)
    BY <1>1, <1>2 DEF Marks
  <2>2. NoCall(t, i) => NoCall(s, i)
    BY <1>2, NoCallEnds
  <2>3. t[i].dead => Returns(t, i, r2, x2) /\ InStatement(t, i)
    <3> SUFFICES ASSUME t[i].dead PROVE Returns(t, i, r2, x2) /\ InStatement(t, i)
      OBVIOUS
    <3>1. s[i].dead /\ (r => r2)
      BY <1>2
    <3>2. Returns(s, i, r, x) /\ InStatement(s, i)
      BY <2>1, <3>1 DEF MarkFits
    <3>3. NoCall(t, i) => r2
      BY <2>2, <3>1, <3>2 DEF Returns
    <3> QED
      BY <1>1, <1>2, <3>2, <3>3, LowerReturns, LowerStatement
  <2>4. t[i].cut => Breaks(t, i, l2) /\ InStatement(t, i)
    <3> SUFFICES ASSUME t[i].cut PROVE Breaks(t, i, l2) /\ InStatement(t, i)
      OBVIOUS
    <3>1. s[i].cut /\ (l # "none" => l2 # "none")
      BY <1>2
    <3>2. Breaks(s, i, l) /\ InStatement(s, i)
      BY <2>1, <3>1 DEF MarkFits
    <3>3. NoCall(t, i) => l2 # "none"
      BY <2>2, <3>1, <3>2 DEF Breaks
    <3> QED
      BY <1>1, <1>2, <3>2, <3>3, LowerBreaks, LowerStatement
  <2> QED
    BY <2>3, <2>4 DEF MarkFits
<1> QED
  BY <1>2 DEF Marks

\* What is above the innermost call.
LEMMA OwnBlocks ==
    ASSUME NEW s, IsStack(s), Rooted(s), s # <<>>, NEW m,
           m = Max({i \in DOMAIN s : s[i].kind \in Calls \cup {"handler", "after"}})
    PROVE  /\ m \in 1 .. Len(s)
           /\ \A i \in 1 .. Len(s) : i >= m => NoCall(s, i) /\ \A k : ~CallAbove(s, i, k)
           /\ \A i \in 1 .. Len(s) : i < m => ~NoCall(s, i)
<1> DEFINE n == Len(s)
           S == {i \in 1 .. n : s[i].kind \in Callers}
<1>1. n \in Nat /\ n > 0 /\ DOMAIN s = 1 .. n
  BY NotEmpty, NotesAre
<1>2. m = Max(S)
  BY <1>1 DEF Callers
<1>3. 1 \in S
  BY <1>1 DEF Rooted, Callers
<1>4. S \in SUBSET (0 .. n) /\ S # {}
  BY <1>1, <1>3
<1>5. m \in S /\ \A y \in S : y <= m
  BY <1>1, <1>2, <1>4, GreatestUpTo
<1>6. m \in 1 .. n /\ m \in Nat /\ s[m].kind \in Callers
  BY <1>5
<1>7. ASSUME NEW k \in m + 1 .. n PROVE s[k].kind \notin Calls
  <2>1. k \in 1 .. n /\ k > m
    BY <1>1, <1>6
  <2>2. k \notin S
    BY <1>5, <1>6, <2>1
  <2> QED
    BY <2>1, <2>2 DEF Callers
<1>8. ASSUME NEW i \in 1 .. n, i >= m PROVE NoCall(s, i) /\ \A k : ~CallAbove(s, i, k)
  <2>1. \A k \in i + 1 .. n : k \in m + 1 .. n
    BY <1>1, <1>6, <1>8
  <2> QED
    BY <1>7, <2>1 DEF NoCall, CallAbove
<1>9. ASSUME NEW i \in 1 .. n, i < m PROVE ~NoCall(s, i)
  <2>1. m \in i + 1 .. n /\ m # 1
    BY <1>1, <1>6, <1>9
  <2>2. s[m].kind \notin {"handler", "after"}
    BY <1>6, <2>1 DEF Rooted
  <2>3. s[m].kind \in Calls
    BY <1>6, <2>2 DEF Callers
  <2> QED
    BY <2>1, <2>3 DEF NoCall
<1> QED
  BY <1>6, <1>8, <1>9

\* Between statements nothing is marked, and nothing more is before the next.
LEMMA SameSignals ==
    ASSUME Context, Signals, UNCHANGED <<stack, ret, loop, response>>,
           mode' = "next" => mode = "next" \/ (~ret /\ loop = "none")
    PROVE  Signals'
<1>1. Marks(stack', ret', loop', response')
  BY DEF Signals
<1>2. ASSUME mode' = "next", stack # <<>> PROVE Unmarked(Top)
  <2>1. CASE mode = "next"
    BY <1>2, <2>1 DEF Signals
  <2>2. CASE ~ret /\ loop = "none"
    <3> DEFINE n == Len(stack)
    <3>1. n \in Nat /\ n > 0 /\ Top = stack[n]
      BY <1>2, NotEmpty, LengthIs DEF Context, Top
    <3>2. NoCall(stack, n)
      BY <3>1 DEF NoCall
    <3>3. MarkFits(stack, n, ret, loop, response)
      BY <3>1 DEF Signals, Marks
    <3> QED
      BY <2>2, <3>1, <3>2, <3>3 DEF MarkFits, Returns, Breaks, Unmarked
  <2> QED
    BY <1>2, <2>1, <2>2
<1> QED
  BY <1>1, <1>2 DEF Signals, Top

\* A response or a return is raised, and ends every block that expression
\* statements lead to, as far as it goes.
LEMMA KillSignals ==
    ASSUME Context, Signals, NEW through, Kill({i \in DOMAIN stack : Dead(i, through)}),
           ret', loop' = loop, response => response', mode' # "next",
           through = Calls \/ (through = {"lambda"} /\ response')
    PROVE  Signals'
<1> DEFINE n == Len(stack)
           D(i) == Dead(i, through)
<1>1. IsStack(stack) /\ n \in Nat /\ DOMAIN stack = 1 .. n
  BY NotesAre DEF Context
<1>2. Marked(stack, stack')
  BY <1>1, KillMarks
<1>3. IsStack(stack') /\ Len(stack') = n /\ Alike(stack, stack', n) /\ SameCalls(stack, stack')
  BY <1>2 DEF Marked, SameCalls
<1>4. Lower(stack, stack')
  BY <1>1, <1>3 DEF Lower
<1>5. ASSUME NEW i \in 1 .. n
      PROVE  stack'[i].cut = stack[i].cut /\ (stack'[i].dead => stack[i].dead \/ D(i))
  <2> DEFINE x == stack[i].dead \/ i \in {j \in DOMAIN stack : D(j)}
  <2>1. stack'[i] = [stack[i] EXCEPT !.dead = x] /\ x \in BOOLEAN
    BY <1>1 DEF Kill
  <2>2. x => stack[i].dead \/ D(i)
    OBVIOUS
  <2> HIDE DEF x, D
  <2>3. stack'[i].cut = stack[i].cut /\ stack'[i].dead = x
    BY <1>1, <2>1, NotesAre
  <2> QED
    BY <2>2, <2>3
<1> HIDE DEF D
<1>6. ASSUME NEW i \in 1 .. n, stack'[i].dead
      PROVE  Returns(stack', i, ret', response') /\ InStatement(stack', i)
  <2>1. CASE stack[i].dead
    <3>1. Returns(stack, i, ret, response) /\ InStatement(stack, i)
      BY <2>1 DEF Signals, Marks, MarkFits
    <3>2. NoCall(stack', i) => ret'
      OBVIOUS
    <3>3. Returns(stack', i, ret', response')
      BY <1>3, <1>4, <3>1, <3>2, LowerReturns
    <3> QED
      BY <1>3, <1>4, <3>1, <3>3, LowerStatement
  <2>2. CASE D(i)
    <3>1. \A k \in i + 1 .. n : stack[k].as = "expr" /\ stack[k].kind \notin through
      BY <2>2 DEF D, Dead
    <3>2. \A k \in i + 1 .. n : k \in 1 .. n
      BY <1>1
    <3>3. \A k \in i + 1 .. n : stack'[k].kind \in Calls => response' /\ stack'[k].kind # "lambda"
      BY <1>1, <1>3, <3>1, <3>2, CallsAlike
    <3>4. Returns(stack', i, ret', response')
      BY <1>3, <3>3 DEF Returns, CallAbove
    <3>5. i < n => i + 1 \in i + 1 .. n
      BY <1>1
    <3>6. InStatement(stack, i)
      BY <3>1, <3>5 DEF InStatement
    <3> QED
      BY <1>3, <1>4, <3>4, <3>6, LowerStatement
  <2> QED
    BY <1>5, <1>6, <2>1, <2>2
<1>7. ASSUME NEW i \in 1 .. n, stack'[i].cut
      PROVE  Breaks(stack', i, loop') /\ InStatement(stack', i)
  <2>1. stack[i].cut
    BY <1>5, <1>7
  <2>2. Breaks(stack, i, loop) /\ InStatement(stack, i)
    BY <2>1 DEF Signals, Marks, MarkFits
  <2>3. NoCall(stack', i) => NoCall(stack, i)
    BY <1>1, <1>3, NoCallEnds
  <2>4. NoCall(stack', i) => loop' # "none"
    BY <2>2, <2>3 DEF Breaks
  <2> QED
    BY <1>3, <1>4, <2>2, <2>4, LowerBreaks, LowerStatement
<1> QED
  BY <1>3, <1>6, <1>7 DEF Signals, Marks, MarkFits

LEMMA AnswersSignal ==
    ASSUME Context, Signals, Answers
    PROVE  Signals'
<1>1. /\ Answer \/ GoOn \/ Raise
      /\ OnlyAnswers
  BY DEF Answers, Respond, Redirect, Serve, BindRequest, Session, Csrf, Auth, RateLimitPolicy
<1>2. CASE GoOn \/ Raise
  BY <1>1, <1>2, SameSignals DEF GoOn, Raise, OnlyAnswers
<1>3. CASE Answer
  BY <1>1, <1>3, KillSignals DEF Answer, OnlyAnswers
<1> QED
  BY <1>1, <1>2, <1>3

LEMMA ReturnSignals ==
    ASSUME Context, Signals, Return
    PROVE  Signals'
BY KillSignals DEF Return, request

\* break and continue end the blocks up to their loop.
LEMMA LoopControlSignals ==
    ASSUME Context, Signals, NEW signal \in {"break", "continue"}, LoopControl(signal)
    PROVE  Signals'
<1> DEFINE n == Len(stack)
<1>1. PICK target :
        stack' = [i \in DOMAIN stack |->
                    IF i < Own THEN stack[i]
                    ELSE [stack[i] EXCEPT !.cut = i >= target /\ Dead(i, {})]]
  BY DEF LoopControl
<1>2. /\ IsStack(stack) /\ Rooted(stack) /\ n \in Nat /\ DOMAIN stack = 1 .. n /\ stack # <<>>
      /\ loop' = signal /\ ret' = ret /\ response' = response /\ mode' = "evaluated"
  BY NotesAre DEF Context, LoopControl, Evaluates, request
<1>3. IsStack(stack') /\ Len(stack') = n /\ Alike(stack, stack', n) /\ SameCalls(stack, stack')
  BY <1>2, LoopControlMarks DEF Marked, SameCalls
<1>4. Lower(stack, stack')
  BY <1>2, <1>3 DEF Lower
<1>5. /\ Own \in 1 .. n
      /\ \A i \in 1 .. n : i >= Own => NoCall(stack, i) /\ \A k : ~CallAbove(stack, i, k)
      /\ \A i \in 1 .. n : i < Own => ~NoCall(stack, i)
  BY <1>2, OwnBlocks DEF Own
<1>6. ASSUME NEW i \in 1 .. n
      PROVE  /\ stack'[i].dead = stack[i].dead
             /\ stack'[i].cut => (i < Own /\ stack[i].cut) \/ (i >= Own /\ Dead(i, {}))
  <2> DEFINE x == i >= target /\ Dead(i, {})
  <2>1. IF i < Own THEN stack'[i] = stack[i] ELSE stack'[i] = [stack[i] EXCEPT !.cut = x]
    BY <1>1, <1>2
  <2>2. x \in BOOLEAN /\ (x => Dead(i, {}))
    OBVIOUS
  <2> HIDE DEF x
  <2>3. CASE i < Own
    BY <2>1, <2>3
  <2>4. CASE ~(i < Own)
    <3>1. stack'[i] = [stack[i] EXCEPT !.cut = x]
      BY <2>1, <2>4
    <3>2. stack'[i].cut = x /\ stack'[i].dead = stack[i].dead
      BY <1>2, <2>2, <3>1, NotesAre
    <3>3. i >= Own
      BY <1>2, <1>5, <2>4
    <3> QED
      BY <2>2, <3>2, <3>3
  <2> QED
    BY <2>3, <2>4
<1>7. ASSUME NEW i \in 1 .. n, stack'[i].dead
      PROVE  Returns(stack', i, ret', response') /\ InStatement(stack', i)
  <2>1. Returns(stack, i, ret, response) /\ InStatement(stack, i)
    BY <1>6, <1>7 DEF Signals, Marks, MarkFits
  <2>2. NoCall(stack', i) => NoCall(stack, i)
    BY <1>2, <1>3, NoCallEnds
  <2>3. (NoCall(stack', i) => ret') /\ (response => response')
    BY <1>2, <2>1, <2>2 DEF Returns
  <2>4. Returns(stack', i, ret', response')
    BY <1>3, <1>4, <2>1, <2>3, LowerReturns
  <2> QED
    BY <1>3, <1>4, <2>1, <2>4, LowerStatement
<1>8. ASSUME NEW i \in 1 .. n, stack'[i].cut
      PROVE  Breaks(stack', i, loop') /\ InStatement(stack', i)
  <2>1. loop' # "none"
    BY <1>2
  <2>2. CASE i < Own /\ stack[i].cut
    <3>1. Breaks(stack, i, loop) /\ InStatement(stack, i)
      BY <2>2 DEF Signals, Marks, MarkFits
    <3> QED
      BY <1>3, <1>4, <2>1, <3>1, LowerBreaks, LowerStatement
  <2>3. CASE i >= Own /\ Dead(i, {})
    <3>1. Breaks(stack, i, loop')
      BY <1>5, <2>1, <2>3 DEF Breaks
    <3>2. i < n => stack[i + 1].as = "expr"
      BY <1>2, <2>3 DEF Dead
    <3>3. InStatement(stack, i)
      BY <3>2 DEF InStatement
    <3> QED
      BY <1>3, <1>4, <2>1, <3>1, <3>3, LowerBreaks, LowerStatement
  <2> QED
    BY <1>6, <1>8, <2>2, <2>3
<1> QED
  BY <1>2, <1>3, <1>7, <1>8 DEF Signals, Marks, MarkFits

\* A new block, in front of a signal or not.
LEMMA EnterSignals ==
    ASSUME Context, Signals, mode = "next", stack # <<>>,
           NEW kind \in BlockKinds, NEW as \in As, NEW left \in Nat, Enter(kind, as, left),
           UNCHANGED <<loop, response>>, ret' = (IF kind \in Calls THEN FALSE ELSE ret)
    PROVE  Signals'
<1> DEFINE n == Len(stack)
           b == Block(kind, as, left)
<1>1. IsStack(stack) /\ n \in Nat /\ n > 0 /\ Top = stack[n]
  BY NotEmpty, LengthIs DEF Context, Top
<1>2. OnTop(stack, b, stack') /\ mode' = "next"
  BY <1>1, EnteredIs DEF Enter
<1>3. /\ IsStack(stack') /\ Len(stack') = n + 1 /\ stack'[n + 1] = b
      /\ \A i \in 1 .. n : stack'[i] = stack[i]
  BY <1>2 DEF OnTop, Pushed
<1>4. /\ b.kind = kind /\ ~b.dead /\ ~b.cut
      /\ kind \in Calls => b.keep.ret = ret /\ b.keep.loop = loop
  <2>1. b.kind = kind /\ ~b.dead /\ ~b.cut /\ b.keep = Keep(kind)
    BY DEF Block
  <2>2. kind \in Calls => Keep(kind) = [env |-> env, html |-> html, ret |-> ret,
                                       loop |-> loop, content |-> content]
    BY DEF Keep, Calls
  <2> HIDE DEF b
  <2>3. ASSUME kind \in Calls PROVE b.keep.ret = ret /\ b.keep.loop = loop
    BY <2>1, <2>2, <2>3
  <2> QED
    BY <2>1, <2>3
<1> HIDE DEF b
<1>5. ASSUME NEW i \in 1 .. n, stack[i].dead \/ stack[i].cut PROVE i < n
  <2>1. Unmarked(stack[n])
    BY <1>1 DEF Signals
  <2> QED
    BY <1>1, <1>5, <2>1 DEF Unmarked
<1>6. ASSUME NEW i \in 1 .. n, i < n
      PROVE  /\ InStatement(stack, i) => InStatement(stack', i)
             /\ NoCall(stack', i) => NoCall(stack, i) /\ kind \notin Calls
             /\ \A k \in 1 .. n + 1 : CallAbove(stack', i, k) =>
                  \/ k \in 1 .. n /\ CallAbove(stack, i, k)
                  \/ k = n + 1 /\ NoCall(stack, i) /\ kind \in Calls
  <2>1. InStatement(stack, i) => InStatement(stack', i)
    BY <1>1, <1>3, <1>6 DEF InStatement
  <2>2. NoCall(stack', i) => NoCall(stack, i) /\ kind \notin Calls
    <3>1. \A k \in i + 1 .. n : k \in 1 .. n /\ k \in i + 1 .. n + 1
      BY <1>1
    <3>2. n + 1 \in i + 1 .. n + 1
      BY <1>1
    <3> QED
      BY <1>3, <1>4, <3>1, <3>2 DEF NoCall
  <2>3. ASSUME NEW k \in 1 .. n + 1, CallAbove(stack', i, k)
        PROVE  \/ k \in 1 .. n /\ CallAbove(stack, i, k)
               \/ k = n + 1 /\ NoCall(stack, i) /\ kind \in Calls
    <3>1. /\ k \in i + 1 .. n + 1 /\ stack'[k].kind \in Calls
          /\ \A j \in i + 1 .. k - 1 : stack'[j].kind \notin Calls
      BY <1>3, <2>3 DEF CallAbove
    <3>2. \A j \in i + 1 .. k - 1 : j \in 1 .. n
      BY <1>1
    <3>3. \A j \in i + 1 .. k - 1 : stack[j].kind \notin Calls
      BY <1>3, <3>1, <3>2
    <3>4. CASE k \in 1 .. n
      <4>1. k \in i + 1 .. n /\ stack[k].kind \in Calls
        BY <1>1, <1>3, <3>1, <3>4
      <4> QED
        BY <3>3, <3>4, <4>1 DEF CallAbove
    <3>5. CASE k = n + 1
      <4>1. k - 1 = n
        BY <1>1, <3>5
      <4>2. NoCall(stack, i)
        BY <3>3, <4>1 DEF NoCall
      <4> QED
        BY <1>3, <1>4, <3>1, <3>5, <4>2
    <3> QED
      BY <1>1, <3>4, <3>5
  <2> QED
    BY <2>1, <2>2, <2>3
<1>7. ASSUME NEW i \in 1 .. n, stack[i].dead
      PROVE  Returns(stack', i, ret', response') /\ InStatement(stack', i)
  <2>1. i < n /\ Returns(stack, i, ret, response) /\ InStatement(stack, i)
    BY <1>5, <1>7 DEF Signals, Marks, MarkFits
  <2>2. NoCall(stack', i) => ret'
    BY <1>6, <2>1 DEF Returns
  <2>3. ASSUME NEW k \in 1 .. n + 1, CallAbove(stack', i, k)
        PROVE  stack'[k].keep.ret \/ (response' /\ stack'[k].kind # "lambda")
    <3>1. CASE k \in 1 .. n /\ CallAbove(stack, i, k)
      BY <1>3, <2>1, <3>1 DEF Returns
    <3>2. CASE k = n + 1 /\ NoCall(stack, i) /\ kind \in Calls
      BY <1>3, <1>4, <2>1, <3>2 DEF Returns
    <3> QED
      BY <1>6, <2>1, <2>3, <3>1, <3>2
  <2> QED
    BY <1>3, <1>6, <2>1, <2>2, <2>3 DEF Returns
<1>8. ASSUME NEW i \in 1 .. n, stack[i].cut
      PROVE  Breaks(stack', i, loop') /\ InStatement(stack', i)
  <2>1. i < n /\ Breaks(stack, i, loop) /\ InStatement(stack, i)
    BY <1>5, <1>8 DEF Signals, Marks, MarkFits
  <2>2. NoCall(stack', i) => loop' # "none"
    BY <1>6, <2>1 DEF Breaks
  <2>3. ASSUME NEW k \in 1 .. n + 1, CallAbove(stack', i, k)
        PROVE  stack'[k].keep.loop # "none"
    <3>1. CASE k \in 1 .. n /\ CallAbove(stack, i, k)
      BY <1>3, <2>1, <3>1 DEF Breaks
    <3>2. CASE k = n + 1 /\ NoCall(stack, i) /\ kind \in Calls
      BY <1>3, <1>4, <2>1, <3>2 DEF Breaks
    <3> QED
      BY <1>6, <2>1, <2>3, <3>1, <3>2
  <2> QED
    BY <1>3, <1>6, <2>1, <2>2, <2>3 DEF Breaks
<1>9. ASSUME NEW i \in 1 .. n + 1 PROVE MarkFits(stack', i, ret', loop', response')
  <2>1. CASE i = n + 1
    BY <1>3, <1>4, <2>1 DEF MarkFits
  <2>2. CASE i # n + 1
    <3>1. i \in 1 .. n
      BY <1>1, <2>2
    <3> QED
      BY <1>3, <1>7, <1>8, <3>1 DEF MarkFits
  <2> QED
    BY <2>1, <2>2
<1>10. stack' # <<>> => Unmarked(Top')
  BY <1>3, <1>4 DEF Top, Unmarked
<1> QED
  BY <1>3, <1>9, <1>10 DEF Signals, Marks

\* No block gets a mark.
Fewer(s, t) == \A i \in 1 .. Len(t) : (t[i].dead => s[i].dead) /\ (t[i].cut => s[i].cut)

LEMMA BelowFewer ==
    ASSUME IsStack(stack), stack # <<>>
    PROVE  Popped(stack, Below) /\ Fewer(stack, Below)
<1>1. Popped(stack, Below) /\ \A i \in 1 .. Len(stack) - 1 : Below[i] = stack[i]
  BY BelowIsPopped
<1> QED
  BY <1>1 DEF Popped, Fewer

\* A `let` is over: nothing inside it has ended the block around it.
LEMMA LetIsOver ==
    ASSUME Context, Signals, stack # <<>>, Top.as # "expr",
           NEW t, Popped(stack, t), Fewer(stack, t), t # <<>>
    PROVE  Unmarked(t[Len(t)])
<1> DEFINE n == Len(stack)
           m == Len(t)
<1>1. n \in Nat /\ m = n - 1 /\ m \in Nat /\ m > 0 /\ Top = stack[m + 1] /\ m \in 1 .. n /\ m < n
  <2>1. IsStack(t) /\ n \in Nat /\ m = n - 1 /\ IsStack(stack)
    BY LengthIs DEF Context, Popped
  <2>2. m \in Nat /\ m > 0
    BY <2>1, NotEmpty, LengthIs
  <2> QED
    BY <2>1, <2>2 DEF Top
<1>2. ~InStatement(stack, m)
  BY <1>1 DEF InStatement
<1>3. ~stack[m].dead /\ ~stack[m].cut
  BY <1>1, <1>2 DEF Signals, Marks, MarkFits
<1>4. m \in 1 .. m
  BY <1>1
<1> QED
  BY <1>3, <1>4 DEF Fewer, Unmarked

\* A block that is no call is left.
LEMMA LeftSignals ==
    ASSUME Context, Signals, stack # <<>>, Top.kind \notin Calls,
           Popped(stack, stack'), Fewer(stack, stack'),
           UNCHANGED <<ret, loop, response>>,
           mode' = "next" => Top.as # "expr"
    PROVE  Signals'
<1>1. IsStack(stack) /\ SameCalls(stack, stack') /\ Marks(stack, ret, loop, response)
  BY DEF Context, SameCalls, Signals, Top
<1>2. \A i \in 1 .. Len(stack') :
        /\ stack'[i].dead => stack[i].dead /\ (ret => ret')
        /\ stack'[i].cut => stack[i].cut /\ (loop # "none" => loop' # "none")
  BY DEF Fewer
<1>3. response => response'
  OBVIOUS
<1>4. Marks(stack', ret', loop', response')
  BY <1>1, <1>2, <1>3, FewerMarks
<1>5. mode' = "next" /\ stack' # <<>> => Unmarked(stack'[Len(stack')])
  BY LetIsOver
<1> QED
  BY <1>4, <1>5 DEF Signals, Top

LEMMA LeaveSignals ==
    ASSUME Context, Signals,
           EndPlain \/ EndHtml \/ EndUnsafe \/ EndJob \/ (Leave /\ (EndTransaction \/ EndCron))
    PROVE  Signals'
<1>1. /\ stack # <<>> /\ Top.kind \notin Calls /\ Leave /\ UNCHANGED <<signals, response>>
  BY DEF EndPlain, EndHtml, EndUnsafe, EndJob, EndTransaction, EndCron, Ends, Calls, request
<1>2. stack' = Below /\ (mode' = "next" => Top.as # "expr") /\ UNCHANGED <<ret, loop, response>>
  BY <1>1 DEF Leave, LeaveTo, signals
<1>3. Popped(stack, stack') /\ Fewer(stack, stack')
  BY <1>1, <1>2, BelowFewer DEF Context
<1> QED
  BY <1>1, <1>2, <1>3, LeftSignals

\* The block on top goes on, unmarked.
LEMMA AgainSignals ==
    ASSUME Context, Signals, stack # <<>>, Marked(stack, stack'), Fewer(stack, stack'),
           UNCHANGED <<ret, loop, response>>, Unmarked(stack'[Len(stack)])
    PROVE  Signals'
<1>1. IsStack(stack) /\ SameCalls(stack, stack') /\ Marks(stack, ret, loop, response)
  BY DEF Context, SameCalls, Signals
<1>2. \A i \in 1 .. Len(stack') :
        /\ stack'[i].dead => stack[i].dead /\ (ret => ret')
        /\ stack'[i].cut => stack[i].cut /\ (loop # "none" => loop' # "none")
  BY DEF Fewer
<1>3. response => response'
  OBVIOUS
<1>4. Marks(stack', ret', loop', response')
  BY <1>1, <1>2, <1>3, FewerMarks
<1>5. Unmarked(stack'[Len(stack')])
  BY DEF Marked
<1> QED
  BY <1>4, <1>5 DEF Signals, Top

\* Again and Swallowed on the notes.
LEMMA AgainNotes ==
    ASSUME IsStack(stack), stack # <<>>, NEW t,
           \/ t = Again(stack)
           \/ /\ Top.kind # "domain" /\ Top.left > 0
              /\ t = Again([stack EXCEPT ![Len(stack)].left = @ - 1])
    PROVE  Marked(stack, t) /\ Fewer(stack, t) /\ Unmarked(t[Len(stack)])
<1> DEFINE n == Len(stack)
<1>1. n \in Nat /\ DOMAIN stack = 1 .. n /\ n \in 1 .. n /\ Top = stack[n]
  BY NotEmpty, NotesAre DEF Top
<1> DEFINE b == [Top EXCEPT !.dead = FALSE, !.cut = FALSE]
           c == [Top EXCEPT !.left = @ - 1, !.dead = FALSE, !.cut = FALSE]
<1>2. \/ t = [stack EXCEPT ![n] = b]
      \/ Top.kind # "domain" /\ Top.left > 0 /\ t = [stack EXCEPT ![n] = c]
  BY AgainIs
<1>3. Marked(stack, t)
  BY <1>2, TopMarks
<1>4. ~b.dead /\ ~b.cut /\ ~c.dead /\ ~c.cut
  <2>1. PICK K : stack \in Seq(Blocks(K))
    BY DEF IsStack
  <2>2. Top \in Blocks(K)
    BY <1>1, <2>1, StackIs
  <2> QED
    BY <2>2 DEF Blocks
<1> HIDE DEF b, c
<1>5. (t[n] = b \/ t[n] = c) /\ \A i \in 1 .. n : i # n => t[i] = stack[i]
  BY <1>1, <1>2
<1>6. Len(t) = n
  BY <1>3 DEF Marked
<1>7. Unmarked(t[n])
  BY <1>4, <1>5 DEF Unmarked
<1>8. Fewer(stack, t)
  BY <1>5, <1>6, <1>7 DEF Fewer, Unmarked
<1> QED
  BY <1>3, <1>7, <1>8

LEMMA SwallowNotes ==
    ASSUME NEW s, IsStack(s)
    PROVE  /\ Marked(s, Swallowed(s))
           /\ \A i \in 1 .. Len(s) : /\ Swallowed(s)[i].dead = s[i].dead
                                     /\ Swallowed(s)[i].cut = s[i].cut
<1> DEFINE t == Swallowed(s)
<1>1. Marked(s, t)
  BY SwallowMarks
<1>2. DOMAIN s = 1 .. Len(s)
  BY NotesAre
<1> DEFINE x(i) == i = Own /\ (env # Own \/ html # OwnHtml)
<1>3. \A i \in 1 .. Len(s) : t[i] = [s[i] EXCEPT !.dirty = @ \/ x(i)] /\ x(i) \in BOOLEAN
  BY <1>2 DEF Swallowed
<1> HIDE DEF t, x
<1>4. \A i \in 1 .. Len(s) : t[i].dead = s[i].dead /\ t[i].cut = s[i].cut
  <2> TAKE i \in 1 .. Len(s)
  <2> DEFINE y == x(i)
             z == s[i].dirty \/ y
  <2>1. t[i] = [s[i] EXCEPT !.dirty = z]
    BY <1>3
  <2> HIDE DEF y, z
  <2>2. PICK K : s \in Seq(Blocks(K))
    BY DEF IsStack
  <2>3. s[i] \in Blocks(K)
    BY <2>2, StackIs
  <2> QED
    BY <2>1, <2>3 DEF Blocks
<1> QED
  BY <1>1, <1>4 DEF t

\* The next argument of a transaction, the next cron handler, the next attempt of
\* a job.
LEMMA StartsAgain ==
    ASSUME Context, Signals, \/ ~Leave /\ (EndTransaction \/ EndCron)
                             \/ RetryJob
    PROVE  Signals'
<1>1. IsStack(stack)
  BY DEF Context
<1>2. CASE ~Leave /\ (EndTransaction \/ EndCron)
  <2>1. /\ stack # <<>> /\ UNCHANGED <<ret, loop, response>>
        /\ \/ stack' = Again(stack)
           \/ /\ Top.kind # "domain" /\ Top.left > 0
              /\ stack' = Again([stack EXCEPT ![Len(stack)].left = @ - 1])
    BY <1>2 DEF EndTransaction, EndCron, NextCron, Ends, signals, request
  <2>2. Marked(stack, stack') /\ Fewer(stack, stack') /\ Unmarked(stack'[Len(stack)])
    BY <1>1, <2>1, AgainNotes
  <2> QED
    BY <2>1, <2>2, AgainSignals
<1>3. CASE RetryJob
  <2> DEFINE s == Again([stack EXCEPT ![Len(stack)].left = @ - 1])
  <2>1. /\ stack # <<>> /\ UNCHANGED <<ret, loop, response>>
        /\ Top.kind # "domain" /\ Top.left > 0 /\ stack' = Swallowed(s)
    BY <1>3 DEF RetryJob, Passes, signals, request
  <2>2. Marked(stack, s) /\ Fewer(stack, s) /\ Unmarked(s[Len(stack)])
    BY <1>1, <2>1, AgainNotes
  <2>3. Marked(stack, stack')
    BY <1>1, <1>3, Recovers
  <2> HIDE DEF s
  <2>4. IsStack(s) /\ Len(s) = Len(stack) /\ Len(stack) \in 1 .. Len(s)
    BY <1>1, <2>1, <2>2, NotEmpty, LengthIs DEF Marked
  <2>5. /\ Len(stack') = Len(s)
        /\ \A i \in 1 .. Len(s) : stack'[i].dead = s[i].dead /\ stack'[i].cut = s[i].cut
    BY <2>1, <2>4, SwallowNotes DEF Marked
  <2>6. Fewer(stack, stack') /\ Unmarked(stack'[Len(stack)])
    BY <2>2, <2>4, <2>5 DEF Fewer, Unmarked
  <2> QED
    BY <2>1, <2>3, <2>6, AgainSignals
<1> QED
  BY <1>2, <1>3

\* The end of a round, of the loop or not.
LEMMA RoundNotes ==
    ASSUME NEW s, IsStack(s)
    PROVE  /\ Marked(s, RoundOver(s)) /\ Fewer(s, RoundOver(s))
           /\ \A i \in 1 .. Len(s) :
                RoundOver(s)[i].cut /\ ~(i < Own) => i = Len(stack) /\ loop = "break"
<1> DEFINE t == RoundOver(s)
           x(i) == s[i].cut /\ i = Len(stack) /\ loop = "break"
<1>1. Marked(s, t)
  BY RoundOverMarks
<1>2. DOMAIN s = 1 .. Len(s) /\ Len(t) = Len(s)
  BY <1>1, NotesAre DEF Marked
<1>3. \A i \in 1 .. Len(s) :
        /\ x(i) \in BOOLEAN
        /\ i < Own => t[i] = s[i]
        /\ ~(i < Own) => t[i] = [s[i] EXCEPT !.cut = x(i)]
  BY <1>2 DEF RoundOver
<1> HIDE DEF t
<1>4. ASSUME NEW i \in 1 .. Len(s)
      PROVE  /\ t[i].dead => s[i].dead
             /\ t[i].cut => s[i].cut
             /\ t[i].cut /\ ~(i < Own) => i = Len(stack) /\ loop = "break"
  <2>1. CASE i < Own
    BY <1>3, <2>1
  <2>2. CASE ~(i < Own)
    <3>1. t[i] = [s[i] EXCEPT !.cut = x(i)] /\ x(i) \in BOOLEAN
      BY <1>3, <2>2
    <3>2. x(i) => s[i].cut /\ i = Len(stack) /\ loop = "break"
      OBVIOUS
    <3> HIDE DEF x
    <3>3. t[i].cut = x(i) /\ t[i].dead = s[i].dead
      BY <3>1, NotesAre
    <3> QED
      BY <3>2, <3>3
  <2> QED
    BY <2>1, <2>2
<1>5. Fewer(s, t)
  BY <1>2, <1>4 DEF Fewer
<1> QED
  BY <1>1, <1>4, <1>5 DEF t

LEMMA RoundSignals ==
    ASSUME Context, Signals, EndRound
    PROVE  Signals'
<1> DEFINE n == Len(stack)
<1>1. /\ stack # <<>> /\ Top.kind = "loop" /\ Top.kind \notin Calls
      /\ loop' = "none" /\ UNCHANGED <<ret, response>>
      /\ \/ stack' = RoundOver(Below) /\ (mode' = "next" => Top.as # "expr")
         \/ ~LoopLeaves /\ stack' = RoundOver(stack)
  BY DEF EndRound, Ends, Calls, LeaveTo, request
<1>2. IsStack(stack) /\ Rooted(stack) /\ n \in Nat /\ n > 0 /\ Top = stack[n]
  BY <1>1, NotEmpty, LengthIs DEF Context, Top
<1>3. Popped(stack, Below) /\ Fewer(stack, Below) /\ IsStack(Below) /\ Len(Below) = n - 1
  BY <1>1, <1>2, BelowFewer DEF Popped
<1>4. /\ \/ Popped(stack, stack') /\ (mode' = "next" => Top.as # "expr")
         \/ Marked(stack, stack') /\ ~LoopLeaves
      /\ Fewer(stack, stack')
      /\ \A i \in 1 .. Len(stack') : stack'[i].cut => i < Own
  <2>1. CASE stack' = RoundOver(Below) /\ (mode' = "next" => Top.as # "expr")
    <3>1. /\ Marked(Below, stack') /\ Fewer(Below, stack')
          /\ \A i \in 1 .. Len(Below) : stack'[i].cut /\ ~(i < Own) => i = n
      BY <1>3, <2>1, RoundNotes
    <3>2. Popped(stack, stack')
      BY <1>2, <1>3, <3>1, PoppedMarked
    <3>3. Len(stack') = n - 1
      BY <3>2 DEF Popped
    <3>4. Fewer(stack, stack')
      BY <1>3, <3>1, <3>3 DEF Fewer
    <3>5. \A i \in 1 .. Len(stack') : i # n
      BY <1>2, <3>3
    <3> QED
      BY <1>3, <2>1, <3>1, <3>2, <3>3, <3>4, <3>5
  <2>2. CASE ~LoopLeaves /\ stack' = RoundOver(stack)
    <3>1. /\ Marked(stack, stack') /\ Fewer(stack, stack')
          /\ \A i \in 1 .. n : stack'[i].cut /\ ~(i < Own) => loop = "break"
      BY <1>2, <2>2, RoundNotes
    <3>2. Len(stack') = n /\ loop # "break"
      BY <2>2, <3>1 DEF Marked, LoopLeaves
    <3> QED
      BY <2>2, <3>1, <3>2
  <2> QED
    BY <1>1, <2>1, <2>2
<1>5. SameCalls(stack, stack')
  BY <1>1, <1>4 DEF SameCalls, Top
<1>6. Lower(stack, stack') /\ Len(stack') \in Nat /\ Len(stack') <= n
  <2>1. IsStack(stack') /\ Len(stack') \in {n, n - 1} /\ Alike(stack, stack', Len(stack'))
    BY <1>4 DEF Marked, Popped
  <2>2. Len(stack') \in Nat /\ Len(stack') <= n
    BY <1>2, <2>1, LengthIs
  <2> QED
    BY <1>2, <2>1, <2>2 DEF Lower
<1>7. /\ Own \in 1 .. n
      /\ \A i \in 1 .. n : i < Own => ~NoCall(stack, i)
  BY <1>1, <1>2, OwnBlocks DEF Own
<1>8. ASSUME NEW i \in 1 .. Len(stack'), stack'[i].dead
      PROVE  Returns(stack', i, ret', response') /\ InStatement(stack', i)
  <2>1. i \in 1 .. n /\ stack[i].dead
    BY <1>2, <1>4, <1>6, <1>8 DEF Fewer
  <2>2. Returns(stack, i, ret, response) /\ InStatement(stack, i)
    BY <2>1 DEF Signals, Marks, MarkFits
  <2>3. NoCall(stack', i) => NoCall(stack, i)
    BY <1>2, <1>5, <1>8, NoCallEnds
  <2>4. (NoCall(stack', i) => ret') /\ (response => response')
    BY <1>1, <2>2, <2>3 DEF Returns
  <2>5. Returns(stack', i, ret', response')
    BY <1>6, <1>8, <2>2, <2>4, LowerReturns
  <2> QED
    BY <1>6, <1>8, <2>2, <2>5, LowerStatement
<1>9. ASSUME NEW i \in 1 .. Len(stack'), stack'[i].cut
      PROVE  Breaks(stack', i, loop') /\ InStatement(stack', i)
  <2>1. i \in 1 .. n /\ stack[i].cut /\ i < Own
    BY <1>2, <1>4, <1>6, <1>9 DEF Fewer
  <2>2. Breaks(stack, i, loop) /\ InStatement(stack, i)
    BY <2>1 DEF Signals, Marks, MarkFits
  <2>3. NoCall(stack', i) => NoCall(stack, i)
    BY <1>2, <1>5, <1>9, NoCallEnds
  <2>4. NoCall(stack', i) => loop' # "none"
    BY <1>7, <2>1, <2>3
  <2> QED
    BY <1>6, <1>9, <2>2, <2>4, LowerBreaks, LowerStatement
<1>10. Marks(stack', ret', loop', response')
  BY <1>8, <1>9 DEF Marks, MarkFits
<1>11. ASSUME mode' = "next", stack' # <<>> PROVE Unmarked(stack'[Len(stack')])
  <2>1. CASE Popped(stack, stack') /\ (mode' = "next" => Top.as # "expr")
    BY <1>1, <1>4, <1>11, <2>1, LetIsOver
  <2>2. CASE Marked(stack, stack') /\ ~LoopLeaves
    <3>1. Len(stack') = n /\ n \in 1 .. n /\ ~ret
      BY <1>2, <2>2 DEF Marked, LoopLeaves
    <3>2. NoCall(stack, n)
      BY <1>2 DEF NoCall
    <3>3. ~stack[n].dead
      BY <3>1, <3>2 DEF Signals, Marks, MarkFits, Returns
    <3>4. ~(n < Own)
      BY <1>2, <1>7
    <3>5. ~stack'[n].dead /\ ~stack'[n].cut
      BY <1>4, <3>1, <3>3, <3>4 DEF Fewer
    <3> QED
      BY <3>1, <3>5 DEF Unmarked
  <2> QED
    BY <1>4, <2>1, <2>2
<1> QED
  BY <1>10, <1>11 DEF Signals, Top

\* The blocks that wait for the call on top, when it is gone.
LEMMA CallGone ==
    ASSUME NEW s, IsStack(s), NEW t, Popped(s, t), s[Len(s)].kind \in Calls,
           NEW i \in 1 .. Len(t), NoCall(t, i)
    PROVE  CallAbove(s, i, Len(s)) /\ Len(s) \in 1 .. Len(s)
<1> DEFINE n == Len(s)
<1>1. n \in Nat /\ n > 0 /\ Len(t) = n - 1 /\ Alike(s, t, n - 1)
  BY LengthIs DEF Popped
<1>2. ASSUME NEW j \in i + 1 .. n - 1 PROVE s[j].kind \notin Calls
  <2>1. j \in 1 .. n - 1 /\ t[j].kind \notin Calls
    BY <1>1 DEF NoCall
  <2> QED
    BY <1>1, <2>1, CallsAlike
<1>3. n \in i + 1 .. n /\ n \in 1 .. n
  BY <1>1
<1> QED
  BY <1>2, <1>3 DEF CallAbove

\* A call is left with its caller's signals, or fails with its own.
LEMMA CallEndSignals ==
    ASSUME Context, Signals, stack # <<>>, Top.kind \in Calls,
           Popped(stack, stack'), Fewer(stack, stack'), response' = response,
           \A i \in 1 .. Len(stack') :
             /\ stack'[i].dead /\ NoCall(stack', i) /\ Top.keep.ret => ret'
             /\ stack'[i].dead /\ NoCall(stack', i) /\ response /\ Top.kind # "lambda" => ret'
             /\ stack'[i].cut /\ NoCall(stack', i) /\ Top.keep.loop # "none" => loop' # "none",
           mode' = "next" => Top.as # "expr"
    PROVE  Signals'
<1> DEFINE n == Len(stack)
<1>1. /\ IsStack(stack) /\ IsStack(stack') /\ n \in Nat /\ Len(stack') = n - 1 /\ Top = stack[n]
      /\ Alike(stack, stack', Len(stack'))
  BY LengthIs DEF Context, Popped, Top
<1>2. Lower(stack, stack') /\ \A i \in 1 .. Len(stack') : i \in 1 .. n
  <2>1. Len(stack') <= n
    BY <1>1
  <2> QED
    BY <1>1, <2>1 DEF Lower
<1>3. ASSUME NEW i \in 1 .. Len(stack'), stack'[i].dead
      PROVE  Returns(stack', i, ret', response') /\ InStatement(stack', i)
  <2>1. i \in 1 .. n /\ stack[i].dead
    BY <1>2, <1>3 DEF Fewer
  <2>2. Returns(stack, i, ret, response) /\ InStatement(stack, i)
    BY <2>1 DEF Signals, Marks, MarkFits
  <2>3. ASSUME NoCall(stack', i) PROVE ret'
    <3>1. CallAbove(stack, i, n) /\ n \in 1 .. n
      BY <1>1, <2>3, CallGone
    <3>2. Top.keep.ret \/ (response /\ Top.kind # "lambda")
      BY <1>1, <2>2, <3>1 DEF Returns
    <3> QED
      BY <1>3, <2>3, <3>2
  <2>4. response => response'
    OBVIOUS
  <2>5. Returns(stack', i, ret', response')
    BY <1>2, <1>3, <2>2, <2>3, <2>4, LowerReturns
  <2> QED
    BY <1>2, <1>3, <2>2, <2>5, LowerStatement
<1>4. ASSUME NEW i \in 1 .. Len(stack'), stack'[i].cut
      PROVE  Breaks(stack', i, loop') /\ InStatement(stack', i)
  <2>1. i \in 1 .. n /\ stack[i].cut
    BY <1>2, <1>4 DEF Fewer
  <2>2. Breaks(stack, i, loop) /\ InStatement(stack, i)
    BY <2>1 DEF Signals, Marks, MarkFits
  <2>3. ASSUME NoCall(stack', i) PROVE loop' # "none"
    <3>1. CallAbove(stack, i, n) /\ n \in 1 .. n
      BY <1>1, <2>3, CallGone
    <3>2. Top.keep.loop # "none"
      BY <1>1, <2>2, <3>1 DEF Breaks
    <3> QED
      BY <1>4, <2>3, <3>2
  <2> QED
    BY <1>2, <1>4, <2>2, <2>3, LowerBreaks, LowerStatement
<1>5. Marks(stack', ret', loop', response')
  BY <1>3, <1>4 DEF Marks, MarkFits
<1>6. mode' = "next" /\ stack' # <<>> => Unmarked(stack'[Len(stack')])
  BY LetIsOver
<1> QED
  BY <1>5, <1>6 DEF Signals, Top

LEMMA EndCallSignals ==
    ASSUME Context, Signals, EndCall
    PROVE  Signals'
<1>1. /\ stack # <<>> /\ Top.kind \in Calls /\ stack' = Below /\ (mode' = "next" => Top.as # "expr")
      /\ ret' = ReturnOf(Top) /\ loop' = Top.keep.loop /\ response' = response
  BY DEF EndCall, Ends, Leave, LeaveTo, request
<1>2. Popped(stack, stack') /\ Fewer(stack, stack')
  BY <1>1, BelowFewer DEF Context
<1>3. /\ Top.keep.ret => ret'
      /\ response /\ Top.kind # "lambda" => ret'
  BY <1>1 DEF ReturnOf
<1> QED
  BY <1>1, <1>2, <1>3, CallEndSignals

LEMMA CallFailedNotes ==
    ASSUME Context, stack # <<>>, CallFailed
    PROVE  /\ Fewer(stack, stack')
           /\ \A i \in 1 .. Len(stack') : NoCall(stack', i) =>
                (stack'[i].dead => ret) /\ (stack'[i].cut => loop = Top.keep.loop)
<1>1. IsStack(stack) /\ Rooted(stack) /\ Popped(stack, stack')
  BY CallFails DEF Context
<1>2. Fewer(stack, Below) /\ Popped(stack, Below) /\ IsStack(Below)
  BY <1>1, BelowFewer DEF Popped
<1> DEFINE x(i) == Below[i].dead /\ ret
           y(i) == Below[i].cut /\ loop = Top.keep.loop
<1>3. /\ \A i \in DOMAIN Below : i < Caller => stack'[i] = Below[i]
      /\ \A i \in DOMAIN Below : ~(i < Caller) =>
           stack'[i] = [Below[i] EXCEPT !.dead = x(i), !.cut = y(i)]
  BY DEF CallFailed
<1>4. Caller = Max({i \in DOMAIN Below : Below[i].kind \in Calls \cup {"handler", "after"}})
  BY DEF Caller
<1>5. PICK s : s = Below
  OBVIOUS
<1>6. PICK m : m = Caller
  OBVIOUS
<1>7. /\ DOMAIN s = 1 .. Len(s) /\ Len(stack') = Len(s) /\ Len(s) = Len(stack) - 1
      /\ Len(s) \in Nat /\ Len(stack) \in Nat /\ Alike(stack, s, Len(s)) /\ Alike(stack, stack', Len(s))
      /\ IsStack(s) /\ Fewer(stack, s)
  BY <1>1, <1>2, <1>5, NotesAre, LengthIs DEF Popped
<1>8. ASSUME NEW i \in 1 .. Len(s), i < m, NoCall(stack', i) PROVE FALSE
  <2>1. s # <<>>
    BY <1>7, <1>8
  <2>2. Rooted(s)
    <3>1. \A k \in 1 .. Len(s) : k \in 1 .. Len(stack) /\ SameBlock(stack[k], s[k])
      BY <1>7 DEF Alike
    <3> QED
      BY <1>1, <3>1 DEF Rooted, SameBlock
  <2>3. ~NoCall(s, i)
    BY <1>4, <1>5, <1>6, <1>7, <1>8, <2>1, <2>2, OwnBlocks
  <2>4. PICK k \in i + 1 .. Len(s) : s[k].kind \in Calls
    BY <2>3 DEF NoCall
  <2>5. k \in 1 .. Len(s)
    BY <1>7
  <2>6. stack[k].kind \in Calls
    BY <1>1, <1>7, <2>4, <2>5, CallsAlike
  <2>7. stack'[k].kind \in Calls
    BY <1>1, <1>7, <2>5, <2>6, CallsAlike
  <2> QED
    BY <1>7, <1>8, <2>4, <2>7 DEF NoCall
<1>9. ASSUME NEW i \in 1 .. Len(s)
      PROVE  /\ stack'[i].dead => s[i].dead
             /\ stack'[i].cut => s[i].cut
             /\ NoCall(stack', i) => (stack'[i].dead => ret) /\ (stack'[i].cut => loop = Top.keep.loop)
  <2>1. CASE i < m
    <3>1. stack'[i] = s[i]
      BY <1>3, <1>5, <1>6, <1>7, <2>1
    <3> QED
      BY <1>8, <2>1, <3>1
  <2>2. CASE ~(i < m)
    <3>1. stack'[i] = [s[i] EXCEPT !.dead = x(i), !.cut = y(i)]
      BY <1>3, <1>5, <1>6, <1>7, <2>2
    <3>2. /\ x(i) \in BOOLEAN /\ y(i) \in BOOLEAN
          /\ x(i) => s[i].dead /\ ret
          /\ y(i) => s[i].cut /\ loop = Top.keep.loop
      BY <1>5
    <3> HIDE DEF x, y
    <3>3. stack'[i].dead = x(i) /\ stack'[i].cut = y(i)
      BY <1>7, <3>1, <3>2, NotesAre
    <3> QED
      BY <3>2, <3>3
  <2> QED
    BY <2>1, <2>2
<1>10. Fewer(stack, stack')
  BY <1>7, <1>9 DEF Fewer
<1> QED
  BY <1>7, <1>9, <1>10

LEMMA CallErrorSignals ==
    ASSUME Context, Signals, ErrorPassesCall \/ ErrorPassesDomain
    PROVE  Signals'
<1>1. /\ stack # <<>> /\ Top.kind \in Calls /\ CallFailed /\ mode' = "error"
      /\ UNCHANGED <<ret, loop, response>>
  BY DEF ErrorPassesCall, ErrorPassesDomain, Passes, Calls, signals, request
<1>2. /\ Popped(stack, stack') /\ Fewer(stack, stack')
      /\ \A i \in 1 .. Len(stack') : NoCall(stack', i) =>
           (stack'[i].dead => ret) /\ (stack'[i].cut => loop = Top.keep.loop)
  BY <1>1, CallFails, CallFailedNotes DEF Context
<1>3. \A i \in 1 .. Len(stack') :
        /\ stack'[i].dead /\ NoCall(stack', i) /\ Top.keep.ret => ret'
        /\ stack'[i].dead /\ NoCall(stack', i) /\ response /\ Top.kind # "lambda" => ret'
        /\ stack'[i].cut /\ NoCall(stack', i) /\ Top.keep.loop # "none" => loop' # "none"
  BY <1>1, <1>2
<1>4. response' = response /\ mode' # "next"
  BY <1>1
<1> QED
  BY <1>1, <1>2, <1>3, <1>4, CallEndSignals

\* An error leaves another block, or a failed job swallows it.
LEMMA ErrorSignals ==
    ASSUME Context, Signals,
           \/ ErrorPasses \/ ErrorPassesHtml \/ ErrorPassesUnsafe \/ RollBack
           \/ FailCron \/ FailJob
    PROVE  Signals'
<1>1. /\ stack # <<>> /\ Top.kind \notin Calls /\ mode' # "next" /\ UNCHANGED <<ret, loop, response>>
      /\ stack' = Below \/ stack' = Swallowed(Below)
  BY DEF ErrorPasses, ErrorPassesHtml, ErrorPassesUnsafe, RollBack, FailCron, FailJob,
     Passes, Calls, signals, request
<1>2. Popped(stack, Below) /\ Fewer(stack, Below) /\ IsStack(Below)
  BY <1>1, BelowFewer DEF Context, Popped
<1>3. Popped(stack, stack') /\ Fewer(stack, stack')
  <2>1. CASE stack' = Below
    BY <1>2, <2>1
  <2>2. CASE stack' = Swallowed(Below)
    <3>1. /\ Marked(Below, stack')
          /\ \A i \in 1 .. Len(Below) : /\ stack'[i].dead = Below[i].dead
                                        /\ stack'[i].cut = Below[i].cut
      BY <1>2, <2>2, SwallowNotes
    <3>2. Popped(stack, stack')
      BY <1>2, <3>1, PoppedMarked DEF Context
    <3>3. Len(stack') = Len(Below)
      BY <3>1 DEF Marked
    <3>4. Fewer(stack, stack')
      BY <1>2, <3>1, <3>3 DEF Fewer
    <3> QED
      BY <3>2, <3>4
  <2> QED
    BY <1>1, <2>1, <2>2
<1> QED
  BY <1>1, <1>3, LeftSignals

\* A catch block takes the place of its try, unmarked.
LEMMA CatchSignals ==
    ASSUME Context, Signals, Catch
    PROVE  Signals'
<1> DEFINE n == Len(stack)
           b == Block("catch", Top.as, 0)
           s == Append(Below, b)
<1>1. /\ stack # <<>> /\ UNCHANGED <<ret, loop, response>> /\ stack' = Swallowed(s)
      /\ IsStack(stack)
  BY DEF Catch, Passes, signals, request, Context
<1>2. n \in 1 .. n /\ n \in Nat /\ Top.as \in As
  BY <1>1, NotEmpty, NotesAre DEF Top
<1>3. /\ Popped(stack, Below) /\ IsStack(Below)
      /\ \A i \in 1 .. n - 1 : Below[i] = stack[i]
  BY <1>1, BelowIsPopped DEF Popped
<1>4. OnTop(Below, b, s)
  <2>1. "catch" \in BlockKinds /\ 0 \in Nat
    BY DEF BlockKinds
  <2> QED
    BY <1>2, <1>3, <2>1, EnteredIs
<1>5. ~b.dead /\ ~b.cut
  BY DEF Block
<1>6. Marked(stack, stack')
  BY <1>1, Recovers
<1> HIDE DEF b, s
<1>7. /\ IsStack(s) /\ Len(s) = n /\ s[n] = b
      /\ \A i \in 1 .. n - 1 : s[i] = stack[i]
  <2>1. Len(Below) = n - 1
    BY <1>3 DEF Popped
  <2> QED
    BY <1>2, <1>3, <1>4, <2>1 DEF OnTop, Pushed
<1>8. \A i \in 1 .. n : stack'[i].dead = s[i].dead /\ stack'[i].cut = s[i].cut
  BY <1>1, <1>7, SwallowNotes
<1>9. Unmarked(stack'[n])
  BY <1>2, <1>5, <1>7, <1>8 DEF Unmarked
<1>10. Fewer(stack, stack')
  <2>1. Len(stack') = n
    BY <1>6 DEF Marked
  <2>2. ASSUME NEW i \in 1 .. n
        PROVE  (stack'[i].dead => stack[i].dead) /\ (stack'[i].cut => stack[i].cut)
    <3>1. CASE i = n
      BY <1>9, <3>1 DEF Unmarked
    <3>2. CASE i # n
      <4>1. i \in 1 .. n - 1
        BY <1>2, <3>2
      <4> QED
        BY <1>7, <1>8, <4>1
    <3> QED
      BY <3>1, <3>2
  <2> QED
    BY <2>1, <2>2 DEF Fewer
<1> QED
  BY <1>1, <1>6, <1>9, <1>10, AgainSignals

\* The handler's stack is gone, or holds an @after block, which nothing has ended.
LEMMA AfreshSignals ==
    ASSUME Context, Signals, EndBody \/ Fail
    PROVE  Signals'
<1>1. stack' = <<>> \/ (Len(stack') = 1 /\ ~stack'[1].dead /\ ~stack'[1].cut)
  BY HandlerEnds DEF Context
<1>2. \A i \in 1 .. 1 : i = 1
  OBVIOUS
<1>3. CASE stack' = <<>>
  BY <1>3 DEF Signals, Marks
<1>4. CASE Len(stack') = 1 /\ ~stack'[1].dead /\ ~stack'[1].cut
  BY <1>2, <1>4 DEF Signals, Marks, MarkFits, Unmarked, Top
<1> QED
  BY <1>1, <1>3, <1>4

\* A statement with a block.
LEMMA NewSignals ==
    ASSUME Context, Signals,
           \/ If \/ Loop \/ Try \/ (Content /\ content # 0) \/ Transaction \/ RunDueCrons
           \/ Call \/ UserDomain \/ Html \/ Unsafe \/ Enqueue
    PROVE  Signals'
<1>1. mode = "next" /\ stack # <<>>
  BY DEF If, Loop, Try, Content, Transaction, RunDueCrons, Call, UserDomain, Html, Unsafe, Enqueue,
     Evaluates
<1>2. CASE If \/ Loop \/ Try \/ (Content /\ content # 0) \/ Transaction \/ RunDueCrons
  <2>1. PICK kind \in Neutral, as \in As, left \in Nat : Enter(kind, as, left)
    BY <1>2 DEF If, Loop, Try, Content, Transaction, RunDueCrons, Neutral, As
  <2>2. UNCHANGED <<ret, loop, response>>
    BY <1>2 DEF If, Loop, Try, Content, Transaction, RunDueCrons, signals, request
  <2>3. kind \in BlockKinds /\ kind \notin Calls
    BY DEF Neutral, BlockKinds, Calls
  <2> QED
    BY <1>1, <2>1, <2>2, <2>3, EnterSignals
<1>3. CASE Call \/ UserDomain
  <2>1. PICK kind \in Calls, as \in As, left \in 0 .. 1 : Enter(kind, as, left)
    BY <1>3 DEF Call, UserDomain, Calls
  <2>2. ret' = FALSE /\ UNCHANGED <<loop, response>>
    BY <1>3 DEF Call, UserDomain, Called, request
  <2>3. kind \in BlockKinds /\ kind \in Calls /\ left \in Nat
    BY DEF BlockKinds
  <2> QED
    BY <1>1, <2>1, <2>2, <2>3, EnterSignals
<1>4. CASE Html \/ Unsafe
  <2>1. PICK kind \in {"html", "unsafe"} : Enter(kind, "expr", 0)
    BY <1>4 DEF Html, Unsafe
  <2>2. UNCHANGED <<ret, loop, response>>
    BY <1>4 DEF Html, Unsafe, signals, request
  <2>3. kind \in BlockKinds /\ kind \notin Calls /\ "expr" \in As /\ 0 \in Nat
    BY DEF BlockKinds, Calls, As
  <2> QED
    BY <1>1, <2>1, <2>2, <2>3, EnterSignals
<1>5. CASE Enqueue
  <2>1. PICK retries \in 0 .. MaxRetries : Enter("job", "expr", retries)
    BY <1>5 DEF Enqueue
  <2>2. UNCHANGED <<ret, loop, response>>
    BY <1>5 DEF Enqueue, signals, request
  <2>3. "job" \in BlockKinds /\ "job" \notin Calls /\ "expr" \in As /\ retries \in Nat
    BY BoundsAssumption DEF BlockKinds, Calls, As
  <2> QED
    BY <1>1, <2>1, <2>2, <2>3, EnterSignals
<1> QED
  BY <1>2, <1>3, <1>4, <1>5

LEMMA NextSignals ==
    ASSUME Context, Signals, [Next]_vars
    PROVE  Signals'
<1>1. CASE Answers
  BY <1>1, AnswersSignal
<1>2. CASE Jumps
  <2>1. CASE Return
    BY <2>1, ReturnSignals
  <2>2. CASE Break \/ Continue
    <3>1. PICK signal \in {"break", "continue"} : LoopControl(signal)
      BY <2>2 DEF Break, Continue
    <3> QED
      BY <3>1, LoopControlSignals
  <2> QED
    BY <1>2, <2>1, <2>2 DEF Jumps
<1>3. CASE Others \/ UNCHANGED vars
  <2>1. UNCHANGED <<stack, ret, loop, response>>
    BY <1>3 DEF Others, Write, Throw, RegisterAfter, LookAtSignals, LastStatement, Content,
       vars, signals, request
  <2>2. mode' = "next" => mode = "next" \/ (~ret /\ loop = "none")
    BY <1>3 DEF Others, Write, Throw, RegisterAfter, LookAtSignals, LastStatement, Content, vars
  <2> QED
    BY <2>1, <2>2, SameSignals
<1>4. CASE \/ If \/ Loop \/ Try \/ (Content /\ content # 0) \/ Transaction \/ RunDueCrons
           \/ Call \/ UserDomain \/ Html \/ Unsafe \/ Enqueue
  BY <1>4, NewSignals
<1>5. CASE EndPlain \/ EndHtml \/ EndUnsafe \/ EndJob \/ EndTransaction \/ EndCron
  BY <1>5, LeaveSignals, StartsAgain
<1>6. CASE EndRound
  BY <1>6, RoundSignals
<1>7. CASE EndCall
  BY <1>7, EndCallSignals
<1>8. CASE EndBody \/ Fail
  BY <1>8, AfreshSignals
<1>9. CASE ErrorPassesCall \/ ErrorPassesDomain
  BY <1>9, CallErrorSignals
<1>10. CASE \/ ErrorPasses \/ ErrorPassesHtml \/ ErrorPassesUnsafe \/ RollBack
            \/ FailCron \/ FailJob
  BY <1>10, ErrorSignals
<1>11. CASE Catch
  BY <1>11, CatchSignals
<1>12. CASE RetryJob
  BY <1>12, StartsAgain
<1> QED
  BY <1>1, <1>2, <1>3, <1>4, <1>5, <1>6, <1>7, <1>8, <1>9, <1>10, <1>11, <1>12
     DEF Next, Statement, End, Error, Answers, Jumps, Others

LEMMA InitSignals == Init => Signals
<1> SUFFICES ASSUME Init PROVE Signals
  OBVIOUS
<1>1. Len(stack) = 1 /\ ~stack[1].dead /\ ~stack[1].cut
  BY DEF Init
<1>2. \A i \in 1 .. 1 : i = 1
  OBVIOUS
<1> QED
  BY <1>1, <1>2 DEF Signals, Marks, MarkFits, Unmarked, Top

\* Where the code takes a block's next statement, no signal has ended that block:
\* not @respond, not return, not break or continue, through whatever pages, tries,
\* transactions, jobs, crons and calls they were raised, as long as expression
\* statements led there (eval_block_ctl, call_function, For and While).  The cases
\* in which the code goes on all the same have taken the mark: the next argument,
\* handler or attempt, an inner loop that took the signal for its own, a later
\* break or continue in its place, and a failing call that took it away.
THEOREM SignalsEndTheirBlocks == Spec => []SignalsEndBlocks
<1>1. Context /\ Signals => SignalsEndBlocks
  BY DEF Signals, SignalsEndBlocks, Unmarked
<1>2. Context /\ [Next]_vars => Context'
  BY NextContext
<1>3. Context /\ Signals /\ [Next]_vars => Signals'
  BY NextSignals
<1> QED
  BY <1>1, <1>2, <1>3, InitContext, InitSignals, PTL DEF Spec

------------------------------------------------------------------------------
(***************************************************************************)
(* The HTTP server.                                                        *)
(***************************************************************************)
Told == {"not_found", "too_many", "ok"}   \* the statuses a frame is recorded for

(***************************************************************************)
(* The invariant.  A bucket has lost only what is older than the window;   *)
(* the frames are one to one with the responses told; nothing was          *)
(* delivered to a connection that is not yet answered; the trace file is   *)
(* written once, when nothing happens any more.                            *)
(***************************************************************************)
BucketsCount ==
    \A k \in Keys :
        /\ IsFiniteSet(admitted[k])
        /\ buckets[k] \subseteq admitted[k]
        /\ \A hit \in admitted[k] \ buckets[k] : hit.at < now - Window

NothingYet ==
    \A r \in Reqs : conn[r] \in {"new", "reading"} => seen[r] = <<>> /\ status[r] = "none"

FramesTell ==
    /\ \A i \in 1 .. Len(frames) : frames[i].status = status[frames[i].req] /\ frames[i].status \in Told
    /\ \A i, j \in 1 .. Len(frames) : frames[i].req = frames[j].req => i = j
    /\ \A r \in Reqs : status[r] \in Told => \E i \in 1 .. Len(frames) : frames[i].req = r

FileIsFrames == file # NoTrace => ~up /\ file = frames

Traces ==
    /\ TypeOK
    /\ BucketsCount
    /\ NothingYet
    /\ StreamIsTrace
    /\ FramesTell
    /\ FileIsFrames
(***************************************************************************)
(* Sequences: an element that goes to the end of a unseen, and one that is  *)
(* taken from its front.                                                   *)
(***************************************************************************)

LEMMA ConcatAppend ==
    ASSUME NEW S, NEW s \in Seq(S), NEW t \in Seq(S), NEW e \in S
    PROVE  s \o Append(t, e) = Append(s \o t, e)
<1> DEFINE m == Len(s)
           n == Len(t)
           l == s \o Append(t, e)
           r == Append(s \o t, e)
<1>1. m \in Nat /\ n \in Nat
  BY LenProperties
<1>2. Append(t, e) \in Seq(S) /\ s \o t \in Seq(S)
  BY AppendProperties, ConcatProperties
<1>3. l \in Seq(S) /\ r \in Seq(S) /\ Len(l) = m + n + 1 /\ Len(r) = m + n + 1
  BY <1>1, <1>2, AppendProperties, ConcatProperties
<1>4. ASSUME NEW i \in 1 .. m + n + 1 PROVE l[i] = r[i]
  BY <1>1, <1>2, AppendProperties, ConcatProperties
<1> HIDE DEF l, r, m, n
<1>5. l = r
  BY <1>1, <1>3, <1>4, SeqEqual
<1> QED
  BY <1>5 DEF l, r

LEMMA AppendHead ==
    ASSUME NEW S, NEW s \in Seq(S), NEW t \in Seq(S), t # <<>>
    PROVE  Append(s, Head(t)) \o Tail(t) = s \o t
<1> DEFINE m == Len(s)
           n == Len(t)
           l == Append(s, Head(t)) \o Tail(t)
           r == s \o t
<1>1. m \in Nat /\ n \in Nat \ {0}
  BY LenProperties, EmptySeq
<1>2. Head(t) \in S /\ Head(t) = t[1] /\ Tail(t) \in Seq(S) /\ Len(Tail(t)) = n - 1
      /\ \A i \in 1 .. n - 1 : Tail(t)[i] = t[i + 1]
  BY HeadTailProperties
<1>3. Append(s, Head(t)) \in Seq(S) /\ Len(Append(s, Head(t))) = m + 1
      /\ (\A i \in 1 .. m : Append(s, Head(t))[i] = s[i]) /\ Append(s, Head(t))[m + 1] = Head(t)
  BY <1>2, AppendProperties
<1>4. l \in Seq(S) /\ r \in Seq(S) /\ Len(l) = m + n /\ Len(r) = m + n
  BY <1>1, <1>2, <1>3, ConcatProperties
<1>5. ASSUME NEW i \in 1 .. m + n PROVE l[i] = r[i]
  <2>1. r[i] = IF i <= m THEN s[i] ELSE t[i - m]
    BY <1>1, ConcatProperties
  <2>2. l[i] = IF i <= m + 1 THEN Append(s, Head(t))[i] ELSE Tail(t)[i - (m + 1)]
    BY <1>1, <1>2, <1>3, ConcatProperties
  <2>3. CASE i <= m
    BY <1>1, <1>3, <2>1, <2>2, <2>3
  <2>4. CASE i = m + 1
    BY <1>1, <1>2, <1>3, <2>1, <2>2, <2>4
  <2>5. CASE i > m + 1
    BY <1>1, <1>2, <2>1, <2>2, <2>5
  <2> QED
    BY <1>1, <2>3, <2>4, <2>5
<1> HIDE DEF l, r, m, n
<1>6. l = r
  BY <1>1, <1>4, <1>5, SeqEqual
<1> QED
  BY <1>6 DEF l, r

(***************************************************************************)
(* Steps of the trace.                                                     *)
(***************************************************************************)

LEMMA RecordTyped ==
    ASSUME TypeOK, NEW f \in Frame, Record(f)
    PROVE  frames' \in Seq(Frame) /\ unseen' \in [Reqs -> Seq(Frame)]
BY AppendProperties DEF TypeOK, Record

LEMMA AnswerTyped ==
    ASSUME TypeOK, NEW r \in Reqs, NEW st \in Statuses, Traced(r, st) \/ Untraced(r, st)
    PROVE  /\ conn' = [conn EXCEPT ![r] = "answered"] /\ status' = [status EXCEPT ![r] = st]
           /\ conn' \in [Reqs -> {"new", "reading", "answered", "sent", "streaming", "dropped"}]
           /\ status' \in [Reqs -> Statuses]
           /\ frames' \in Seq(Frame) /\ unseen' \in [Reqs -> Seq(Frame)]
<1>1. AnswerWith(r, st)
  BY DEF Traced, Untraced
<1>2. CASE Traced(r, st)
  <2>1. [req |-> r, status |-> st] \in Frame
    BY DEF Frame
  <2> QED
    BY <1>1, <1>2, <2>1, RecordTyped DEF TypeOK, Traced, AnswerWith
<1>3. CASE Untraced(r, st)
  BY <1>1, <1>3 DEF TypeOK, Untraced, AnswerWith
<1> QED
  BY <1>2, <1>3

\* A frame of a request that has none yet, recorded with its answer.
LEMMA TracedTells ==
    ASSUME TypeOK, FramesTell, NEW r \in Reqs, NEW st \in Told, status[r] = "none", Traced(r, st)
    PROVE  FramesTell'
<1> DEFINE f == [req |-> r, status |-> st]
           n == Len(frames)
<1>1. st \in Statuses /\ f \in Frame
  BY DEF Told, Statuses, Frame
<1>2. /\ status' = [status EXCEPT ![r] = st] /\ status \in [Reqs -> Statuses]
      /\ frames' = Append(frames, f) /\ frames \in Seq(Frame)
  BY DEF Traced, AnswerWith, Record, TypeOK
<1>3. n \in Nat /\ Len(frames') = n + 1 /\ frames'[n + 1] = f
      /\ \A i \in 1 .. n : frames'[i] = frames[i] /\ frames[i] \in Frame
  BY <1>1, <1>2, LenProperties, AppendProperties, ElementOfSeq
<1>4. \A i \in 1 .. n : frames[i].req \in Reqs /\ frames[i].req # r
  BY <1>3 DEF FramesTell, Told, Frame
<1> HIDE DEF n
<1>5. \A i \in 1 .. Len(frames') : frames'[i].status = status'[frames'[i].req] /\ frames'[i].status \in Told
  <2> TAKE i \in 1 .. Len(frames')
  <2>1. CASE i = n + 1
    BY <1>2, <1>3, <2>1
  <2>2. CASE i \in 1 .. n
    BY <1>2, <1>3, <1>4, <2>2 DEF FramesTell, n
  <2> QED
    BY <1>3, <2>1, <2>2
<1>6. \A i, j \in 1 .. Len(frames') : frames'[i].req = frames'[j].req => i = j
  <2> SUFFICES ASSUME NEW i \in 1 .. n + 1, NEW j \in 1 .. n + 1, frames'[i].req = frames'[j].req
               PROVE  i = j
    BY <1>3
  <2>1. CASE i \in 1 .. n /\ j \in 1 .. n
    BY <1>3, <2>1 DEF FramesTell, n
  <2>2. CASE i = n + 1 \/ j = n + 1
    BY <1>3, <1>4, <2>2
  <2> QED
    BY <1>3, <2>1, <2>2
<1>7. ASSUME NEW q \in Reqs, status'[q] \in Told
      PROVE  \E i \in 1 .. Len(frames') : frames'[i].req = q
  <2>1. CASE q = r
    BY <1>3, <2>1
  <2>2. CASE q # r
    <3>1. PICK i \in 1 .. n : frames[i].req = q
      BY <1>2, <1>7, <2>2 DEF FramesTell, n
    <3> QED
      BY <1>3, <3>1
  <2> QED
    BY <2>1, <2>2
<1> QED
  BY <1>5, <1>6, <1>7 DEF FramesTell

\* An answer without a frame.
LEMMA UntracedTells ==
    ASSUME TypeOK, FramesTell, NEW r \in Reqs, NEW st \in Statuses \ Told,
           status[r] = "none", Untraced(r, st)
    PROVE  FramesTell'
<1>1. status' = [status EXCEPT ![r] = st] /\ status \in [Reqs -> Statuses] /\ frames' = frames
  BY DEF Untraced, AnswerWith, TypeOK
<1>2. \A i \in 1 .. Len(frames) : frames[i] \in Frame
  BY ElementOfSeq DEF TypeOK
<1>3. \A i \in 1 .. Len(frames) : frames[i].req \in Reqs /\ frames[i].req # r
  BY <1>2 DEF FramesTell, Told, Frame
<1> QED
  BY <1>1, <1>3 DEF FramesTell

\* What every answer keeps: a subscriber is sent each frame, and a connection
\* that has not been answered has nothing.
LEMMA AnswerStreams ==
    ASSUME TypeOK, StreamIsTrace, NEW r \in Reqs, NEW st \in Statuses,
           conn[r] = "reading", Traced(r, st) \/ Untraced(r, st), seen' = seen
    PROVE  StreamIsTrace'
<1>1. Subscribers' = Subscribers
  BY AnswerTyped DEF Subscribers, TypeOK
<1>2. SUFFICES ASSUME NEW s \in Subscribers
               PROVE  seen[s] \o unseen'[s] = frames'
  BY <1>1 DEF StreamIsTrace
<1>3. s \in Reqs /\ seen[s] \in Seq(Frame) /\ unseen[s] \in Seq(Frame) /\ seen[s] \o unseen[s] = frames
  BY DEF Subscribers, StreamIsTrace, TypeOK
<1>4. CASE Traced(r, st)
  <2> DEFINE f == [req |-> r, status |-> st]
  <2>1. unseen'[s] = Append(unseen[s], f) /\ frames' = Append(frames, f) /\ f \in Frame
    BY <1>3, <1>4 DEF Traced, Record, Frame
  <2> HIDE DEF f
  <2>2. seen[s] \o Append(unseen[s], f) = Append(seen[s] \o unseen[s], f)
    <3>1. \A a, b \in Seq(Frame), e \in Frame : a \o Append(b, e) = Append(a \o b, e)
      BY ConcatAppend
    <3> QED
      BY <1>3, <2>1, <3>1
  <2> QED
    BY <1>3, <2>1, <2>2
<1>5. CASE Untraced(r, st)
  BY <1>3, <1>5 DEF Untraced
<1> QED
  BY <1>4, <1>5

(***************************************************************************)
(* The invariant is inductive: one step per action.                        *)
(***************************************************************************)

LEMMA InitTraces == ASSUME ServerAssumption, ServerInit PROVE Traces
<1>1. <<>> \in Seq(Frame) /\ Len(<<>>) = 0
  BY EmptySeq
<1>2. TypeOK
  BY <1>1 DEF ServerAssumption, ServerInit, TypeOK, Statuses
<1>3. BucketsCount /\ NothingYet /\ StreamIsTrace
  BY FS_EmptySet DEF ServerInit, BucketsCount, NothingYet, StreamIsTrace, Subscribers
<1>4. FramesTell
  BY <1>1 DEF ServerInit, FramesTell, Told
<1>5. FileIsFrames
  BY DEF ServerInit, FileIsFrames
<1> QED
  BY <1>2, <1>3, <1>4, <1>5 DEF Traces

\* An answer, whatever it does to the buckets.
LEMMA AnswerKeeps ==
    ASSUME Traces, NEW r \in Reqs, NEW st \in Statuses, up, conn[r] = "reading",
           \/ Traced(r, st) /\ st \in Told
           \/ Untraced(r, st) /\ st \notin Told,
           BucketsCount', now' = now, up' = up, ask' = ask, seen' = seen, file' = file,
           buckets' \in [Keys -> SUBSET Hit], admitted' \in [Keys -> SUBSET Hit]
    PROVE  Traces'
<1>1. TypeOK'
  BY AnswerTyped DEF Traces, TypeOK
<1>2. status[r] = "none"
  BY DEF Traces, NothingYet
<1>3. NothingYet'
  BY AnswerTyped DEF Traces, TypeOK, NothingYet
<1>4. StreamIsTrace'
  BY AnswerStreams DEF Traces
<1>5. FramesTell'
  BY <1>2, TracedTells, UntracedTells DEF Traces
<1>6. FileIsFrames'
  BY DEF Traces, FileIsFrames
<1> QED
  BY <1>1, <1>3, <1>4, <1>5, <1>6 DEF Traces

\* A bucket that is trimmed and may gain the request of this instant.
LEMMA TrimCounts ==
    ASSUME ServerAssumption, Traces, NEW k \in Keys, NEW gained \in SUBSET Hit,
           IsFiniteSet(gained), now' = now,
           buckets' = [buckets EXCEPT ![k] = Counted(@) \cup gained],
           admitted' = [admitted EXCEPT ![k] = @ \cup gained]
    PROVE  /\ BucketsCount'
           /\ buckets' \in [Keys -> SUBSET Hit] /\ admitted' \in [Keys -> SUBSET Hit]
<1>1. now \in Nat /\ Window \in Nat /\ buckets \in [Keys -> SUBSET Hit] /\ admitted \in [Keys -> SUBSET Hit]
  BY DEF Traces, TypeOK, ServerAssumption
<1>2. \A q \in Keys, hit \in Hit : hit \in admitted[q] /\ hit \notin buckets[q] => hit.at < now - Window
  BY DEF Traces, BucketsCount
<1>3. \A hit \in Hit : hit.at \in Nat
  BY DEF Hit
<1>4. buckets' \in [Keys -> SUBSET Hit] /\ admitted' \in [Keys -> SUBSET Hit]
  BY <1>1 DEF Counted
<1>5. ASSUME NEW q \in Keys
      PROVE  buckets'[q] \subseteq admitted'[q]
  BY <1>1 DEF Traces, BucketsCount, Counted
<1>6. ASSUME NEW q \in Keys, NEW hit \in admitted'[q] \ buckets'[q]
      PROVE  hit.at < now' - Window
  BY <1>1, <1>2, <1>3, <1>4, <1>6 DEF Counted, Cutoff
<1>7. ASSUME NEW q \in Keys
      PROVE  IsFiniteSet(admitted'[q])
  BY <1>1, FS_Union DEF Traces, BucketsCount
<1> QED
  BY <1>4, <1>5, <1>6, <1>7 DEF BucketsCount

LEMMA NextTraces == ASSUME ServerAssumption, Traces, [ServerNext]_serverVars PROVE Traces'
<1> USE DEF Traces
<1>1. CASE Tick
  <2>1. TypeOK'
    BY <1>1 DEF Tick, TypeOK, ServerAssumption
  <2>2. BucketsCount'
    <3>1. now \in Nat /\ now' = now + 1 /\ Window \in Nat /\ \A k \in Keys : admitted[k] \subseteq Hit
      BY <1>1 DEF Tick, TypeOK, ServerAssumption
    <3>2. \A hit \in Hit : hit.at \in Nat
      BY DEF Hit
    <3>3. \A k \in Keys : \A hit \in admitted[k] \ buckets[k] : hit.at < now - Window /\ hit.at \in Nat
      BY <3>1, <3>2 DEF BucketsCount
    <3> QED
      BY <1>1, <3>1, <3>3 DEF Tick, BucketsCount
  <2> QED
    BY <1>1, <2>1, <2>2 DEF Tick, NothingYet, StreamIsTrace, Subscribers, FramesTell, FileIsFrames
<1>2. ASSUME NEW r \in Reqs, Accept(r) PROVE Traces'
  <2>1. conn' = [conn EXCEPT ![r] = "reading"] /\ conn[r] = "new"
    BY <1>2 DEF Accept
  <2>2. TypeOK' /\ NothingYet'
    BY <1>2, <2>1 DEF Accept, TypeOK, NothingYet
  <2>3. Subscribers' = Subscribers
    BY <2>1 DEF TypeOK, Subscribers
  <2> QED
    BY <1>2, <2>2, <2>3 DEF Accept, BucketsCount, StreamIsTrace, FramesTell, FileIsFrames
<1>3. ASSUME NEW r \in Reqs, RefuseBody(r) PROVE Traces'
  <2>1. BucketsCount' /\ "bad_body" \in Statuses /\ "bad_body" \notin Told
    BY <1>3 DEF RefuseBody, BucketsCount, Statuses, Told
  <2>2. buckets' \in [Keys -> SUBSET Hit] /\ admitted' \in [Keys -> SUBSET Hit]
    BY <1>3 DEF RefuseBody, TypeOK
  <2> QED
    BY <1>3, <2>1, <2>2, AnswerKeeps DEF RefuseBody
<1>4. ASSUME NEW r \in Reqs, NotFound(r) PROVE Traces'
  <2>1. BucketsCount' /\ "not_found" \in Statuses /\ "not_found" \in Told
    BY <1>4 DEF NotFound, BucketsCount, Statuses, Told
  <2>2. buckets' \in [Keys -> SUBSET Hit] /\ admitted' \in [Keys -> SUBSET Hit]
    BY <1>4 DEF NotFound, TypeOK
  <2> QED
    BY <1>4, <2>1, <2>2, AnswerKeeps DEF NotFound
<1>5. ASSUME NEW r \in Reqs, RateLimited(r) PROVE Traces'
  <2> DEFINE k == ask[r].key
  <2>1. k \in Keys /\ "too_many" \in Statuses /\ "too_many" \in Told
    BY DEF TypeOK, Statuses, Told
  <2>2. buckets' = [buckets EXCEPT ![k] = Counted(@) \cup {}] /\ admitted' = [admitted EXCEPT ![k] = @ \cup {}]
    BY <1>5, <2>1 DEF RateLimited, TypeOK
  <2>3. {} \in SUBSET Hit /\ IsFiniteSet({}) /\ now' = now
    BY <1>5, FS_EmptySet DEF RateLimited
  <2> HIDE DEF k
  <2>4. BucketsCount' /\ buckets' \in [Keys -> SUBSET Hit] /\ admitted' \in [Keys -> SUBSET Hit]
    BY <2>1, <2>2, <2>3, TrimCounts
  <2> QED
    BY <1>5, <2>1, <2>4, AnswerKeeps DEF RateLimited
<1>6. ASSUME NEW r \in Reqs, RunHandler(r) PROVE Traces'
  <2> DEFINE k == ask[r].key
             hit == [at |-> now, req |-> r]
  <2>1. k \in Keys /\ hit \in Hit /\ {"ok", "error"} \subseteq Statuses /\ "ok" \in Told /\ "error" \notin Told
    BY DEF TypeOK, Statuses, Told, Hit
  <2>2. BucketsCount' /\ buckets' \in [Keys -> SUBSET Hit] /\ admitted' \in [Keys -> SUBSET Hit]
    <3>1. CASE buckets' = buckets /\ admitted' = admitted
      BY <1>6, <3>1 DEF RunHandler, BucketsCount, TypeOK
    <3>2. CASE /\ buckets' = [buckets EXCEPT ![k] = Counted(@) \cup {hit}]
               /\ admitted' = [admitted EXCEPT ![k] = @ \cup {hit}]
      <4>1. {hit} \in SUBSET Hit /\ IsFiniteSet({hit}) /\ now' = now
        BY <1>6, <2>1, FS_Singleton DEF RunHandler
      <4> HIDE DEF k, hit
      <4> QED
        BY <2>1, <3>2, <4>1, TrimCounts
    <3> QED
      BY <1>6, <3>1, <3>2 DEF RunHandler
  <2>3. CASE Traced(r, "ok")
    BY <1>6, <2>1, <2>2, <2>3, AnswerKeeps DEF RunHandler
  <2>4. CASE Untraced(r, "error")
    BY <1>6, <2>1, <2>2, <2>4, AnswerKeeps DEF RunHandler
  <2> QED
    BY <1>6, <2>3, <2>4 DEF RunHandler
<1>7. ASSUME NEW r \in Reqs, Subscribe(r) PROVE Traces'
  <2>1. /\ conn' = [conn EXCEPT ![r] = "streaming"] /\ unseen' = [unseen EXCEPT ![r] = frames]
        /\ seen[r] = <<>> /\ frames' = frames /\ seen' = seen
    BY <1>7 DEF Subscribe, NothingYet
  <2>2. TypeOK' /\ NothingYet'
    BY <1>7, <2>1 DEF Subscribe, TypeOK, NothingYet
  <2>3. ASSUME NEW s \in Subscribers' PROVE seen'[s] \o unseen'[s] = frames'
    <3>1. CASE s = r
      <4>1. unseen'[r] = frames /\ frames \in Seq(Frame)
        BY <2>1 DEF TypeOK, Subscribers
      <4> QED
        BY <2>1, <3>1, <4>1, ConcatEmptySeq
    <3>2. CASE s # r
      BY <2>1, <2>3, <3>2 DEF StreamIsTrace, Subscribers, TypeOK
    <3> QED
      BY <3>1, <3>2
  <2>4. StreamIsTrace'
    BY <2>3 DEF StreamIsTrace
  <2> QED
    BY <1>7, <2>2, <2>4 DEF Subscribe, BucketsCount, FramesTell, FileIsFrames
<1>8. ASSUME NEW r \in Reqs, Deliver(r) PROVE Traces'
  <2>1. /\ seen' = [seen EXCEPT ![r] = Append(@, Head(unseen[r]))] /\ unseen' = [unseen EXCEPT ![r] = Tail(@)]
        /\ seen[r] \in Seq(Frame) /\ unseen[r] \in Seq(Frame) /\ unseen[r] # <<>>
        /\ r \in Subscribers /\ conn' = conn /\ frames' = frames
    BY <1>8 DEF Deliver, TypeOK, Subscribers
  <2>2. Head(unseen[r]) \in Frame /\ Tail(unseen[r]) \in Seq(Frame)
    BY <2>1, HeadTailProperties
  <2>3. Append(seen[r], Head(unseen[r])) \in Seq(Frame)
    BY <2>1, <2>2, AppendProperties
  <2>4. TypeOK' /\ NothingYet'
    BY <1>8, <2>1, <2>2, <2>3 DEF Deliver, TypeOK, NothingYet, Subscribers
  <2>5. Append(seen[r], Head(unseen[r])) \o Tail(unseen[r]) = seen[r] \o unseen[r]
    BY <2>1, AppendHead, Zenon
  <2>6. StreamIsTrace'
    BY <2>1, <2>5 DEF StreamIsTrace, Subscribers, TypeOK
  <2> QED
    BY <1>8, <2>4, <2>6 DEF Deliver, BucketsCount, FramesTell, FileIsFrames
<1>9. ASSUME NEW r \in Reqs, Send(r) \/ ClientLeaves(r) PROVE Traces'
  <2>1. \E to \in {"sent", "dropped"} : conn' = [conn EXCEPT ![r] = to]
    BY <1>9 DEF Send, ClientLeaves
  <2>2. UNCHANGED <<now, up, ask, status, buckets, frames, unseen, seen, file, admitted>>
    BY <1>9 DEF Send, ClientLeaves
  <2>3. TypeOK' /\ NothingYet' /\ Subscribers' \subseteq Subscribers
    BY <2>1, <2>2 DEF TypeOK, NothingYet, Subscribers
  <2> QED
    BY <2>2, <2>3 DEF BucketsCount, StreamIsTrace, FramesTell, FileIsFrames
<1>10. CASE Shutdown
  <2>1. TypeOK' /\ NothingYet' /\ Subscribers' = {} /\ FileIsFrames'
    BY <1>10 DEF Shutdown, TypeOK, NothingYet, Subscribers, FileIsFrames
  <2> QED
    BY <1>10, <2>1 DEF Shutdown, BucketsCount, StreamIsTrace, FramesTell
<1>11. CASE UNCHANGED serverVars
  BY <1>11 DEF serverVars, TypeOK, BucketsCount, NothingYet, StreamIsTrace, Subscribers, FramesTell, FileIsFrames
<1> QED
  BY <1>1, <1>2, <1>3, <1>4, <1>5, <1>6, <1>7, <1>8, <1>9, <1>10, <1>11 DEF ServerNext, Request

LEMMA SpecTraces == ServerSpec => []Traces
<1>1. ServerInit => Traces
  BY InitTraces, ServerAssumption
<1>2. Traces /\ [ServerNext]_serverVars => Traces'
  BY NextTraces, ServerAssumption
<1> QED
  BY <1>1, <1>2, PTL DEF ServerSpec

(***************************************************************************)
(* What the server promises.                                               *)
(***************************************************************************)

\* The server's state is what its types say: handle_request leaves no
\* connection without a state and no frame without a request and a status.
THEOREM ServerTyped == ServerSpec => []TypeOK
<1>1. Traces => TypeOK
  BY DEF Traces
<1> QED
  BY <1>1, SpecTraces, PTL

\* Whenever a client subscribes to the trace events, what it has received and
\* what is on its way are all the frames in the order they were recorded
\* (TraceState.record and the snapshot its stream starts with).
THEOREM StreamsAreTheTrace == ServerSpec => []StreamIsTrace
<1>1. Traces => StreamIsTrace
  BY DEF Traces
<1> QED
  BY <1>1, SpecTraces, PTL

LEMMA FileTells == Traces => TraceFileTellsResponses
<1> SUFFICES ASSUME Traces, file # NoTrace, NEW r \in Reqs
             PROVE  LET about == {i \in DOMAIN file : file[i].req = r}
                    IN  IF status[r] \in {"not_found", "too_many", "ok"}
                        THEN \E i \in about : about = {i} /\ file[i].status = status[r]
                        ELSE about = {}
  BY DEF TraceFileTellsResponses
<1> DEFINE about == {i \in DOMAIN file : file[i].req = r}
<1>1. file = frames /\ DOMAIN file = 1 .. Len(frames)
  BY LenProperties DEF Traces, TypeOK, FileIsFrames
<1>2. CASE status[r] \in Told
  <2>1. PICK i \in 1 .. Len(frames) : frames[i].req = r
    BY <1>2 DEF Traces, FramesTell
  <2>2. about = {i} /\ file[i].status = status[r]
    BY <1>1, <2>1 DEF Traces, FramesTell
  <2> QED
    BY <1>2, <2>2 DEF Told
<1>3. CASE status[r] \notin Told
  <2>1. about = {}
    BY <1>1, <1>3 DEF Traces, FramesTell
  <2> QED
    BY <1>3, <2>1 DEF Told
<1> QED
  BY <1>2, <1>3

\* The trace file written when the server ends has exactly one frame for every
\* response told, with its status, however requests, subscribers, leaving
\* clients and the signal interleave (write_request_trace_file).
THEOREM TheFileTellsResponses == ServerSpec => []TraceFileTellsResponses
BY FileTells, SpecTraces, PTL

\* What a bucket counts is what was admitted in the window that ends now.
LEMMA CountedIsAdmitted ==
    ASSUME ServerAssumption, Traces, NEW k \in Keys
    PROVE  /\ Counted(buckets[k]) = {hit \in admitted[k] : hit.at >= now - Window}
           /\ Cardinality(Counted(buckets[k])) \in Nat
<1>1. now \in Nat /\ Window \in Nat /\ buckets[k] \subseteq admitted[k] /\ admitted[k] \subseteq Hit
      /\ IsFiniteSet(admitted[k])
  BY DEF Traces, TypeOK, ServerAssumption, BucketsCount
<1>2. \A hit \in admitted[k] : hit.at \in Nat /\ (hit \notin buckets[k] => hit.at < now - Window)
  BY <1>1 DEF Traces, BucketsCount, Hit
<1>3. Counted(buckets[k]) = {hit \in admitted[k] : hit.at >= now - Window}
  BY <1>1, <1>2 DEF Counted, Cutoff
<1>4. IsFiniteSet(Counted(buckets[k]))
  BY <1>1, FS_Subset DEF Counted
<1> QED
  BY <1>3, <1>4, FS_CardinalityType

LEMMA LimitInductive == ASSUME ServerAssumption, Traces, ServerNext PROVE LimitStep
<1> SUFFICES ASSUME NEW k \in Keys
             PROVE  LET hits    == Cardinality({hit \in admitted[k] : hit.at >= now - Window})
                        refused == \E r \in Reqs : ask[r].key = k /\ status'[r] = "too_many" /\ status[r] # "too_many"
                    IN  /\ refused => hits >= Limit
                        /\ admitted'[k] # admitted[k] => hits < Limit
  BY DEF LimitStep
<1> DEFINE hits == Cardinality({hit \in admitted[k] : hit.at >= now - Window})
<1>1. hits \in Nat /\ Limit \in Nat /\ (Admits(k) <=> hits < Limit)
  BY CountedIsAdmitted DEF ServerAssumption, Admits
<1> HIDE DEF hits
<1>2. ASSUME NEW r \in Reqs, ask[r].key = k, status'[r] = "too_many", status[r] # "too_many"
      PROVE  hits >= Limit
  <2>1. RateLimited(r)
    <3>1. status \in [Reqs -> Statuses]
      BY DEF Traces, TypeOK
    <3>2. PICK q \in Reqs : Request(q)
      BY <1>2, <3>1 DEF ServerNext, Tick, Accept, Deliver, Send, ClientLeaves, Shutdown
    <3>3. PICK st \in {"bad_body", "not_found", "too_many", "ok", "error"} :
             status' = [status EXCEPT ![q] = st] /\ (st = "too_many" => RateLimited(q))
      BY <1>2, <3>2 DEF Request, RefuseBody, NotFound, RunHandler, Subscribe, RateLimited, Traced, Untraced, AnswerWith
    <3> QED
      BY <1>2, <3>1, <3>3
  <2> QED
    BY <1>1, <1>2, <2>1 DEF RateLimited
<1>3. ASSUME admitted'[k] # admitted[k]
      PROVE  hits < Limit
  <2>1. PICK r \in Reqs : RunHandler(r)
    BY <1>3 DEF ServerNext, Tick, Accept, Request, RefuseBody, NotFound, RateLimited, Subscribe, Deliver, Send,
                ClientLeaves, Shutdown
  <2>2. ask[r].key = k /\ Admits(k)
    BY <1>3, <2>1 DEF RunHandler, Traces, TypeOK
  <2> QED
    BY <1>1, <2>2
<1> QED
  BY <1>2, <1>3 DEF hits

\* However often a bucket is trimmed, a request is answered 429 exactly when the
\* limit's worth of requests of its key was admitted in the window that ends
\* now, and a refused request does not count (RateLimitState.check).
THEOREM LimitIsExact == ServerSpec => LimitExact
<1>1. Traces /\ [ServerNext]_serverVars => [LimitStep]_serverVars
  BY LimitInductive, ServerAssumption
<1> QED
  BY <1>1, SpecTraces, PTL DEF ServerSpec, LimitExact

==============================================================================
