------------------------------ MODULE OrvInterp ------------------------------
(***************************************************************************)
(* The control flow of the interpreter (orv-runtime/src/interp.rs) over a  *)
(* request handler: blocks, loops, calls, user domains, @html, @unsafe,    *)
(* try, db.transaction, jobs with retries, cron handlers, @respond and the *)
(* @after blocks.                                                          *)
(*                                                                         *)
(* The recursion of eval_block_ctl is a stack of blocks.  The program is   *)
(* chosen as it runs: wherever the code evaluates the next statement of a  *)
(* block, any statement may come, or the block ends.  What travels between *)
(* the blocks is the code's own state: a Rust Err, the pending_return and  *)
(* loop_signal fields, and the fields that calls set and restore.          *)
(*                                                                         *)
(* A statement is an expression, after which eval_block_ctl looks at the   *)
(* signals, or a `let`, after which it does not; the same goes for what is *)
(* evaluated as a part of a larger expression.                             *)
(***************************************************************************)
EXTENDS Naturals, Sequences, FiniteSetsExt

CONSTANTS MaxDepth,      \* bound on blocks inside blocks
          MaxStatements, \* bound on statements evaluated
          MaxRetries,    \* largest `retries` of a job
          MaxAfters,     \* bound on registered @after blocks
          Statements,    \* the kinds of statement the program may use
          Clients        \* what a client may send: session, role, token, valid

ASSUME BoundsAssumption == MaxRetries \in Nat

VARIABLES stack,    \* the blocks under evaluation, the handler's first
          mode,     \* what the innermost block is about to do
          ret,      \* pending_return is Some
          loop,     \* loop_signal
          env,      \* whose variables self.env holds: the block of a call
          html,     \* html_buffer: the @html block it belongs to, 0 for None
          content,  \* content_slot: the domain call that filled it, 0 for None
          unsafe,   \* unsafe_depth
          scopes,   \* length of dynamic_scopes
          response, \* response is Some
          queue,    \* after_queue
          phase,    \* run_handler: the body, the @after blocks, the outcome
          client,   \* what the request at hand has
          db,       \* the writes that are in the tables
          made,     \* how many writes there were (history)
          undone,   \* the writes of failed transactions (history)
          fuel      \* statements that may still come (bound)

signals == <<ret, loop>>
fields  == <<env, html, content, unsafe, scopes>>
tables  == <<db, made, undone>>
request == <<response, queue, phase, client>>
vars    == <<stack, mode, signals, fields, request, tables, fuel>>

Calls == {"function", "lambda", "domain"}

Top == stack[Len(stack)]
Below == SubSeq(stack, 1, Len(stack) - 1)

\* The call the innermost block belongs to, or the handler itself.
Own == Max({i \in DOMAIN stack : stack[i].kind \in Calls \cup {"handler", "after"}})

\* The @html block of that call the innermost block is inside of.
OwnHtml == Max({0} \cup {i \in Own + 1 .. Len(stack) : stack[i].kind = "html"})

\* The call of a user domain the innermost block is inside of: its block fills
\* the slot, if it was given one.
OwnContent ==
  LET domains == {i \in DOMAIN stack : stack[i].kind = "domain"}
  IN  IF domains = {} THEN 0
      ELSE IF stack[Max(domains)].left = 1 THEN Max(domains) ELSE 0

-----------------------------------------------------------------------------
(* Blocks.                                                                 *)

\* What the code keeps in local variables while it evaluates the block.
Keep(kind) ==
  CASE kind \in Calls       -> [env |-> env, html |-> html, ret |-> ret,
                                loop |-> loop, content |-> content]
    [] kind = "html"        -> [html |-> html]
    [] kind = "transaction" -> [db |-> db, made |-> made]
    [] OTHER                -> [x \in {} |-> 0]

\* A block inside a statement of kind as; left counts attempts, handlers or
\* marks a block argument.  History: a response or a return has ended it (dead),
\* a break or a continue has ended it or this round of it (cut), or it has
\* swallowed an error of a call (dirty).
Block(kind, as, left) ==
  [kind |-> kind, as |-> as, left |-> left, keep |-> Keep(kind),
   dead |-> FALSE, cut |-> FALSE, dirty |-> FALSE]

Enter(kind, as, left) ==
  /\ Len(stack) < MaxDepth
  /\ stack' = Append(stack, Block(kind, as, left))
  /\ mode' = "next"

\* The statement the block was a part of is evaluated: back in the block below.
LeaveTo(blocks) == /\ stack' = blocks
                   /\ mode' = IF Top.as = "expr" THEN "evaluated" ELSE "next"

Leave == LeaveTo(Below)

Evaluates(kind) == /\ mode = "next" /\ stack # <<>> /\ fuel > 0
               /\ kind \in Statements
               /\ fuel' = fuel - 1

\* Dead(i): a signal raised now ends block i, as all between it and the
\* statement are expression statements.
Dead(i, through) ==
  \A k \in i + 1 .. Len(stack) :
    stack[k].as = "expr" /\ stack[k].kind \notin through

Kill(blocks) ==
  stack' = [i \in DOMAIN stack |->
              [stack[i] EXCEPT !.dead = @ \/ i \in blocks]]

-----------------------------------------------------------------------------
(* Statements without a block of their own.                                *)

\* A write of @db.
Write ==
  /\ Evaluates("write")
  /\ made' = made + 1 /\ db' = db \cup {made + 1}
  /\ mode' = "evaluated"
  /\ UNCHANGED <<stack, signals, fields, request, undone>>

\* A response is recorded, the first one is kept, and every block that
\* expression statements lead to is to end.
Answer ==
  /\ response' = TRUE /\ ret' = TRUE
  /\ Kill({i \in DOMAIN stack : Dead(i, {"lambda"})})
  /\ mode' = "evaluated"

GoOn  == mode' = "evaluated" /\ UNCHANGED <<stack, response, ret>>
Raise == mode' = "error" /\ UNCHANGED <<stack, response, ret>>

OnlyAnswers == UNCHANGED <<loop, fields, queue, phase, client, tables>>

Respond ==
  /\ Evaluates("respond")
  /\ Answer \/ Raise
  /\ OnlyAnswers

Redirect ==
  /\ Evaluates("respond") /\ html = 0
  /\ \E target \in {"url", "route"} : IF target = "url" THEN Answer ELSE Raise
  /\ OnlyAnswers

\* @serve of a page, a file or a directory: what is not there is answered 404
\* and what lies outside 403; the rest is an error.
Serve ==
  /\ Evaluates("respond") /\ html = 0
  /\ \E target \in {"page", "file", "missing", "outside", "no rest", "too large"} :
       IF target \in {"no rest", "too large"} THEN Raise ELSE Answer
  /\ OnlyAnswers

\* @body: T, @query: T and @form: T.
BindRequest ==
  /\ Evaluates("policy") /\ html = 0
  /\ IF client.valid THEN GoOn ELSE Answer
  /\ OnlyAnswers

\* @session and @session required.
Session ==
  /\ Evaluates("policy") /\ html = 0
  /\ \E required \in BOOLEAN :
       IF required /\ ~client.session THEN Answer ELSE GoOn
  /\ OnlyAnswers

\* @csrf and @csrf exempt.
Csrf ==
  /\ Evaluates("policy") /\ html = 0
  /\ \E exempt \in BOOLEAN : IF exempt \/ client.token THEN GoOn ELSE Answer
  /\ OnlyAnswers

\* @Auth required and @Auth role=...; a role asks for a session too.
Auth ==
  /\ Evaluates("policy") /\ html = 0
  /\ \E required, role \in BOOLEAN :
       /\ required \/ role
       /\ IF client.session /\ (role => client.role) THEN GoOn ELSE Answer
  /\ OnlyAnswers

\* @rateLimit inside a handler only says what the server has enforced.
RateLimitPolicy ==
  /\ Evaluates("policy") /\ html = 0
  /\ \E policy \in {"exempt", "complete", "missing limit"} :
       IF policy = "missing limit" THEN Raise ELSE GoOn
  /\ OnlyAnswers

\* `return`: the one statement that ends its block at once, and with it the rest
\* of its call.
Return ==
  /\ Evaluates("return")
  /\ ret' = TRUE
  /\ Kill({i \in DOMAIN stack : Dead(i, Calls)})
  /\ mode' = "end"
  /\ UNCHANGED <<loop, fields, request, tables>>

\* break and continue, of the innermost loop of the same call or, where there is
\* none, of the call: nothing checks that there is one.  A signal that was pending
\* gives way.
LoopControl(signal) ==
  LET loops  == {i \in Own .. Len(stack) : stack[i].kind = "loop"}
      target == Max({Own} \cup loops)
  IN  /\ Evaluates("loop")
      /\ loop' = signal
      /\ stack' = [i \in DOMAIN stack |->
                     IF i < Own THEN stack[i]
                     ELSE [stack[i] EXCEPT !.cut = i >= target /\ Dead(i, {})]]
      /\ mode' = "evaluated"
      /\ UNCHANGED <<ret, fields, request, tables>>

Break    == LoopControl("break")
Continue == LoopControl("continue")

\* throw, and every error the runtime raises itself.
Throw ==
  /\ Evaluates("throw")
  /\ mode' = "error"
  /\ UNCHANGED <<stack, signals, fields, request, tables>>

\* @after { } inside a request; in @html it would be a tag.
RegisterAfter ==
  /\ Evaluates("after") /\ html = 0 /\ Len(queue) < MaxAfters
  /\ queue' = Append(queue, phase)
  /\ mode' = "evaluated"
  /\ UNCHANGED <<stack, signals, fields, response, phase, client, tables>>

-----------------------------------------------------------------------------
(* Statements with blocks.                                                 *)

As == {"expr", "let"}

\* if, when, a bare block, @before, and a tag inside @html.
If ==
  /\ Evaluates("if")
  /\ \E as \in As : Enter("plain", as, 0)
  /\ UNCHANGED <<signals, fields, request, tables>>

\* for and while, entered for the first time round.
Loop ==
  /\ Evaluates("loop")
  /\ Enter("loop", "expr", 0)
  /\ UNCHANGED <<signals, fields, request, tables>>

\* try with a catch (left = 1) or without.
Try ==
  /\ Evaluates("try")
  /\ \E catch \in 0 .. 1 : Enter("try", "expr", catch)
  /\ UNCHANGED <<signals, fields, request, tables>>

\* call_function and call_lambda: the call works in variables of its own, with
\* pending_return and html_buffer taken out of the way.
Called == /\ env' = Len(stack) + 1 /\ ret' = FALSE /\ html' = 0
          /\ UNCHANGED <<loop, unsafe, scopes, request, tables>>

Call ==
  /\ Evaluates("call")
  /\ \E kind \in {"function", "lambda"}, as \in As : Enter(kind, as, 0)
  /\ Called
  /\ UNCHANGED content

\* call_user_domain, given a block (left = 1) or none; in @html a tag.
UserDomain ==
  /\ Evaluates("domain") /\ html = 0
  /\ \E given \in 0 .. 1, as \in As :
       /\ Enter("domain", as, given)
       /\ content' = IF given = 1 THEN Len(stack) + 1 ELSE 0
  /\ Called

\* @content: the block in the slot, if any.
Content ==
  /\ Evaluates("domain") /\ html = 0
  /\ IF content = 0 THEN mode' = "evaluated" /\ UNCHANGED stack
     ELSE Enter("plain", "expr", 0)
  /\ UNCHANGED <<signals, fields, request, tables>>

Html ==
  /\ Evaluates("html")
  /\ Enter("html", "expr", 0)
  /\ html' = Len(stack) + 1
  /\ UNCHANGED <<signals, env, content, unsafe, scopes, request, tables>>

Unsafe ==
  /\ Evaluates("unsafe") /\ html = 0
  /\ Enter("unsafe", "expr", 0)
  /\ unsafe' = unsafe + 1
  /\ UNCHANGED <<signals, env, html, content, scopes, request, tables>>

\* eval_db_transaction: a snapshot, then the blocks of its arguments.
Transaction ==
  /\ Evaluates("transaction")
  /\ \E as \in As : Enter("transaction", as, 0)
  /\ UNCHANGED <<signals, fields, request, tables>>

\* job.enqueue with a registered handler: it runs at once, in the variables in
\* force, with its parameters in a dynamic scope.
Enqueue ==
  /\ Evaluates("job") /\ html = 0
  /\ \E retries \in 0 .. MaxRetries : Enter("job", "expr", retries)
  /\ scopes' = scopes + 1
  /\ UNCHANGED <<signals, env, html, content, unsafe, request, tables>>

\* cron.runDue with left + 1 registered handlers.
RunDueCrons ==
  /\ Evaluates("cron") /\ html = 0
  /\ \E more \in 0 .. 1 : Enter("cron", "expr", more)
  /\ UNCHANGED <<signals, fields, request, tables>>

-----------------------------------------------------------------------------
(* The end of a statement and of a block.                                  *)

\* eval_block_ctl after an expression statement.
LookAtSignals ==
  /\ mode = "evaluated"
  /\ mode' = IF ret \/ loop # "none" THEN "end" ELSE "next"
  /\ UNCHANGED <<stack, signals, fields, request, tables, fuel>>

LastStatement ==
  /\ mode = "next" /\ stack # <<>>
  /\ mode' = "end"
  /\ UNCHANGED <<stack, signals, fields, request, tables, fuel>>

Ends(kinds) == mode = "end" /\ stack # <<>> /\ Top.kind \in kinds /\ UNCHANGED fuel

EndPlain ==
  /\ Ends({"plain", "try", "catch"})
  /\ Leave
  /\ UNCHANGED <<signals, fields, request, tables>>

\* The loop looks at its own signal only.
Bug_LoopIgnoresReturn == loop = "break"

\* For and While after a round: break and pending_return leave the loop; else
\* its condition decides.
LoopLeaves == loop = "break" \/ ret

\* A loop takes every loop signal as its own, also one that ended a block around
\* it; that block goes on.
RoundOver(blocks) ==
  [i \in DOMAIN blocks |->
     IF i < Own THEN blocks[i]
     ELSE [blocks[i] EXCEPT !.cut = @ /\ i = Len(stack) /\ loop = "break"]]

EndRound ==
  /\ Ends({"loop"})
  /\ loop' = "none"
  /\ \/ LeaveTo(RoundOver(Below))
     \/ ~LoopLeaves /\ stack' = RoundOver(stack) /\ mode' = "next"
  /\ UNCHANGED <<ret, fields, request, tables>>

\* The end of a call: a response ends the caller too, but not that of a lambda.
ReturnOf(block) == IF block.kind = "lambda" THEN block.keep.ret
                   ELSE response \/ block.keep.ret

\* A lambda leaves its own variables behind.
Bug_EnvAfter(block) == IF block.kind = "lambda" THEN env ELSE block.keep.env

\* The variables of the caller.
EnvAfter(block) == block.keep.env

EndCall ==
  /\ Ends(Calls)
  /\ Leave
  /\ ret' = ReturnOf(Top) /\ loop' = Top.keep.loop
  /\ env' = EnvAfter(Top) /\ html' = Top.keep.html
  /\ content' = IF Top.kind = "domain" THEN Top.keep.content ELSE content
  /\ UNCHANGED <<unsafe, scopes, request, tables>>

EndHtml ==
  /\ Ends({"html"})
  /\ Leave
  /\ html' = Top.keep.html
  /\ UNCHANGED <<signals, env, content, unsafe, scopes, request, tables>>

EndUnsafe ==
  /\ Ends({"unsafe"})
  /\ Leave
  /\ unsafe' = unsafe - 1
  /\ UNCHANGED <<signals, env, html, content, scopes, request, tables>>

\* The block on top starts again, whatever the signals.
Again(blocks) == [blocks EXCEPT ![Len(stack)].dead = FALSE, ![Len(stack)].cut = FALSE]

\* The next argument of the transaction, or its end.
EndTransaction ==
  /\ Ends({"transaction"})
  /\ \/ Leave
     \/ /\ stack' = Again(stack)
        /\ mode' = "next"
  /\ UNCHANGED <<signals, fields, request, tables>>

\* The Job or CronRun row.
Row == made' = made + 1 /\ db' = db \cup {made + 1} /\ UNCHANGED undone

EndJob ==
  /\ Ends({"job"})
  /\ Leave /\ Row
  /\ scopes' = scopes - 1
  /\ UNCHANGED <<signals, env, html, content, unsafe, request>>

NextCron == /\ stack' = Again([stack EXCEPT ![Len(stack)].left = @ - 1])
            /\ mode' = "next"

EndCron ==
  /\ Ends({"cron"})
  /\ IF Top.left > 0 THEN NextCron ELSE Leave
  /\ Row
  /\ UNCHANGED <<signals, fields, request>>

-----------------------------------------------------------------------------
(* An error on its way up.                                                 *)

Passes(kinds) == mode = "error" /\ stack # <<>> /\ Top.kind \in kinds /\ UNCHANGED fuel

\* Nothing catches it.
ErrorPasses ==
  /\ \/ Passes({"plain", "loop", "catch"})
     \/ Passes({"try"}) /\ Top.left = 0
  /\ stack' = Below
  /\ UNCHANGED <<mode, signals, fields, request, tables>>

\* The call the block below belongs to.
Caller == Max({i \in DOMAIN Below : Below[i].kind \in Calls \cup {"handler", "after"}})

\* A failing call leaves its own signals in place of those its caller had pending:
\* a block of the caller that one of these has ended goes on.
CallFailed ==
  stack' = [i \in DOMAIN Below |->
              IF i < Caller THEN Below[i]
              ELSE [Below[i] EXCEPT !.dead = @ /\ ret, !.cut = @ /\ loop = Top.keep.loop]]

\* The call's `?` leaves what the call set.
ErrorPassesCall ==
  /\ Passes({"function", "lambda"})
  /\ CallFailed
  /\ UNCHANGED <<mode, signals, fields, request, tables>>

\* Domain calls, @html, @unsafe and jobs take theirs back first.
ErrorPassesDomain ==
  /\ Passes({"domain"})
  /\ CallFailed
  /\ content' = Top.keep.content
  /\ UNCHANGED <<mode, signals, env, html, unsafe, scopes, request, tables>>

ErrorPassesHtml ==
  /\ Passes({"html"})
  /\ stack' = Below
  /\ html' = Top.keep.html
  /\ UNCHANGED <<mode, signals, env, content, unsafe, scopes, request, tables>>

\* The boundary is left by the ends of blocks only.
Bug_UnsafeAfterError == unsafe

\* Also an error leaves the boundary.
UnsafeAfterError == unsafe - 1

ErrorPassesUnsafe ==
  /\ Passes({"unsafe"})
  /\ stack' = Below
  /\ unsafe' = UnsafeAfterError
  /\ UNCHANGED <<mode, signals, env, html, content, scopes, request, tables>>

\* The swallowed error may have left the variables or the buffer of the call
\* that threw it.
Swallowed(blocks) ==
  [i \in DOMAIN blocks |->
     [blocks[i] EXCEPT !.dirty = @ \/ (i = Own /\ (env # Own \/ html # OwnHtml))]]

\* try ... catch: the binding goes into the variables in force.
Catch ==
  /\ Passes({"try"}) /\ Top.left = 1
  /\ stack' = Swallowed(Append(Below, Block("catch", Top.as, 0)))
  /\ mode' = "next"
  /\ UNCHANGED <<signals, fields, request, tables>>

\* Only the last write is taken back.
Bug_RolledBack == db \ {made}

\* The tables come back from the snapshot, whoever wrote to them since.
RolledBack == Top.keep.db

RollBack ==
  /\ Passes({"transaction"})
  /\ stack' = Below
  /\ db' = RolledBack
  /\ undone' = undone \cup (Top.keep.made + 1 .. made)
  /\ UNCHANGED <<mode, signals, fields, request, made>>

\* run_job_handler_with_retries: again, or a Job row that says "failed"; the
\* error goes no further.
RetryJob ==
  /\ Passes({"job"}) /\ Top.left > 0
  /\ stack' = Swallowed(Again([stack EXCEPT ![Len(stack)].left = @ - 1]))
  /\ mode' = "next"
  /\ UNCHANGED <<signals, fields, request, tables>>

FailJob ==
  /\ Passes({"job"}) /\ Top.left = 0
  /\ stack' = Swallowed(Below)
  /\ mode' = "evaluated"
  /\ scopes' = scopes - 1
  /\ Row
  /\ UNCHANGED <<signals, env, html, content, unsafe, request>>

\* A failing cron handler gets its row and ends the run.
FailCron ==
  /\ Passes({"cron"})
  /\ stack' = Below
  /\ Row
  /\ UNCHANGED <<mode, signals, fields, request>>

-----------------------------------------------------------------------------
(* run_handler_with_request: the body, then the @after blocks.             *)

\* The first block of the queue that was taken, in the variables the body left.
NextAfter ==
  IF queue = <<>> \/ Head(queue) # "body"
  THEN stack' = <<>> /\ phase' = (IF response THEN "response" ELSE "value")
       /\ mode' = "done" /\ UNCHANGED queue
  ELSE /\ stack' = <<[Block("after", "expr", 0) EXCEPT !.dirty = Top.dirty]>>
       /\ phase' = "after"
       /\ mode' = "next"
       /\ queue' = Tail(queue)

EndBody ==
  /\ Ends({"handler", "after"})
  /\ ret' = FALSE
  /\ NextAfter
  /\ UNCHANGED <<loop, fields, response, client, tables>>

\* Err: no outcome, the server answers 500 and no @after block runs any more.
Fail ==
  /\ Passes({"handler", "after"})
  /\ stack' = <<>> /\ mode' = "done" /\ phase' = "error"
  /\ UNCHANGED <<signals, fields, response, queue, client, tables>>

Init ==
  /\ stack = <<[kind |-> "handler", as |-> "expr", left |-> 0,
                keep |-> [x \in {} |-> 0], dead |-> FALSE, cut |-> FALSE, dirty |-> FALSE]>>
  /\ mode = "next"
  /\ ret = FALSE /\ loop = "none"
  /\ env = 1 /\ html = 0 /\ content = 0 /\ unsafe = 0 /\ scopes = 0
  /\ response = FALSE /\ queue = <<>> /\ phase = "body" /\ client \in Clients
  /\ db = {} /\ made = 0 /\ undone = {}
  /\ fuel = MaxStatements

Statement ==
  \/ Write \/ Respond \/ Redirect \/ Serve \/ BindRequest \/ Session \/ Csrf
  \/ Auth \/ RateLimitPolicy \/ Return \/ Break \/ Continue \/ Throw \/ RegisterAfter
  \/ If \/ Loop \/ Try \/ Call \/ UserDomain \/ Content \/ Html \/ Unsafe
  \/ Transaction \/ Enqueue \/ RunDueCrons

End ==
  \/ LookAtSignals \/ LastStatement \/ EndPlain \/ EndRound \/ EndCall \/ EndHtml
  \/ EndUnsafe \/ EndTransaction \/ EndJob \/ EndCron \/ EndBody

Error ==
  \/ ErrorPasses \/ ErrorPassesCall \/ ErrorPassesDomain \/ ErrorPassesHtml \/ ErrorPassesUnsafe
  \/ Catch \/ RollBack \/ RetryJob \/ FailJob \/ FailCron \/ Fail

Next == Statement \/ End \/ Error

Spec == Init /\ [][Next]_vars

-----------------------------------------------------------------------------
(* Properties.                                                             *)

\* A block that a signal has ended runs no statement any more: @respond ends
\* every block up to the handler, return its call, break its loop and continue
\* its round, through blocks, domains, pages, tries, transactions, jobs and crons,
\* as long as expression statements lead to it.  Let through are the cases in which
\* the code goes on all the same: the next argument of a transaction, the next
\* cron handler and the next attempt of a job (Again), a block whose signal an
\* inner loop took for its own (RoundOver) or a later break or continue replaced
\* (LoopControl), and one whose signal a failing call took away (CallFailed).
SignalsEndBlocks == mode = "next" /\ stack # <<>> => ~Top.dead /\ ~Top.cut

\* Code runs in the variables of its own call and writes to the page of its own
\* call, unless that call has itself swallowed an error a deeper call left.
OwnContext ==
  mode = "next" /\ stack # <<>> =>
    stack[Own].dirty \/ (env = Own /\ html = OwnHtml)

\* However blocks end, the @content slot is that of the innermost domain call,
\* and code is inside @unsafe and a job's scope exactly as often as it says.
BoundariesKept ==
  /\ content = OwnContent
  /\ unsafe = Cardinality({i \in DOMAIN stack : stack[i].kind = "unsafe"})
  /\ scopes = Cardinality({i \in DOMAIN stack : stack[i].kind = "job"})

\* The tables hold every write but those made inside a transaction that failed,
\* of whatever call, job or nested transaction, and wherever the error went.
TransactionsExact == db = (1 .. made) \ undone
==============================================================================
