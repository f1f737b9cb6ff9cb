------------------------------ MODULE OrvServer -------------------------------
(***************************************************************************)
(* The reference HTTP server (crates/orv-runtime/src/server.rs): one       *)
(* thread, one task per connection, one request per connection.  A task    *)
(* yields while the body arrives and while the response leaves; in between *)
(* handle_request runs without yielding, handler included, so it is one    *)
(* step here.  Kept: the rate limit of a route, the request trace and its  *)
(* live subscribers, and the end of the server.  The server is one with a  *)
(* trace file; without one nothing is recorded.                            *)
(***************************************************************************)
EXTENDS Integers, Sequences, FiniteSets

CONSTANTS
    Reqs,        \* requests, each on a connection of its own
    Keys,        \* rate limit buckets: a limited route and the client's key
    Kinds,       \* what clients ask for: a route with a rate limit, one without,
                 \* no route, the trace events
    Limit,       \* requests a bucket admits in a window
    Window,      \* length of the window
    NoTrace,     \* the trace file is not written
    MaxTime      \* bound: the last instant

ASSUME ServerAssumption ==
    /\ Limit \in Nat \ {0} /\ Window \in Nat \ {0} /\ MaxTime \in Nat
    /\ Kinds \subseteq {"limited", "open", "unmatched", "events"}

Statuses == {"none", "bad_body", "not_found", "too_many", "ok", "error"}

VARIABLES
    now,       \* the monotonic clock
    up,        \* is the accept loop running?
    conn,      \* per request: where its connection is
    ask,       \* per request: the kind of it and its client's key
    status,    \* per request: the status of its response
    buckets,   \* per key: the instants still counted, each with the request that
               \* pushed it: how many they are and how old is all that is looked at
    frames,    \* the request frames recorded
    unseen,    \* per subscriber: frames sent to it and not received
    seen,      \* per subscriber: frames received
    file,      \* the trace file
    admitted   \* history, per key: every request admitted, and when

serverVars == <<now, up, conn, ask, status, buckets, frames, unseen, seen, file, admitted>>

Frame == [req : Reqs, status : Statuses]
Hit   == [at : Nat, req : Reqs]

ServerInit ==
    /\ now = 0
    /\ up = TRUE
    /\ conn = [r \in Reqs |-> "new"]
    /\ ask \in [Reqs -> [kind : Kinds, key : Keys]]
    /\ status = [r \in Reqs |-> "none"]
    /\ buckets = [k \in Keys |-> {}]
    /\ frames = <<>>
    /\ unseen = [r \in Reqs |-> <<>>]
    /\ seen = [r \in Reqs |-> <<>>]
    /\ file = NoTrace
    /\ admitted = [k \in Keys |-> {}]

Tick ==
    /\ up
    /\ now < MaxTime
    /\ now' = now + 1
    /\ UNCHANGED <<up, conn, ask, status, buckets, frames, unseen, seen, file, admitted>>

Accept(r) ==
    /\ up
    /\ conn[r] = "new"
    /\ conn' = [conn EXCEPT ![r] = "reading"]
    /\ UNCHANGED <<now, up, ask, status, buckets, frames, unseen, seen, file, admitted>>

(***************************************************************************)
(* The trace.                                                              *)
(***************************************************************************)
Subscribers == {r \in Reqs : conn[r] = "streaming"}

\* Mutant of Record: a frame is recorded and sent to nobody.
Bug_NotBroadcast(f) ==
    /\ frames' = Append(frames, f)
    /\ UNCHANGED unseen

\* TraceState.record: the frame is kept, then sent to every subscriber.
Record(f) ==
    /\ frames' = Append(frames, f)
    /\ unseen' = [s \in Reqs |-> IF s \in Subscribers THEN Append(unseen[s], f) ELSE unseen[s]]

AnswerWith(r, st) ==
    /\ conn' = [conn EXCEPT ![r] = "answered"]
    /\ status' = [status EXCEPT ![r] = st]

\* Mutant of Traced: the frame says 200 whatever the response.
Bug_TracedAsOk(r, st) == AnswerWith(r, st) /\ Record([req |-> r, status |-> "ok"])

Traced(r, st)   == AnswerWith(r, st) /\ Record([req |-> r, status |-> st])
Untraced(r, st) == AnswerWith(r, st) /\ UNCHANGED <<frames, unseen>>

(***************************************************************************)
(* handle_request, from the end of the body to the response.               *)
(***************************************************************************)
\* A body too long, cut short or not JSON is answered at once.
RefuseBody(r) ==
    /\ up
    /\ conn[r] = "reading"
    /\ Untraced(r, "bad_body")
    /\ UNCHANGED <<now, up, ask, buckets, seen, file, admitted>>

NotFound(r) ==
    /\ up
    /\ conn[r] = "reading"
    /\ ask[r].kind = "unmatched"
    /\ Traced(r, "not_found")
    /\ UNCHANGED <<now, up, ask, buckets, seen, file, admitted>>

\* An instant a window ago: the clock is taken to have one.
Cutoff == now - Window

\* Mutant of Counted: an instant exactly one window old is not counted.
Bug_OpenWindow(bucket) == {hit \in bucket : hit.at > Cutoff}

Counted(bucket) == {hit \in bucket : hit.at >= Cutoff}

Admits(k) == Cardinality(Counted(buckets[k])) < Limit

RateLimited(r) ==
    /\ up
    /\ conn[r] = "reading"
    /\ ask[r].kind = "limited"
    /\ LET k == ask[r].key
       IN  /\ ~Admits(k)
           /\ buckets' = [buckets EXCEPT ![k] = Counted(@)]
    /\ Traced(r, "too_many")
    /\ UNCHANGED <<now, up, ask, seen, file, admitted>>

\* The handler runs: it responds, or fails at run time, and then the answer is
\* a plain 500 of which no frame is recorded.
RunHandler(r) ==
    /\ up
    /\ conn[r] = "reading"
    /\ \/ /\ ask[r].kind = "open"
          /\ UNCHANGED <<buckets, admitted>>
       \/ /\ ask[r].kind = "limited"
          /\ LET k == ask[r].key
             IN  /\ Admits(k)
                 /\ buckets' = [buckets EXCEPT ![k] = Counted(@) \cup {[at |-> now, req |-> r]}]
                 /\ admitted' = [admitted EXCEPT ![k] = @ \cup {[at |-> now, req |-> r]}]
    /\ \/ Traced(r, "ok")
       \/ Untraced(r, "error")
    /\ UNCHANGED <<now, up, ask, seen, file>>

\* Mutant of Subscribe: the stream starts with the next frame.
Bug_NoSnapshot(r) ==
    /\ up
    /\ conn[r] = "reading"
    /\ ask[r].kind = "events"
    /\ conn' = [conn EXCEPT ![r] = "streaming"]
    /\ UNCHANGED <<now, up, ask, status, buckets, frames, unseen, seen, file, admitted>>

\* The stream starts with the frames so far; each later one follows it.
Subscribe(r) ==
    /\ up
    /\ conn[r] = "reading"
    /\ ask[r].kind = "events"
    /\ conn' = [conn EXCEPT ![r] = "streaming"]
    /\ unseen' = [unseen EXCEPT ![r] = frames]
    /\ UNCHANGED <<now, up, ask, status, buckets, frames, seen, file, admitted>>

Deliver(r) ==
    /\ up
    /\ conn[r] = "streaming"
    /\ unseen[r] # <<>>
    /\ seen' = [seen EXCEPT ![r] = Append(@, Head(unseen[r]))]
    /\ unseen' = [unseen EXCEPT ![r] = Tail(@)]
    /\ UNCHANGED <<now, up, conn, ask, status, buckets, frames, file, admitted>>

Send(r) ==
    /\ up
    /\ conn[r] = "answered"
    /\ conn' = [conn EXCEPT ![r] = "sent"]
    /\ UNCHANGED <<now, up, ask, status, buckets, frames, unseen, seen, file, admitted>>

ClientLeaves(r) ==
    /\ up
    /\ conn[r] \in {"reading", "answered", "streaming"}
    /\ conn' = [conn EXCEPT ![r] = "dropped"]
    /\ UNCHANGED <<now, up, ask, status, buckets, frames, unseen, seen, file, admitted>>

(***************************************************************************)
(* The end: the accept loop returns on the signal, the tasks of the open   *)
(* connections are dropped with the runtime, and the trace file is written *)
(* between the two.                                                        *)
(***************************************************************************)
Shutdown ==
    /\ up
    /\ up' = FALSE
    /\ file' = frames
    /\ conn' = [r \in Reqs |-> IF conn[r] \in {"reading", "answered", "streaming"}
                               THEN "dropped" ELSE conn[r]]
    /\ UNCHANGED <<now, ask, status, buckets, frames, unseen, seen, admitted>>

Request(r) == RefuseBody(r) \/ NotFound(r) \/ RateLimited(r) \/ RunHandler(r) \/ Subscribe(r)

ServerNext ==
    \/ Tick
    \/ \E r \in Reqs : Accept(r) \/ Request(r) \/ Deliver(r) \/ Send(r) \/ ClientLeaves(r)
    \/ Shutdown

ServerSpec == ServerInit /\ [][ServerNext]_serverVars

\* The runtime polls a task that can make progress, and the clients of the
\* connections that stay open read.
FairServerSpec == ServerSpec /\ \A r \in Reqs : WF_serverVars(Deliver(r)) /\ WF_serverVars(Send(r))

------------------------------------------------------------------------------
TypeOK ==
    /\ now \in 0 .. MaxTime
    /\ up \in BOOLEAN
    /\ conn \in [Reqs -> {"new", "reading", "answered", "sent", "streaming", "dropped"}]
    /\ ask \in [Reqs -> [kind : Kinds, key : Keys]]
    /\ status \in [Reqs -> Statuses]
    /\ buckets \in [Keys -> SUBSET Hit]
    /\ frames \in Seq(Frame)
    /\ unseen \in [Reqs -> Seq(Frame)]
    /\ seen \in [Reqs -> Seq(Frame)]
    /\ file \in Seq(Frame) \cup {NoTrace}
    /\ admitted \in [Keys -> SUBSET Hit]

\* What LimitExact says of a step.
LimitStep ==
    \A k \in Keys :
        LET hits    == Cardinality({hit \in admitted[k] : hit.at >= now - Window})
            refused == \E r \in Reqs : ask[r].key = k /\ status'[r] = "too_many" /\ status[r] # "too_many"
        IN  /\ refused => hits >= Limit
            /\ admitted'[k] # admitted[k] => hits < Limit

\* However a bucket is trimmed, a request of a key is answered 429 if and only
\* if as many of the key as the limit were admitted in the window that ends now;
\* a refused request is not counted (RateLimitState.check).
LimitExact == [][LimitStep]_serverVars

\* What a subscriber has received and what waits for it are all the frames,
\* those recorded before it came included, once each and in order.
StreamIsTrace == \A r \in Subscribers : seen[r] \o unseen[r] = frames

\* A subscriber that stays gets every frame, as long as the server is up.
FramesReachSubscribers ==
    \A r \in Reqs : \A n \in 1..Cardinality(Reqs) :
        (conn[r] = "streaming" /\ Len(frames) = n) ~> (conn[r] # "streaming" \/ Len(seen[r]) >= n)

\* The trace file tells the same story as the clients: every response they were
\* sent has one frame, but for refused bodies and failed handlers; and no frame
\* is about a request that was answered otherwise (write_request_trace_file).
TraceFileTellsResponses ==
    file # NoTrace =>
        \A r \in Reqs :
            LET about == {i \in DOMAIN file : file[i].req = r}
            IN  IF status[r] \in {"not_found", "too_many", "ok"}
                THEN \E i \in about : about = {i} /\ file[i].status = status[r]
                ELSE about = {}
=============================================================================
