------------------------------- MODULE OrvDap -------------------------------
(***************************************************************************)
(* The debug adapter (`orv dap serve --stdio`, DapSession of               *)
(* editor_lsp_dap.rs).  The adapter handles one request at a time; the     *)
(* debuggee of an attached server program runs beside it, as a child       *)
(* process or as a thread of the adapter.                                  *)
(*                                                                         *)
(* A program is the sequence of the frames a run of it records: one per    *)
(* executed statement, after its execution, with the depth of the call     *)
(* stack and what it printed.  A replay session holds all of them from     *)
(* the launch on, a live session executes them on demand, and a server     *)
(* session holds one frame per @server.  Frames are numbered from 1 (from  *)
(* 0 in the code).  Requests the adapter refuses change nothing and are    *)
(* left out; so are the requests that only read.                           *)
(***************************************************************************)
EXTENDS Integers, Sequences, FiniteSets, FiniteSetsExt

CONSTANTS
  Programs,      \* the programs a client may launch
  MaxRequests,   \* bound: HTTP requests sent to the debuggee
  NoLaunch       \* no program is launched

ASSUME ProgramsAssumption ==
  \A p \in Programs : /\ p.kind \in {"plain", "server"}
                      /\ p.end \in {"ok", "error", "diagnostics"}
                      /\ p.depths \in Seq(Nat)
ASSUME ProgramsFinite == IsFiniteSet(Programs)
ASSUME BoundsAssumption == MaxRequests \in Nat

MaxFrames == Max({Len(p.depths) : p \in Programs})
Attaches  == {"none", "process", "inProcess"}

\* DapLaunchState: how far a program was executed, the frame shown, the mode
\* and options of the launch, and the state reported for the debuggee.
Sessions == [program : Programs, produced : 0 .. MaxFrames, cur : 1 .. MaxFrames + 1,
             live : BOOLEAN, liveRequested : BOOLEAN, attach : Attaches, trace : BOOLEAN,
             since : 0 .. MaxRequests, state : {"paused", "running"},
             transport : {"detached", "running", "suspended", "exited"}]

ASSUME NoLaunchAssumption == NoLaunch \notin Sessions

VARIABLES
  launched,   \* DapSession.launched
  breaks,     \* frames matched by a verified line, function or data breakpoint
  instr,      \* instruction breakpoints: frame asked for -> verified
  child,      \* the process launched.runtime_process holds
  server,     \* requests in the trace of launched.attached_server, or Off
  traceFile,  \* requests in the file at runtime_request_trace_path
  answered,   \* how many requests the debuggees have answered
  ending,     \* the handler between its trace write and what follows it
  client,     \* what the events sent so far tell the client
  shown,      \* how often the output of a frame was sent (0, 1 or more)
  jumped      \* whether the client moved by other means than going forward

vars == <<launched, breaks, instr, child, server, traceFile, answered, ending, client, shown, jumped>>
runtimeVars == <<child, server, traceFile, answered, ending>>
breakVars   == <<breaks, instr>>

Off       == {0}          \* requests are numbered from 1
Running   == launched # NoLaunch /\ client # "gone" /\ ending = "no"
FrameCount(p) == Len(p.depths)
Produced  == 1 .. launched.produced
DepthAt(i) == launched.program.depths[i]
IsServer  == launched.program.kind = "server" /\ launched.program.end # "diagnostics"

\* breakpoint_frame_reason: the frame stops a run that continues.
StopsAt(i) == i \in breaks \/ (i \in DOMAIN instr /\ instr[i])
Stops == {i \in 1 .. MaxFrames : StopsAt(i)}

-----------------------------------------------------------------------------
(* What is sent.                                                           *)

\* queue_frame_outputs(from, to)
Shown(from, to) == [i \in 1 .. MaxFrames |->
                      IF i \in from .. to THEN Min({shown[i] + 1, 2}) ELSE shown[i]]

\* The child is left to run when its session is dropped.
Bug_DropKeepsChild ==
  /\ launched' = NoLaunch
  /\ server' = Off
  /\ child' = child
  /\ ending' = "no"

\* self.launched = None, with the drop of DapLaunchState: the server's thread
\* is joined, the child is killed and waited for.
Drop == /\ launched' = NoLaunch
        /\ server' = Off
        /\ child' = "none"
        /\ ending' = "no"

\* The session ends with a "terminated" event.
Terminate == /\ Drop
             /\ client' = "none"
             /\ UNCHANGED <<breakVars, traceFile, answered, jumped>>

\* queue_stopped_event after current_frame_index was set to i.
StopAt(i) == /\ launched' = [launched EXCEPT !.cur = i]
             /\ client' = "stopped"
             /\ UNCHANGED <<breakVars, runtimeVars>>

-----------------------------------------------------------------------------
(* Launch, attach and restart.                                             *)

\* Execution runs to the end at launch, live or not.
Bug_RunsAhead(p, live) == FrameCount(p)

\* dap_launch_runtime_state: what is executed at once.
ProducedAtLaunch(p, live) ==
  IF live /\ p.kind = "plain" THEN Min({1, FrameCount(p)}) ELSE FrameCount(p)

\* revalidate_instruction_breakpoints
Revalidated(frames) == [i \in DOMAIN instr |-> i <= frames]

FirstBreak(verified, n) ==
  LET hits == {i \in 1 .. n : i \in breaks \/ (i \in DOMAIN verified /\ verified[i])}
  IN  IF hits = {} THEN 1 ELSE Min(hits)

LaunchResult(p, live, attach, trace) ==
  LET n == IF p.end = "diagnostics" THEN 0 ELSE ProducedAtLaunch(p, live)
      cur == FirstBreak(Revalidated(n), n)
  IN  /\ launched' = [program |-> p, produced |-> n, cur |-> cur,
                      live |-> live /\ p.kind = "plain" /\ n > 0,
                      liveRequested |-> live, attach |-> attach, trace |-> trace,
                      since |-> answered, state |-> "paused", transport |-> "detached"]
      /\ instr' = Revalidated(n)
      /\ shown' = [i \in 1 .. MaxFrames |-> IF i <= n /\ i <= cur THEN 1 ELSE 0]
      /\ client' = "stopped"
      /\ jumped' = "no"
      /\ child' = "none" /\ server' = Off   \* the session replaced is dropped
      /\ UNCHANGED <<breaks, traceFile, answered, ending>>

\* The options that do not matter to the kind of program are not varied.
Launch(p, live, attach) ==
  /\ ending = "no" /\ client # "gone"
  /\ p.kind = "server" => ~live
  /\ p.kind = "plain" => attach = "none"
  /\ LaunchResult(p, live, attach, attach # "none")

\* restart reloads the program, edited or not, with the options of the launch.
Restart(p) ==
  /\ Running
  /\ p.kind = launched.program.kind
  /\ LaunchResult(p, launched.liveRequested, launched.attach, launched.trace)

-----------------------------------------------------------------------------
(* Breakpoints.                                                            *)

\* setBreakpoints, setFunctionBreakpoints, setDataBreakpoints, and setVariable,
\* which edits the locals that conditions and data breakpoints look at.  What
\* they match depends on the frames up to the one matched, not on the session.
SetBreakpoints(B) ==
  /\ client # "gone" /\ ending = "no"
  /\ breaks' = B
  /\ UNCHANGED <<launched, instr, runtimeVars, client, shown, jumped>>

SetInstructionBreakpoints(B) ==
  /\ client # "gone" /\ ending = "no"
  /\ instr' = [i \in B |-> launched # NoLaunch /\ i <= launched.produced]
  /\ UNCHANGED <<launched, breaks, runtimeVars, client, shown, jumped>>

-----------------------------------------------------------------------------
(* Moving over recorded frames (no server runs, nothing is executed).      *)

After(frames) == {i \in Produced \cap frames : i > launched.cur}

\* The output from the breakpoint on only.
Bug_ShowTargetOnly(target) ==
  /\ StopAt(target)
  /\ shown' = Shown(target, target)
  /\ UNCHANGED jumped

ShowThenStop(target) ==
  /\ StopAt(target)
  /\ shown' = Shown(launched.cur + 1, target)
  /\ UNCHANGED jumped

Continue ==
  /\ Running /\ ~IsServer /\ ~launched.live
  /\ LET hits == After(Stops)
     IN  IF hits # {} THEN ShowThenStop(Min(hits))
         ELSE Terminate /\ shown' = Shown(launched.cur + 1, launched.produced)

\* next, stepOut and stepIn to the first later one of the frames.
StepTo(frames) ==
  /\ Running /\ ~launched.live
  /\ launched.cur \in Produced
  /\ LET later == After(frames)
     IN  IF later # {} THEN ShowThenStop(Min(later))
         ELSE Terminate /\ UNCHANGED shown

StepNext == StepTo({i \in Produced : DepthAt(i) <= DepthAt(launched.cur)})
StepOut == launched # NoLaunch /\ launched.cur \in Produced /\ DepthAt(launched.cur) > 0
             /\ StepTo({i \in Produced : DepthAt(i) < DepthAt(launched.cur)})
StepIn == StepTo(Produced)

\* dap_step_in_target_indices, up to the removal of equal calls.
StepInTargets ==
  {i \in Produced : /\ i > launched.cur
                    /\ DepthAt(i) = DepthAt(launched.cur) + 1
                    /\ \A j \in launched.cur + 1 .. i : DepthAt(j) > DepthAt(launched.cur)}

StepInTarget ==
  /\ Running /\ ~launched.live /\ launched.cur \in Produced
  /\ \E target \in StepInTargets : ShowThenStop(target)

\* A session without frames steps over the executable lines of the source.
StepInLines ==
  /\ Running /\ ~launched.live /\ launched.produced = 0
  /\ \/ StopAt(launched.cur) /\ UNCHANGED <<shown, jumped>>
     \/ Terminate /\ UNCHANGED shown

JumpTo(i, how) ==
  /\ StopAt(i)
  /\ jumped' = IF jumped = "goto" THEN "goto" ELSE how
  /\ UNCHANGED shown

StepBack ==
  /\ Running /\ launched.cur > 1
  /\ JumpTo(launched.cur - 1, "back")

ReverseContinue ==
  /\ Running /\ launched.cur > 1
  /\ LET earlier == {i \in 1 .. launched.cur - 1 : StopsAt(i)}
     IN  JumpTo(IF earlier = {} THEN 1 ELSE Max(earlier), "back")

\* restartFrame: the first frame of the current call, or the entry.
RestartFrame ==
  /\ Running /\ launched.cur \in Produced
  /\ \E i \in 1 .. launched.cur :
       /\ DepthAt(launched.cur) = 0 => i = 1
       /\ \A j \in i .. launched.cur : DepthAt(j) >= DepthAt(launched.cur) \/ i = 1
       /\ JumpTo(i, "back")

Goto(i) == Running /\ i \in Produced /\ JumpTo(i, "goto")

-----------------------------------------------------------------------------
(* Live sessions: the stepper executes the frames after the last one.      *)

\* advance_live_frame until one of them: frames are recorded and their output is sent;
\* the end of the program terminates the session, an error stops it.
AdvanceLiveUntil(frames) ==
  LET n == launched.produced
      all == FrameCount(launched.program)
      hits == frames \cap (n + 1 .. all)
  IN  /\ Running /\ launched.live
      /\ UNCHANGED jumped
      /\ \/ /\ hits # {}
            /\ launched' = [launched EXCEPT !.produced = Min(hits), !.cur = Min(hits)]
            /\ shown' = Shown(n + 1, Min(hits))
            /\ client' = "stopped"
            /\ UNCHANGED <<breakVars, runtimeVars>>
         \/ /\ hits = {} /\ launched.program.end = "ok"
            /\ Drop
            /\ client' = "none"
            /\ shown' = Shown(n + 1, all)
            /\ UNCHANGED <<breakVars, traceFile, answered>>
         \/ /\ hits = {} /\ launched.program.end = "error"
            /\ launched' = [launched EXCEPT !.produced = all, !.live = FALSE]
            /\ shown' = Shown(n + 1, all)
            /\ client' = "stopped"
            /\ UNCHANGED <<breakVars, runtimeVars>>

LiveContinue == launched # NoLaunch /\ AdvanceLiveUntil(Stops)
LiveStepIn   == launched # NoLaunch /\ AdvanceLiveUntil(1 .. MaxFrames)
LiveNext     == launched # NoLaunch /\ launched.cur \in Produced
                /\ AdvanceLiveUntil({i \in 1 .. FrameCount(launched.program) : DepthAt(i) <= DepthAt(launched.cur)})
LiveStepOut  == launched # NoLaunch /\ launched.cur \in Produced /\ DepthAt(launched.cur) > 0
                /\ AdvanceLiveUntil({i \in 1 .. FrameCount(launched.program) : DepthAt(i) < DepthAt(launched.cur)})

-----------------------------------------------------------------------------
(* Server sessions: the debuggee runs beside the adapter.                  *)

\* continue_long_running_result when the debuggee runs or can be started.
Resume ==
  /\ Running /\ IsServer
  /\ \/ launched.attach = "none" /\ UNCHANGED <<child, server>>
     \/ launched.attach = "process" /\ child # "exited" /\ child' = "running" /\ UNCHANGED server
     \/ launched.attach = "inProcess" /\ server' = (IF server = Off THEN {} ELSE server) /\ UNCHANGED child
  /\ launched' = [launched EXCEPT !.state = "running",
                                  !.transport = IF launched.attach = "none" THEN @ ELSE "running"]
  /\ client' = "running"
  /\ UNCHANGED <<breakVars, traceFile, answered, ending, shown, jumped>>

\* ensure_ or suspend_child_runtime_process finds the child gone: the request
\* is refused, its state and the client's view stay as they were.
ChildFoundExited ==
  /\ Running /\ IsServer /\ child = "exited"
  /\ child' = "none"
  /\ launched' = [launched EXCEPT !.transport = "exited"]
  /\ UNCHANGED <<breakVars, server, traceFile, answered, ending, client, shown, jumped>>

\* write_runtime_request_trace_file: without a server the file becomes empty.
WriteTrace ==
  traceFile' = IF launched.trace THEN (IF server = Off THEN {} ELSE server) ELSE traceFile

\* The state is set before the trace is written and the debuggee suspended.
Bug_PausedFirst ==
  /\ Running /\ IsServer
  /\ WriteTrace
  /\ ending' = "pause"
  /\ launched' = [launched EXCEPT !.state = "paused"]
  /\ UNCHANGED <<breakVars, child, server, answered, client, shown, jumped>>

\* pause: the trace is written, then the debuggee is suspended.
PauseServer ==
  /\ Running /\ IsServer
  /\ WriteTrace
  /\ ending' = "pause"
  /\ UNCHANGED <<launched, breakVars, child, server, answered, client, shown, jumped>>

Suspend ==
  /\ ending = "pause"
  /\ ending' = "no"
  /\ UNCHANGED <<breakVars, traceFile, answered, shown, jumped>>
  /\ IF launched.attach = "process" /\ child = "exited"
     THEN /\ child' = "none"
          /\ launched' = [launched EXCEPT !.transport = "exited"]
          /\ UNCHANGED <<server, client>>
     ELSE /\ child' = IF child = "running" THEN "suspended" ELSE child
          /\ server' = Off
          /\ launched' = [launched EXCEPT !.state = "paused",
                            !.transport = CASE launched.attach = "none" -> @
                                            [] launched.attach = "process" /\ child = "none" -> "detached"
                                            [] OTHER -> "suspended"]
          /\ client' = "stopped"

\* pause of a session without a debuggee, and configurationDone, only report.
ReportStopped ==
  /\ Running /\ ~IsServer
  /\ StopAt(launched.cur)
  /\ UNCHANGED <<shown, jumped>>

\* disconnect, terminate, terminateThreads: the trace is written, then the
\* session is dropped.
Disconnect ==
  /\ Running
  /\ WriteTrace
  /\ ending' = "disconnect"
  /\ UNCHANGED <<launched, breakVars, child, server, answered, client, shown, jumped>>

DisconnectEnds ==
  /\ ending = "disconnect"
  /\ Terminate
  /\ UNCHANGED shown

\* The standard input is closed: serve_stdio returns and drops the session.
Hangup ==
  /\ client # "gone" /\ ending = "no"
  /\ Drop
  /\ client' = "gone"
  /\ UNCHANGED <<breakVars, traceFile, answered, shown, jumped>>

\* The debuggee at any moment: it answers a request or, a process, ends.
Answer ==
  /\ answered < MaxRequests
  /\ server # Off \/ child = "running"
  /\ answered' = answered + 1
  /\ server' = IF server = Off THEN Off ELSE server \cup {answered + 1}
  /\ UNCHANGED <<launched, breakVars, child, traceFile, ending, client, shown, jumped>>

ChildExits ==
  /\ child \in {"running", "suspended"}
  /\ child' = "exited"
  /\ UNCHANGED <<launched, breakVars, server, traceFile, answered, ending, client, shown, jumped>>

-----------------------------------------------------------------------------
Init ==
  /\ launched = NoLaunch
  /\ breaks = {} /\ instr = <<>>
  /\ child = "none" /\ server = Off
  /\ traceFile = {} /\ answered = 0
  /\ ending = "no" /\ client = "none"
  /\ shown = [i \in 1 .. MaxFrames |-> 0] /\ jumped = "no"

Next ==
  \/ \E p \in Programs : Restart(p) \/ \E live \in BOOLEAN, attach \in Attaches : Launch(p, live, attach)
  \/ \E B \in SUBSET (1 .. MaxFrames) : Cardinality(B) <= 1 /\ (SetBreakpoints(B) \/ SetInstructionBreakpoints(B))
  \/ \E i \in 1 .. MaxFrames : Goto(i)
  \/ Continue \/ StepNext \/ StepOut \/ StepIn \/ StepInTarget \/ StepInLines
  \/ StepBack \/ ReverseContinue \/ RestartFrame
  \/ LiveContinue \/ LiveStepIn \/ LiveNext \/ LiveStepOut
  \/ Resume \/ ChildFoundExited \/ PauseServer \/ Suspend \/ ReportStopped
  \/ Disconnect \/ DisconnectEnds \/ Hangup \/ Answer \/ ChildExits

Spec == Init /\ [][Next]_vars
-----------------------------------------------------------------------------
(* Properties.                                                             *)

\* Whatever the client stepped through, in either mode and through errors of
\* the program: what was printed up to the frame it stands at was sent to it,
\* unless it jumped forward with goto, which sends nothing.
UpToCurrentShown ==
  launched # NoLaunch /\ jumped # "goto" =>
    \A i \in Produced : i <= launched.cur => shown[i] > 0

\* A live session whose client never moved back stands at the last frame
\* executed, has sent the output of each executed frame exactly once and of
\* no other frame: execution is never ahead of what the client sees.
LiveIsStraight ==
  launched # NoLaunch /\ launched.live /\ jumped = "no" =>
    /\ launched.cur = launched.produced
    /\ \A i \in 1 .. MaxFrames : shown[i] = IF i \in Produced THEN 1 ELSE 0

\* A session that shows itself as paused, or its transport as suspended or
\* detached, has no debuggee that runs, over every order of pauses, resumes,
\* exits of the child and refused requests.
PausedMeansStopped ==
  /\ launched # NoLaunch /\ IsServer
  /\ launched.state = "paused" \/ launched.transport \in {"suspended", "detached", "exited"}
  => child # "running" /\ (server = Off \/ launched.attach # "inProcess")

\* No debuggee outlives its session, whichever request or end of the input ends it or
\* replaces it.
NoOrphan ==
  (launched = NoLaunch \/ launched.program.kind = "plain") => child = "none" /\ server = Off
=============================================================================
