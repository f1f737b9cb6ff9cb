------------------------------ MODULE OrvBuild ------------------------------
(***************************************************************************)
(* `orv build [--prod]` and `orv dev` with its watch loop and HMR server   *)
(* (orv-cli/build_deploy.rs), on one output directory, while the sources   *)
(* are edited.  A command is a process that writes its files one by one    *)
(* and may be killed, or fail to write, at each of them.  One command runs *)
(* at a time.  An edit is an action only where the sources are read next;  *)
(* at any other time it is the same as an edit at the next such point.     *)
(***************************************************************************)
EXTENDS OrvArtifacts

CONSTANTS
  Commands,    \* the commands given: [dev, prod, hmr, watch, loop, serve, limited]
  MaxCommands, MaxAborts, MaxEdits  \* bounds

ASSUME CommandsAssumption ==
  \A c \in Commands :
    /\ c \in [{"dev", "prod", "hmr", "watch", "loop", "serve", "limited"} -> BOOLEAN]
    /\ c.prod => ~c.dev
    /\ c.loop => c.dev /\ c.watch
    /\ c.serve => c.loop /\ c.hmr

VARIABLES
  source,   \* the project's sources on disk
  at,       \* the step of the command that runs
  cmd,      \* the command and the program it loaded
  left,     \* the files it has still to write before its next step
  previous, \* the signature of the sources the loop built
  events,   \* the last event of the loop, if any: the file repeats them all
  commands, aborts, edits,  \* bounds
  built     \* the last command if it is a build that ended well, and its program

vars == <<out, source, at, cmd, left, previous, events, commands, aborts, edits, built>>

NoProgram == [none |-> TRUE]
NoBuild   == [prod |-> FALSE, program |-> NoProgram]
Sources   == Programs \cup {Broken}
Steps     == {"load", "write", "verify", "session", "run", "serving", "sign", "events", "sleep"}

\* dev_session_inputs reads what is watched from the files of the build.
Watched == [src |-> TheSource.src, files |-> TheSource.files, kinds |-> out["bundle-plan.json"].kinds]

\* write_dev_watch_session: what is watched, and whether the loop reloads browsers.
WatchFile(w) == [src |-> w.src, files |-> w.files, kinds |-> w.kinds, hmr |-> cmd.command.hmr]

\* The targets are left out of dev/watch.json.
Bug_DevContent(f) ==
  CASE f = "dev/session.json" -> Watched
    [] f = "dev/watch.json"   -> WatchFile([Watched EXCEPT !.kinds = {}])
    [] f = "dev/events.json"  -> [events |-> events]
    [] OTHER                  -> Fixed

DevContent(f) ==
  CASE f = "dev/session.json" -> Watched
    [] f = "dev/watch.json"   -> WatchFile(Watched)
    [] f = "dev/events.json"  -> [events |-> events]
    [] OTHER                  -> Fixed

Now(f) == IF f \in Range(DevFiles) THEN DevContent(f) ELSE Content(f, cmd.program)

-----------------------------------------------------------------------------
(* One command                                                             *)

End == /\ at' = "idle" /\ left' = <<>>
       /\ cmd' = [cmd EXCEPT !.program = NoProgram]
       /\ previous' = NoProgram /\ events' = <<>>

Edit(p) ==
  /\ edits < MaxEdits /\ p # source
  /\ at \in {"idle", "serving", "sign", "sleep"}
  /\ source' = p /\ edits' = edits + 1
  /\ UNCHANGED <<out, at, cmd, left, previous, events, commands, aborts, built>>

Begin(c) ==
  /\ at = "idle" /\ commands < MaxCommands
  /\ at' = "load" /\ cmd' = [command |-> c, program |-> NoProgram]
  /\ commands' = commands + 1 /\ built' = NoBuild
  /\ UNCHANGED <<out, source, left, previous, events, aborts, edits>>

\* Broken sources, and a prod build that may not listen, write nothing.
Refused == source = Broken \/ (cmd.command.prod /\ "server" \in source.kinds /\ ~PortGiven(source))

Load ==
  /\ at = "load"
  /\ IF Refused
     THEN End
     ELSE /\ at' = "write" /\ cmd' = [cmd EXCEPT !.program = source]
          /\ left' = BuildFiles(source, cmd.command.prod)
          /\ UNCHANGED <<previous, events>>
  /\ UNCHANGED <<out, source, commands, aborts, edits, built>>

\* One file of the build, of the session or of the loop.
Write ==
  /\ left # <<>>
  /\ out' = [out EXCEPT ![Head(left)] = Now(Head(left))]
  /\ left' = Tail(left)
  /\ UNCHANGED <<source, at, cmd, previous, events, commands, aborts, edits, built>>

EndBuild ==
  /\ at = "write" /\ left = <<>>
  /\ IF cmd.command.dev
     THEN at' = "verify" /\ UNCHANGED <<left, cmd, previous, events, built>>
     ELSE End /\ built' = [prod |-> cmd.command.prod, program |-> cmd.program]
  /\ UNCHANGED <<out, source, commands, aborts, edits>>

Verify ==
  /\ at = "verify"
  /\ IF Verified
     THEN /\ at' = "session"
          /\ left' = (IF cmd.command.hmr THEN <<"dev/session.json", "dev/transport.json", "dev/hmr-client.js">>
                                         ELSE <<>>)
                     \o (IF cmd.command.watch THEN <<"dev/watch.json">> ELSE <<>>)
          /\ UNCHANGED <<cmd, previous, events>>
     ELSE End
  /\ UNCHANGED <<out, source, commands, aborts, edits, built>>

EndSession ==
  /\ at = "session" /\ left = <<>>
  /\ at' = "run"
  /\ UNCHANGED <<out, source, cmd, left, previous, events, commands, aborts, edits, built>>

\* run_build_with_writer: a server runs until it is killed; a page is printed.
Run ==
  /\ at = "run"
  /\ IF Has("server") /\ LauncherOk
     THEN at' = "serving" /\ UNCHANGED <<left, cmd, previous, events>>
     ELSE IF ~Has("server") /\ (Has("page") \/ Has("client")) /\ cmd.command.loop
          THEN at' = "sign" /\ UNCHANGED <<left, cmd, previous, events>>
          ELSE End
  /\ UNCHANGED <<out, source, commands, aborts, edits, built>>

-----------------------------------------------------------------------------
(* The watch loop                                                          *)

\* dev_watch_current_source_signature: the watched files as they are on disk now.
WatchedIsThere == source = Broken \/ out["dev/watch.json"].files \subseteq source.files
Signature      == IF source = Broken THEN Broken ELSE source.src

WriteEvents(e) ==
  /\ at' = "events" /\ events' = <<e>>
  /\ left' = <<"dev/events.json">>
             \o (IF cmd.command.serve /\ events = <<>> THEN <<"dev/server.json">> ELSE <<>>)

Sign ==
  /\ at = "sign"
  /\ IF WatchedIsThere
     THEN /\ WriteEvents([action |-> "build-verify-run", signature |-> Signature])
          /\ previous' = Signature
          /\ UNCHANGED cmd
     ELSE End
  /\ UNCHANGED <<out, source, commands, aborts, edits, built>>

\* With a limit (--watch-iterations) some iteration is the last.
EndIteration ==
  /\ at = "events" /\ left = <<>>
  /\ \/ at' = "sleep" /\ UNCHANGED <<left, cmd, previous, events>>
     \/ cmd.command.limited /\ End
  /\ UNCHANGED <<out, source, commands, aborts, edits, built>>

\* What was watched is compared with what was built.
Bug_PollsTheBuild ==
  /\ at = "sleep"
  /\ WriteEvents([action |-> "skip"]) /\ UNCHANGED <<cmd, previous>>
  /\ UNCHANGED <<out, source, commands, aborts, edits, built>>

\* dev_watch_loop_reason, and the skip of an unchanged iteration
Poll ==
  /\ at = "sleep"
  /\ IF ~WatchedIsThere
     THEN End
     ELSE IF Signature = previous
     THEN WriteEvents([action |-> "skip"]) /\ UNCHANGED <<cmd, previous>>
     ELSE at' = "load" /\ UNCHANGED <<left, cmd, previous, events>>
  /\ UNCHANGED <<out, source, commands, aborts, edits, built>>

\* The process is killed, or a write fails: of the file under way either nothing
\* was written or a part.  A part of a page is still a page.
Abort ==
  /\ at # "idle" /\ aborts < MaxAborts
  /\ aborts' = aborts + 1
  /\ \/ out' = out
     \/ /\ left # <<>>
        /\ \/ out' = [out EXCEPT ![Head(left)] = Torn]
           \/ /\ Head(left) = "pages/index.html" /\ "page" \in cmd.program.kinds
              /\ out' = [out EXCEPT ![Head(left)] = [view |-> Torn]]
  /\ End
  /\ UNCHANGED <<source, commands, edits, built>>

Init ==
  /\ out = [f \in Files |-> NoFile]
  /\ source \in Programs
  /\ at = "idle" /\ left = <<>>
  /\ cmd = [command |-> CHOOSE c \in Commands : TRUE, program |-> NoProgram]
  /\ previous = NoProgram /\ events = <<>>
  /\ commands = 0 /\ aborts = 0 /\ edits = 0
  /\ built = NoBuild

Step == Load \/ Write \/ EndBuild \/ Verify \/ EndSession \/ Run \/ Sign \/ EndIteration \/ Poll

Next == Step \/ Abort \/ (\E p \in Sources : Edit(p)) \/ (\E c \in Commands : Begin(c))

\* A command that runs goes on; nobody has to edit, to start or to kill one.
Spec == Init /\ [][Next]_vars /\ WF_vars(Step)

-----------------------------------------------------------------------------
(* Properties                                                              *)

\* The program whose sources are in the source bundle.
BundledProgram == CHOOSE p \in Programs : TheSource = SourceBundle(p)

\* A directory that verifies has the server files of one build, that of the
\* program in its source bundle.
ServerOfOneBuild ==
  Verified /\ Has("server") => \A f \in Range(ServerFiles) : out[f] = Content(f, BundledProgram)

\* ... and the client files of that build: the page the browser shows, the code
\* it loads and the plan it follows are of one program.
ClientOfOneBuild ==
  Verified /\ Has("client") => \A f \in Range(ClientFiles) : out[f] = Content(f, BundledProgram)

\* ... and deploy files that start, check and document the server that runs: the
\* routes, ports, adapters and checks are of that program, and the variables and
\* volumes it needs are among those provided.  (A server that names no port may
\* find the port of another build in its compose file.)
DeployOfOneBuild ==
  Verified /\ There("deploy/manifest.json") /\ TheDeploy.server # NoTarget =>
    LET p == BundledProgram
    IN  /\ \A f \in {"deploy/server.sh", "deploy/routes.json", "deploy/container.json", "deploy/Dockerfile",
                     "deploy/db-adapters.json", "deploy/commerce-adapters.json"} : out[f] = Content(f, p)
        /\ \A f \in {"deploy/compose.yaml", "deploy/env.example"} :
             /\ p.listen # NoPort => out[f].listen = p.listen
             /\ p.stores \subseteq out[f].stores
        /\ out["deploy/preflight.json"] = Preflight(p, TheDeploy.client)
        /\ out["deploy/benchmark-evidence.json"].preflight = out["deploy/preflight.json"]
        /\ TheDeploy.server = DeployServer(p)

\* What verify-build accepts is of one build: the server, the client and the
\* deploy files of one program, whatever builds were cut short, or made with other
\* options, in the same directory.
AcceptedIsOneBuild == ServerOfOneBuild /\ ClientOfOneBuild /\ DeployOfOneBuild

\* A build that was not cut short verifies, in a directory without a dev session;
\* a build without --prod, in one without deploy files.
WholeBuildAccepted ==
  (/\ built.program # NoProgram
   /\ ~There("dev/session.json") /\ ~There("dev/watch.json") /\ ~There("dev/transport.json")
   /\ ~There("dev/server.json") /\ ~There("dev/events.json")
   /\ built.prod \/ ~There("deploy/manifest.json"))
  => Verified

\* While the loop sleeps its directory verifies, the dev files included: the
\* browser and the editor read them then.
SleepingDirVerifies == at = "sleep" => Verified

\* An edit that a sleeping loop has not built is built, or ends the loop.
EditNoticed ==
  (at = "sleep" /\ Signature # previous) ~> (at = "idle" \/ cmd.program = source)
=============================================================================
