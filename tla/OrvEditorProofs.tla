---------------------------- MODULE OrvEditorProofs ----------------------------
(***************************************************************************)
(* The two servers of editors (editor_lsp_dap.rs): what holds of OrvDap    *)
(* for every set of programs, of any length and depth of calls, and every  *)
(* number of requests to the debuggee; and of OrvLsp, with the loads of    *)
(* OrvLoader, for every set of files and texts of them, however they       *)
(* import each other, and however much is edited and asked.                *)
(***************************************************************************)
EXTENDS OrvDap, OrvLsp, FiniteSetTheorems, SequenceTheorems, WellFoundedInduction, TLAPS

(***************************************************************************)
(* The least and the greatest of a set of naturals.                        *)
(***************************************************************************)
LEMMA LeastIn ==
    ASSUME NEW S \in SUBSET Nat, S # {}
    PROVE  Min(S) \in S /\ \A y \in S : Min(S) <= y
<1> DEFINE R == {ss \in Nat \X Nat : ss[1] < ss[2]}
<1>1. IsWellFoundedOn(R, Nat)
  BY NatLessThanWellFounded DEF OpToRel
<1>2. \A x, y \in Nat : <<x, y>> \in R <=> x < y
  OBVIOUS
<1> HIDE DEF R
<1>3. \E x \in S : \A y \in S : ~ (<<y, x>> \in R)
  BY <1>1, WFMin
<1>4. PICK x \in S : \A y \in S : ~ (<<y, x>> \in R)
  BY <1>3
<1>5. \A y \in S : x <= y
  <2> TAKE y \in S
  <2>1. ~ (y < x)
    BY <1>2, <1>4
  <2> QED
    BY <2>1
<1> QED
  BY <1>5 DEF Min

LEMMA GreatestIn ==
    ASSUME NEW S \in SUBSET Nat, S # {}, NEW n \in Nat, \A x \in S : x <= n
    PROVE  Max(S) \in S /\ \A y \in S : y <= Max(S)
<1> DEFINE T == {n - x : x \in S}
<1>1. T \in SUBSET Nat /\ T # {}
  <2>1. \A x \in S : n - x \in Nat
    OBVIOUS
  <2>2. \A t \in T : \E x \in S : t = n - x
    OBVIOUS
  <2>3. T \subseteq Nat
    BY <2>1, <2>2
  <2> QED
    BY <2>3
<1>2. Min(T) \in T /\ \A y \in T : Min(T) <= y
  BY <1>1, LeastIn
<1> DEFINE m == Min(T)
<1> HIDE DEF m
<1>3. PICK x \in S : m = n - x
  BY <1>2 DEF m
<1>4. \A y \in S : m <= n - y
  BY <1>2 DEF m
<1>5. \A y \in S : y <= x
  <2> HIDE DEF T
  <2> TAKE y \in S
  <2>1. n - x <= n - y /\ x \in Nat /\ y \in Nat
    BY <1>3, <1>4
  <2> QED
    BY <2>1
<1> QED
  BY <1>5 DEF Max

LEMMA FiniteIsBounded ==
    ASSUME NEW S \in SUBSET Nat, IsFiniteSet(S)
    PROVE  \E n \in Nat : \A x \in S : x <= n
<1>1. PICK c \in Nat : ExistsSurjection(1 .. c, S)
  BY FS_NatSurjection
<1>2. PICK f \in [1 .. c -> S] : \A x \in S : \E i \in 1 .. c : f[i] = x
  BY <1>1 DEF ExistsSurjection, Surjection
<1> DEFINE bad == {k \in 0 .. c : \A n \in Nat : \E i \in 1 .. c : i <= k /\ n < f[i]}
<1>3. \A i \in 1 .. c : f[i] \in Nat
  OBVIOUS
<1>4. c \notin bad
  <2> SUFFICES ASSUME c \in bad PROVE FALSE
    OBVIOUS
  <2>1. Min(bad) \in bad /\ \A y \in bad : Min(bad) <= y
    <3>1. bad \in SUBSET Nat
      OBVIOUS
    <3> HIDE DEF bad
    <3> QED
      BY <3>1, LeastIn
  <2> DEFINE k == Min(bad)
  <2> HIDE DEF k
  <2>2. k \in 0 .. c /\ \A n \in Nat : \E i \in 1 .. c : i <= k /\ n < f[i]
    BY <2>1 DEF k
  <2>3. k \in 1 .. c
    <3>1. \E i \in 1 .. c : i <= k
      BY <2>2
    <3> QED
      BY <2>2, <3>1
  <2>4. k - 1 \notin bad
    <3> HIDE DEF bad
    <3> SUFFICES ASSUME k - 1 \in bad PROVE FALSE
      OBVIOUS
    <3>1. k <= k - 1
      BY <2>1 DEF k
    <3> QED
      BY <2>3, <3>1
  <2>5. PICK n \in Nat : \A i \in 1 .. c : i <= k - 1 => ~(n < f[i])
    BY <2>3, <2>4
  <2> DEFINE x == f[k]
  <2>6. x \in Nat
    BY <1>3, <2>3
  <2> HIDE DEF x
  <2>7. n + x \in Nat
    BY <2>6
  <2>8. PICK i \in 1 .. c : i <= k /\ n + x < f[i]
    BY <2>2, <2>7
  <2> DEFINE y == f[i]
  <2>9. y \in Nat /\ n + x < y /\ (i <= k - 1 => ~(n < y)) /\ (i = k => y = x)
    BY <1>3, <2>5, <2>8 DEF x
  <2> HIDE DEF y
  <2>10. i <= k - 1 \/ i = k
    BY <2>3, <2>8
  <2> QED
    BY <2>6, <2>9, <2>10
<1>5. PICK n \in Nat : \A i \in 1 .. c : i <= c => ~(n < f[i])
  BY <1>4
<1>6. \A i \in 1 .. c : f[i] <= n
  BY <1>3, <1>5
<1> QED
  BY <1>2, <1>6

LEMMA FrameCounts ==
    ASSUME NEW p \in Programs
    PROVE  MaxFrames \in Nat /\ FrameCount(p) \in Nat /\ FrameCount(p) <= MaxFrames
<1> DEFINE L == {Len(q.depths) : q \in Programs}
<1>1. \A q \in Programs : Len(q.depths) \in Nat
  BY ProgramsAssumption
<1>2. L \in SUBSET Nat /\ Len(p.depths) \in L
  BY <1>1
<1>3. IsFiniteSet(L)
  <2> DEFINE f == [q \in Programs |-> Len(q.depths)]
  <2>1. L = {f[q] : q \in Programs}
    OBVIOUS
  <2>2. f \in Surjection(Programs, L)
    BY DEF Surjection
  <2> HIDE DEF L, f
  <2> QED
    BY <2>2, ProgramsFinite, FS_Surjection
<1> HIDE DEF L
<1>4. PICK n \in Nat : \A x \in L : x <= n
  BY <1>2, <1>3, FiniteIsBounded
<1>5. Max(L) \in L /\ \A y \in L : y <= Max(L)
  BY <1>2, <1>4, GreatestIn
<1> QED
  BY <1>2, <1>5 DEF MaxFrames, FrameCount, L

(***************************************************************************)
(* The invariant.  A session has executed a part of its program; a live    *)
(* session has sent the output of every frame it executed, whatever frame  *)
(* it shows; a debuggee runs only in a session that attached to it, and    *)
(* only a session can be about to end or to pause.                         *)
(***************************************************************************)
Typed ==
    /\ launched \in Sessions \cup {NoLaunch}
    /\ answered \in 0 .. MaxRequests
    /\ shown \in [1 .. MaxFrames -> 0 .. 2]

Executed == launched # NoLaunch => launched.produced <= FrameCount(launched.program)

LiveShown == launched # NoLaunch /\ launched.live => \A i \in Produced : shown[i] > 0

Attached ==
    /\ launched = NoLaunch => child = "none" /\ server = Off /\ ending = "no"
    /\ launched # NoLaunch =>
         /\ child # "none" => launched.attach = "process"
         /\ server # Off => launched.attach = "inProcess"
         /\ launched.attach # "none" => launched.program.kind = "server"

Outputs  == Executed /\ UpToCurrentShown /\ LiveShown /\ LiveIsStraight
Debuggee == Attached /\ PausedMeansStopped

Sound == Typed /\ Outputs /\ Debuggee

\* The variables that the invariant is about.
seen == <<launched, child, server, answered, ending, shown, jumped>>

LEMMA UnseenSafe ==
    ASSUME Sound, UNCHANGED seen
    PROVE  Sound'
BY DEF Sound, seen, Typed, Outputs, Debuggee, Executed, LiveShown, Attached, UpToCurrentShown,
       LiveIsStraight, PausedMeansStopped, Produced, IsServer

(***************************************************************************)
(* Parts of the actions.                                                   *)
(***************************************************************************)
LEMMA SessionFacts ==
    ASSUME Sound, launched # NoLaunch
    PROVE  /\ launched \in Sessions /\ MaxFrames \in Nat
           /\ launched.program \in Programs
           /\ FrameCount(launched.program) \in Nat /\ FrameCount(launched.program) <= MaxFrames
           /\ launched.produced \in 0 .. FrameCount(launched.program)
           /\ launched.cur \in 1 .. MaxFrames + 1
           /\ Produced \subseteq 1 .. MaxFrames
<1>1. launched \in Sessions /\ launched.produced <= FrameCount(launched.program)
  BY DEF Sound, Typed, Outputs, Executed
<1>2. launched.program \in Programs /\ launched.produced \in 0 .. MaxFrames /\ launched.cur \in 1 .. MaxFrames + 1
  BY <1>1 DEF Sessions
<1>3. MaxFrames \in Nat /\ FrameCount(launched.program) \in Nat /\ FrameCount(launched.program) <= MaxFrames
  BY <1>2, FrameCounts
<1> QED
  BY <1>1, <1>2, <1>3 DEF Produced

LEMMA ShownSends ==
    ASSUME Sound, NEW from, NEW to
    PROVE  /\ Shown(from, to) \in [1 .. MaxFrames -> 0 .. 2]
           /\ \A i \in 1 .. MaxFrames :
                 Shown(from, to)[i] = IF i \in from .. to THEN (IF shown[i] = 0 THEN 1 ELSE 2) ELSE shown[i]
<1>1. \A n \in 0 .. 2 : Min({n + 1, 2}) = IF n = 0 THEN 1 ELSE 2
  <2> TAKE n \in 0 .. 2
  <2> DEFINE S == {n + 1, 2}
  <2>1. S \in SUBSET Nat /\ S # {} /\ n + 1 \in S /\ 2 \in S /\ \A x \in S : x = n + 1 \/ x = 2
    OBVIOUS
  <2> HIDE DEF S
  <2>2. Min(S) \in S /\ \A y \in S : Min(S) <= y
    BY <2>1, LeastIn
  <2> DEFINE m == Min(S)
  <2> HIDE DEF m
  <2>3. (m = n + 1 \/ m = 2) /\ m <= n + 1 /\ m <= 2
    BY <2>1, <2>2 DEF m
  <2>4. m = IF n = 0 THEN 1 ELSE 2
    BY <2>3
  <2> QED
    BY <2>4 DEF S, m
<1>2. \A i \in 1 .. MaxFrames : shown[i] \in 0 .. 2
  BY DEF Sound, Typed
<1> QED
  BY <1>1, <1>2 DEF Shown

LEMMA DropSafe ==
    ASSUME Sound, Drop, answered' = answered, shown' \in [1 .. MaxFrames -> 0 .. 2]
    PROVE  Sound'
BY DEF Sound, Drop, Typed, Outputs, Debuggee, Executed, LiveShown, Attached, UpToCurrentShown,
       LiveIsStraight, PausedMeansStopped

\* Showing another frame says nothing new of the debuggee.
LEMMA StopAtSafe ==
    ASSUME Sound, launched # NoLaunch, NEW i \in 1 .. MaxFrames + 1, StopAt(i),
           shown' \in [1 .. MaxFrames -> 0 .. 2]
    PROVE  Typed' /\ Executed' /\ Debuggee'
<1>1. /\ launched' = [launched EXCEPT !.cur = i] /\ UNCHANGED <<child, server, answered, ending>>
  BY DEF StopAt, runtimeVars
<1>2. launched \in Sessions
  BY SessionFacts
<1>3. /\ launched' \in Sessions /\ launched' # NoLaunch
      /\ launched'.program = launched.program /\ launched'.produced = launched.produced
      /\ launched'.attach = launched.attach /\ launched'.state = launched.state
      /\ launched'.transport = launched.transport
  BY <1>1, <1>2, NoLaunchAssumption DEF Sessions
<1> QED
  BY <1>1, <1>3 DEF Sound, Typed, Outputs, Debuggee, Executed, Attached, PausedMeansStopped, IsServer

LEMMA ShowThenStopSafe ==
    ASSUME Sound, launched # NoLaunch, ~launched.live, NEW target \in Produced, ShowThenStop(target)
    PROVE  Sound'
<1>1. target \in 1 .. MaxFrames /\ MaxFrames \in Nat
  BY SessionFacts
<1>2. StopAt(target) /\ shown' = Shown(launched.cur + 1, target) /\ jumped' = jumped
  BY DEF ShowThenStop
<1>3. Typed' /\ Executed' /\ Debuggee'
  BY <1>1, <1>2, ShownSends, StopAtSafe
<1>4. launched' = [launched EXCEPT !.cur = target] /\ launched \in Sessions
  BY <1>2, SessionFacts DEF StopAt
<1>5. launched'.cur = target /\ launched'.live = launched.live /\ launched'.produced = launched.produced
  BY <1>4 DEF Sessions
<1>6. UpToCurrentShown'
  <2> SUFFICES ASSUME jumped # "goto", NEW i \in 1 .. launched.produced, i <= target
               PROVE  shown'[i] > 0
    BY <1>2, <1>5 DEF UpToCurrentShown, Produced
  <2>1. i \in 1 .. MaxFrames /\ launched.cur \in Nat /\ target \in Nat
    BY <1>1, SessionFacts DEF Produced
  <2>2. shown[i] \in 0 .. 2 /\ (i <= launched.cur => shown[i] > 0)
    BY <2>1 DEF Sound, Typed, Outputs, UpToCurrentShown, Produced
  <2>3. shown'[i] = IF i \in launched.cur + 1 .. target THEN (IF shown[i] = 0 THEN 1 ELSE 2) ELSE shown[i]
    BY <1>2, <2>1, ShownSends
  <2> QED
    BY <2>1, <2>2, <2>3
<1> QED
  BY <1>3, <1>5, <1>6 DEF Sound, Outputs, LiveShown, LiveIsStraight

LEMMA JumpSafe ==
    ASSUME Sound, launched # NoLaunch, NEW i \in 1 .. MaxFrames + 1, NEW how \in {"back", "goto"},
           JumpTo(i, how), i <= launched.cur \/ how = "goto"
    PROVE  Sound'
<1>1. StopAt(i) /\ jumped' = (IF jumped = "goto" THEN "goto" ELSE how) /\ shown' = shown
  BY DEF JumpTo
<1>2. Typed' /\ Executed' /\ Debuggee'
  BY <1>1, StopAtSafe DEF Sound, Typed
<1>3. launched' = [launched EXCEPT !.cur = i] /\ launched \in Sessions
  BY <1>1, SessionFacts DEF StopAt
<1>4. launched'.cur = i /\ launched'.live = launched.live /\ launched'.produced = launched.produced
  BY <1>3 DEF Sessions
<1>5. UpToCurrentShown'
  <2> SUFFICES ASSUME jumped # "goto", how = "back", NEW j \in 1 .. launched.produced, j <= i
               PROVE  shown[j] > 0
    BY <1>1, <1>4 DEF UpToCurrentShown, Produced
  <2>1. j <= launched.cur
    BY SessionFacts
  <2> QED
    BY <2>1 DEF Sound, Outputs, UpToCurrentShown, Produced
<1>6. LiveShown'
  BY <1>1, <1>4 DEF Sound, Outputs, LiveShown, Produced
<1>7. LiveIsStraight'
  BY <1>1 DEF LiveIsStraight
<1> QED
  BY <1>2, <1>5, <1>6, <1>7 DEF Sound, Outputs

(***************************************************************************)
(* Launch and restart.                                                     *)
(***************************************************************************)
LEMMA LaunchSafe ==
    ASSUME Sound, NEW p \in Programs, NEW live \in BOOLEAN, NEW attach \in Attaches, NEW trace \in BOOLEAN,
           ending = "no", attach # "none" => p.kind = "server", LaunchResult(p, live, attach, trace)
    PROVE  Sound'
<1> DEFINE n == IF p.end = "diagnostics" THEN 0 ELSE ProducedAtLaunch(p, live)
           cur == FirstBreak(Revalidated(n), n)
<1>1. MaxFrames \in Nat /\ FrameCount(p) \in Nat /\ FrameCount(p) <= MaxFrames
  BY FrameCounts
<1>2. n \in 0 .. FrameCount(p) /\ (live /\ p.kind = "plain" => n <= 1)
  <2>1. \A m \in Nat : Min({1, m}) \in 0 .. m /\ Min({1, m}) <= 1
    <3> TAKE m \in Nat
    <3> DEFINE S == {1, m}
    <3>1. S \in SUBSET Nat /\ S # {} /\ 1 \in S /\ m \in S
      OBVIOUS
    <3> HIDE DEF S
    <3>2. Min(S) \in Nat /\ Min(S) <= 1 /\ Min(S) <= m
      BY <3>1, LeastIn
    <3> QED
      BY <3>2 DEF S
  <2> QED
    BY <1>1, <2>1 DEF ProducedAtLaunch
<1>3. cur \in 1 .. MaxFrames + 1 /\ (n <= 1 => cur = 1)
  <2> DEFINE v == Revalidated(n)
             hits == {i \in 1 .. n : i \in breaks \/ (i \in DOMAIN v /\ v[i])}
  <2>1. cur = IF hits = {} THEN 1 ELSE Min(hits)
    BY DEF FirstBreak
  <2> HIDE DEF n, v, cur
  <2>2. hits \in SUBSET Nat /\ hits \subseteq 1 .. n
    BY <1>2
  <2> HIDE DEF hits
  <2>3. hits # {} => Min(hits) \in 1 .. n
    BY <2>2, LeastIn
  <2> QED
    BY <1>1, <1>2, <2>1, <2>3
<1> DEFINE fresh == [program |-> p, produced |-> n, cur |-> cur,
                       live |-> live /\ p.kind = "plain" /\ n > 0,
                       liveRequested |-> live, attach |-> attach, trace |-> trace,
                       since |-> answered, state |-> "paused", transport |-> "detached"]
<1>4. /\ launched' = fresh
      /\ shown' = [i \in 1 .. MaxFrames |-> IF i <= n /\ i <= cur THEN 1 ELSE 0]
      /\ jumped' = "no" /\ child' = "none" /\ server' = Off
      /\ UNCHANGED <<answered, ending>>
  BY DEF LaunchResult
<1> HIDE DEF n, cur
<1>5. fresh \in Sessions
  BY <1>1, <1>2, <1>3 DEF Sound, Typed, Sessions
<1>6. /\ launched' \in Sessions /\ launched' # NoLaunch
      /\ launched'.program = p /\ launched'.produced = n /\ launched'.cur = cur /\ launched'.attach = attach
      /\ launched'.live => n = 1 /\ cur = 1
  <2>1. fresh.live => n = 1 /\ cur = 1
    <3>1. fresh.live => live /\ p.kind = "plain" /\ n > 0
      OBVIOUS
    <3> HIDE DEF fresh
    <3> QED
      BY <1>1, <1>2, <1>3, <3>1
  <2> QED
    BY <1>4, <1>5, <2>1, NoLaunchAssumption
<1> HIDE DEF fresh
<1>7. Typed'
  <2>1. shown' \in [1 .. MaxFrames -> 0 .. 2]
    BY <1>4
  <2> QED
    BY <1>4, <1>6, <2>1 DEF Sound, Typed
<1>8. Executed'
  BY <1>2, <1>6 DEF Executed
<1>9. \A i \in 1 .. n : i <= cur => shown'[i] > 0
  BY <1>1, <1>2, <1>4
<1>10. UpToCurrentShown' /\ LiveShown'
  BY <1>6, <1>9 DEF UpToCurrentShown, LiveShown, Produced
<1>11. LiveIsStraight'
  <2> SUFFICES ASSUME launched'.live
               PROVE  cur = n /\ \A i \in 1 .. MaxFrames : shown'[i] = IF i \in 1 .. n THEN 1 ELSE 0
    BY <1>6 DEF LiveIsStraight, Produced
  <2> QED
    BY <1>1, <1>4, <1>6
<1>12. Debuggee'
  BY <1>4, <1>6 DEF Debuggee, Attached, PausedMeansStopped
<1> QED
  BY <1>7, <1>8, <1>10, <1>11, <1>12 DEF Sound, Outputs

LEMMA StartSafe ==
    ASSUME Sound, NEW p \in Programs,
           Restart(p) \/ \E live \in BOOLEAN, attach \in Attaches : Launch(p, live, attach)
    PROVE  Sound'
<1>1. CASE Restart(p)
  <2>1. launched \in Sessions /\ ending = "no" /\ launched.program.kind = p.kind
    BY <1>1, SessionFacts DEF Restart, Running
  <2>2. /\ launched.liveRequested \in BOOLEAN /\ launched.attach \in Attaches /\ launched.trace \in BOOLEAN
        /\ launched.attach # "none" => p.kind = "server"
    BY <1>1, <2>1 DEF Sessions, Sound, Debuggee, Attached, Restart, Running
  <2> QED
    BY <1>1, <2>1, <2>2, LaunchSafe DEF Restart
<1>2. ASSUME NEW live \in BOOLEAN, NEW attach \in Attaches, Launch(p, live, attach)
      PROVE  Sound'
  <2>1. p.kind \in {"plain", "server"}
    BY ProgramsAssumption
  <2> DEFINE trace == attach # "none"
  <2>2. trace \in BOOLEAN /\ ending = "no" /\ (attach # "none" => p.kind = "server") /\ LaunchResult(p, live, attach, trace)
    BY <1>2, <2>1 DEF Launch
  <2> HIDE DEF trace
  <2> QED
    BY <2>2, LaunchSafe
<1> QED
  BY <1>1, <1>2

(***************************************************************************)
(* Moving over recorded frames.                                            *)
(***************************************************************************)
LEMMA LaterFrames ==
    ASSUME Sound, launched # NoLaunch, NEW frames, After(frames) # {}
    PROVE  Min(After(frames)) \in Produced
<1>1. After(frames) \in SUBSET Nat /\ After(frames) \subseteq Produced
  BY SessionFacts DEF After, Produced
<1> QED
  BY <1>1, LeastIn

LEMMA StepToSafe ==
    ASSUME Sound, NEW frames, StepTo(frames)
    PROVE  Sound'
<1>1. launched # NoLaunch /\ ~launched.live
  BY DEF StepTo, Running
<1>2. CASE After(frames) # {}
  BY <1>1, <1>2, LaterFrames, ShowThenStopSafe DEF StepTo
<1>3. CASE After(frames) = {}
  <2>1. Terminate /\ shown' = shown
    BY <1>3 DEF StepTo
  <2> QED
    BY <2>1, DropSafe DEF Terminate, Sound, Typed
<1> QED
  BY <1>2, <1>3

LEMMA ContinueSafe ==
    ASSUME Sound, Continue
    PROVE  Sound'
<1>1. launched # NoLaunch /\ ~launched.live
  BY DEF Continue, Running
<1>2. CASE After(Stops) # {}
  BY <1>1, <1>2, LaterFrames, ShowThenStopSafe DEF Continue
<1>3. CASE After(Stops) = {}
  <2>1. Terminate /\ shown' = Shown(launched.cur + 1, launched.produced)
    BY <1>3 DEF Continue
  <2> QED
    BY <2>1, ShownSends, DropSafe DEF Terminate
<1> QED
  BY <1>2, <1>3

LEMMA StepSafe ==
    ASSUME Sound, StepNext \/ StepOut \/ StepIn \/ StepInTarget \/ StepInLines
    PROVE  Sound'
<1>1. CASE StepNext
  BY <1>1, StepToSafe DEF StepNext
<1>2. CASE StepOut
  BY <1>2, StepToSafe DEF StepOut
<1>3. CASE StepIn
  BY <1>3, StepToSafe DEF StepIn
<1>4. CASE StepInTarget
  <2>1. launched # NoLaunch /\ ~launched.live
    BY <1>4 DEF StepInTarget, Running
  <2>2. PICK target \in Produced : ShowThenStop(target)
    BY <1>4 DEF StepInTarget, StepInTargets
  <2> QED
    BY <2>1, <2>2, ShowThenStopSafe
<1>5. CASE StepInLines
  <2>1. launched # NoLaunch /\ ~launched.live
    BY <1>5 DEF StepInLines, Running
  <2>2. CASE StopAt(launched.cur) /\ UNCHANGED <<shown, jumped>>
    <3>1. launched' = launched
      BY <2>1, <2>2, SessionFacts DEF StopAt, Sessions
    <3> QED
      BY <2>2, <3>1, UnseenSafe DEF seen, StopAt, runtimeVars
  <2>3. CASE Terminate /\ UNCHANGED shown
    BY <2>3, DropSafe DEF Terminate, Sound, Typed
  <2> QED
    BY <1>5, <2>2, <2>3 DEF StepInLines
<1> QED
  BY <1>1, <1>2, <1>3, <1>4, <1>5

LEMMA BackSafe ==
    ASSUME Sound, StepBack \/ ReverseContinue \/ RestartFrame \/ \E i \in 1 .. MaxFrames : Goto(i)
    PROVE  Sound'
<1>1. launched # NoLaunch
  BY DEF StepBack, ReverseContinue, RestartFrame, Goto, Running
<1>2. launched.cur \in 1 .. MaxFrames + 1 /\ MaxFrames \in Nat /\ Produced \subseteq 1 .. MaxFrames
  BY <1>1, SessionFacts
<1> DEFINE cur == launched.cur
<1> HIDE DEF cur
<1>3. CASE StepBack
  <2>1. cur > 1 /\ JumpTo(cur - 1, "back")
    BY <1>3 DEF StepBack, cur
  <2>2. cur - 1 \in 1 .. MaxFrames + 1 /\ cur - 1 <= cur
    BY <1>2, <2>1 DEF cur
  <2> QED
    BY <1>1, <2>1, <2>2, JumpSafe DEF cur
<1>4. CASE ReverseContinue
  <2> DEFINE earlier == {i \in 1 .. cur - 1 : StopsAt(i)}
             i == IF earlier = {} THEN 1 ELSE Max(earlier)
  <2>1. cur > 1 /\ JumpTo(i, "back")
    BY <1>4 DEF ReverseContinue, cur
  <2>2. cur \in 1 .. MaxFrames + 1 /\ cur - 1 \in Nat /\ earlier \in SUBSET Nat /\ \A x \in earlier : x \in 1 .. cur - 1
    BY <1>2, <2>1 DEF cur
  <2> HIDE DEF earlier
  <2>3. earlier # {} => Max(earlier) \in 1 .. cur - 1
    <3> DEFINE k == cur - 1
    <3>1. k \in Nat /\ \A x \in earlier : x <= k
      BY <2>2
    <3> HIDE DEF k
    <3>2. earlier # {} => Max(earlier) \in earlier
      BY <2>2, <3>1, GreatestIn
    <3> QED
      BY <2>2, <3>2
  <2>4. i \in 1 .. MaxFrames + 1 /\ i <= cur
    BY <1>2, <2>1, <2>2, <2>3
  <2> HIDE DEF i
  <2> QED
    BY <1>1, <2>1, <2>4, JumpSafe DEF cur
<1>5. CASE RestartFrame
  <2>1. PICK i \in 1 .. cur : JumpTo(i, "back")
    BY <1>5 DEF RestartFrame, cur
  <2>2. i \in 1 .. MaxFrames + 1 /\ i <= cur
    BY <1>2 DEF cur
  <2> QED
    BY <1>1, <2>1, <2>2, JumpSafe DEF cur
<1>6. CASE \E i \in 1 .. MaxFrames : Goto(i)
  <2>1. PICK i \in 1 .. MaxFrames : JumpTo(i, "goto")
    BY <1>6 DEF Goto
  <2>2. i \in 1 .. MaxFrames + 1
    BY <1>2
  <2> QED
    BY <1>1, <2>1, <2>2, JumpSafe
<1> QED
  BY <1>3, <1>4, <1>5, <1>6

(***************************************************************************)
(* Live sessions.                                                          *)
(***************************************************************************)
LEMMA AdvanceSafe ==
    ASSUME Sound, NEW frames, AdvanceLiveUntil(frames)
    PROVE  Sound'
<1> DEFINE n == launched.produced
           all == FrameCount(launched.program)
           hits == frames \cap (n + 1 .. all)
<1>1. launched # NoLaunch /\ launched.live /\ jumped' = jumped
  BY DEF AdvanceLiveUntil, Running
<1>2. /\ launched \in Sessions /\ MaxFrames \in Nat /\ all \in Nat /\ all <= MaxFrames /\ n \in 0 .. all
      /\ launched.cur \in 1 .. MaxFrames + 1
  BY <1>1, SessionFacts
<1>3. /\ \A i \in 1 .. n : shown[i] > 0
      /\ jumped = "no" => launched.cur = n /\ \A i \in 1 .. MaxFrames : shown[i] = IF i \in 1 .. n THEN 1 ELSE 0
  BY <1>1 DEF Sound, Outputs, LiveShown, LiveIsStraight, Produced
<1>4. \A i \in 1 .. MaxFrames : shown[i] \in 0 .. 2
  BY DEF Sound, Typed
\* The frames up to one of them are executed and sent.
<1>5. ASSUME NEW m \in n .. all, shown' = Shown(n + 1, m)
      PROVE  /\ shown' \in [1 .. MaxFrames -> 0 .. 2]
             /\ \A i \in 1 .. m : shown'[i] > 0
             /\ jumped = "no" => \A i \in 1 .. MaxFrames : shown'[i] = IF i \in 1 .. m THEN 1 ELSE 0
  <2>1. /\ shown' \in [1 .. MaxFrames -> 0 .. 2]
        /\ \A i \in 1 .. MaxFrames :
              shown'[i] = IF i \in n + 1 .. m THEN (IF shown[i] = 0 THEN 1 ELSE 2) ELSE shown[i]
    BY <1>5, ShownSends
  <2> HIDE DEF n, all
  <2>2. m \in Nat /\ m <= MaxFrames /\ n \in Nat /\ n <= m
    BY <1>2
  <2>3. ASSUME NEW i \in 1 .. m PROVE shown'[i] > 0
    <3>0. MaxFrames \in Nat /\ i \in Nat /\ 1 <= i /\ i <= m
      BY <1>2, <2>2
    <3>1. i \in 1 .. MaxFrames /\ (i \in 1 .. n \/ i \in n + 1 .. m)
      BY <2>2, <3>0
    <3> QED
      BY <1>3, <1>4, <2>1, <2>2, <3>1
  <2>4. ASSUME jumped = "no", NEW i \in 1 .. MaxFrames
        PROVE  shown'[i] = IF i \in 1 .. m THEN 1 ELSE 0
    <3>1. i \in 1 .. m <=> i \in 1 .. n \/ i \in n + 1 .. m
      BY <2>2
    <3>2. ~(i \in 1 .. n /\ i \in n + 1 .. m)
      BY <2>2
    <3> QED
      BY <1>3, <2>1, <2>4, <3>1, <3>2
  <2> QED
    BY <2>1, <2>3, <2>4
<1>6. CASE /\ hits # {}
           /\ launched' = [launched EXCEPT !.produced = Min(hits), !.cur = Min(hits)]
           /\ shown' = Shown(n + 1, Min(hits))
           /\ UNCHANGED runtimeVars
  <2> DEFINE m == Min(hits)
  <2>1. m \in n .. all /\ m \in 1 .. MaxFrames
    <3>1. hits \in SUBSET Nat /\ \A x \in hits : x \in n + 1 .. all
      BY <1>2
    <3> HIDE DEF hits
    <3>2. m \in n + 1 .. all
      BY <1>6, <3>1, LeastIn
    <3> HIDE DEF m, n, all
    <3> QED
      BY <1>2, <3>2
  <2> HIDE DEF m
  <2>2. /\ launched' = [launched EXCEPT !.produced = m, !.cur = m] /\ shown' = Shown(n + 1, m)
        /\ UNCHANGED <<child, server, answered, ending>>
    BY <1>6 DEF m, runtimeVars
  <2>3. /\ launched' \in Sessions /\ launched' # NoLaunch
        /\ launched'.program = launched.program /\ launched'.attach = launched.attach
        /\ launched'.state = launched.state /\ launched'.transport = launched.transport
        /\ launched'.produced = m /\ launched'.cur = m
    <3>1. m \in 0 .. MaxFrames /\ m \in 1 .. MaxFrames + 1 /\ launched \in Sessions
      BY <1>2, <2>1
    <3>2. launched' = [launched EXCEPT !.produced = m, !.cur = m]
      BY <2>2
    <3>3. launched' \in Sessions
      BY <3>1, <3>2 DEF Sessions
    <3> QED
      BY <3>1, <3>2, <3>3, NoLaunchAssumption DEF Sessions
  <2>4. /\ shown' \in [1 .. MaxFrames -> 0 .. 2]
        /\ \A i \in 1 .. m : shown'[i] > 0
        /\ jumped = "no" => \A i \in 1 .. MaxFrames : shown'[i] = IF i \in 1 .. m THEN 1 ELSE 0
    BY <1>5, <2>1, <2>2
  <2>5. Typed'
    BY <2>2, <2>3, <2>4 DEF Sound, Typed
  <2>6. Outputs'
    BY <1>1, <2>1, <2>3, <2>4 DEF Outputs, Executed, UpToCurrentShown, LiveShown, LiveIsStraight, Produced
  <2>7. Debuggee'
    BY <1>1, <2>2, <2>3 DEF Sound, Debuggee, Attached, PausedMeansStopped, IsServer
  <2> QED
    BY <2>5, <2>6, <2>7 DEF Sound
<1>7. CASE Drop /\ shown' = Shown(n + 1, all) /\ answered' = answered
  BY <1>7, ShownSends, DropSafe
<1>8. CASE /\ launched' = [launched EXCEPT !.produced = all, !.live = FALSE]
           /\ shown' = Shown(n + 1, all)
           /\ UNCHANGED runtimeVars
  <2>1. UNCHANGED <<child, server, answered, ending>>
    BY <1>8 DEF runtimeVars
  <2>2. /\ launched' \in Sessions /\ launched' # NoLaunch
        /\ launched'.program = launched.program /\ launched'.attach = launched.attach
        /\ launched'.state = launched.state /\ launched'.transport = launched.transport
        /\ launched'.produced = all /\ ~launched'.live
    <3>1. launched' = [launched EXCEPT !.produced = all, !.live = FALSE]
      BY <1>8
    <3>2. all \in 0 .. MaxFrames
      BY <1>2
    <3> HIDE DEF all
    <3> QED
      BY <1>2, <3>1, <3>2, NoLaunchAssumption DEF Sessions
  <2>3. all \in n .. all
    BY <1>2
  <2>4. shown' \in [1 .. MaxFrames -> 0 .. 2] /\ \A i \in 1 .. all : shown'[i] > 0
    BY <1>5, <1>8, <2>3
  <2>5. Typed'
    BY <2>1, <2>2, <2>4 DEF Sound, Typed
  <2>6. Outputs'
    BY <1>2, <2>2, <2>4 DEF Outputs, Executed, UpToCurrentShown, LiveShown, LiveIsStraight, Produced
  <2>7. Debuggee'
    BY <1>1, <2>1, <2>2 DEF Sound, Debuggee, Attached, PausedMeansStopped, IsServer
  <2> QED
    BY <2>5, <2>6, <2>7 DEF Sound
<1> QED
  BY <1>6, <1>7, <1>8 DEF AdvanceLiveUntil

LEMMA LiveSafe ==
    ASSUME Sound, LiveContinue \/ LiveStepIn \/ LiveNext \/ LiveStepOut
    PROVE  Sound'
<1>1. CASE LiveContinue
  BY <1>1, AdvanceSafe DEF LiveContinue
<1>2. CASE LiveStepIn
  BY <1>2, AdvanceSafe DEF LiveStepIn
<1>3. CASE LiveNext
  BY <1>3, AdvanceSafe DEF LiveNext
<1>4. CASE LiveStepOut
  BY <1>4, AdvanceSafe DEF LiveStepOut
<1> QED
  BY <1>1, <1>2, <1>3, <1>4

(***************************************************************************)
(* Server sessions.                                                        *)
(***************************************************************************)
\* What is reported of the debuggee says nothing of frames and outputs.
LEMMA ReportSafe ==
    ASSUME Sound, launched # NoLaunch,
           NEW state \in {"paused", "running"}, NEW transport \in {"detached", "running", "suspended", "exited"},
           launched' = [launched EXCEPT !.state = state, !.transport = transport],
           UNCHANGED <<answered, shown, jumped>>
    PROVE  /\ Typed' /\ Outputs'
           /\ launched' # NoLaunch /\ launched'.state = state /\ launched'.transport = transport
           /\ launched'.program = launched.program /\ launched'.attach = launched.attach
<1>1. launched \in Sessions
  BY SessionFacts
<1>2. /\ launched' \in Sessions /\ launched' # NoLaunch
      /\ launched'.state = state /\ launched'.transport = transport
      /\ launched'.program = launched.program /\ launched'.attach = launched.attach
      /\ launched'.produced = launched.produced /\ launched'.cur = launched.cur /\ launched'.live = launched.live
  BY <1>1, NoLaunchAssumption DEF Sessions
<1>3. Typed'
  BY <1>2 DEF Sound, Typed
<1>4. Outputs'
  BY <1>2 DEF Sound, Outputs, Executed, UpToCurrentShown, LiveShown, LiveIsStraight, Produced
<1> QED
  BY <1>2, <1>3, <1>4

LEMMA ResumeSafe ==
    ASSUME Sound, Resume
    PROVE  Sound'
<1> DEFINE transport == IF launched.attach = "none" THEN launched.transport ELSE "running"
<1>1. /\ launched # NoLaunch /\ IsServer
      /\ \/ launched.attach = "none" /\ UNCHANGED <<child, server>>
         \/ launched.attach = "process" /\ child' = "running" /\ UNCHANGED server
         \/ launched.attach = "inProcess" /\ server' = (IF server = Off THEN {} ELSE server) /\ UNCHANGED child
      /\ launched' = [launched EXCEPT !.state = "running", !.transport = transport]
      /\ UNCHANGED <<answered, ending, shown, jumped>>
  BY DEF Resume, Running
<1>2. transport \in {"detached", "running", "suspended", "exited"}
  BY <1>1, SessionFacts DEF Sessions
<1> HIDE DEF transport
<1>3. /\ Typed' /\ Outputs'
      /\ launched' # NoLaunch /\ launched'.state = "running" /\ launched'.transport = transport
      /\ launched'.program = launched.program /\ launched'.attach = launched.attach
  BY <1>1, <1>2, ReportSafe
<1>4. Attached'
  BY <1>1, <1>3 DEF Sound, Debuggee, Attached, IsServer
<1>5. PausedMeansStopped'
  <2>1. launched.attach = "none" => child # "running" /\ server = Off
    BY <1>1 DEF Sound, Debuggee, Attached
  <2> QED
    BY <1>1, <1>3, <2>1 DEF PausedMeansStopped, transport
<1> QED
  BY <1>3, <1>4, <1>5 DEF Sound, Debuggee

LEMMA FoundExitedSafe ==
    ASSUME Sound, launched # NoLaunch, child = "exited", child' = "none",
           launched' = [launched EXCEPT !.transport = "exited"],
           server' = server, UNCHANGED <<answered, shown, jumped>>, ending' \in {"no", ending}
    PROVE  Sound'
<1>1. launched.state \in {"paused", "running"} /\ launched' = [launched EXCEPT !.state = launched.state, !.transport = "exited"]
  BY SessionFacts DEF Sessions
<1>2. /\ Typed' /\ Outputs'
      /\ launched' # NoLaunch /\ launched'.state = launched.state /\ launched'.transport = "exited"
      /\ launched'.program = launched.program /\ launched'.attach = launched.attach
  BY <1>1, ReportSafe
<1>3. launched.attach = "process"
  BY DEF Sound, Debuggee, Attached
<1> QED
  BY <1>2, <1>3 DEF Sound, Debuggee, Attached, PausedMeansStopped, IsServer

LEMMA SuspendSafe ==
    ASSUME Sound, Suspend
    PROVE  Sound'
<1>1. launched # NoLaunch
  BY DEF Sound, Debuggee, Attached, Suspend
<1>2. CASE launched.attach = "process" /\ child = "exited"
  BY <1>1, <1>2, FoundExitedSafe DEF Suspend
<1>3. CASE ~(launched.attach = "process" /\ child = "exited")
  <2> DEFINE transport == CASE launched.attach = "none" -> launched.transport
                            [] launched.attach = "process" /\ child = "none" -> "detached"
                            [] OTHER -> "suspended"
  <2>1. /\ child' = IF child = "running" THEN "suspended" ELSE child
        /\ server' = Off
        /\ launched' = [launched EXCEPT !.state = "paused", !.transport = transport]
        /\ ending' = "no" /\ UNCHANGED <<answered, shown, jumped>>
    BY <1>3 DEF Suspend
  <2>2. transport \in {"detached", "running", "suspended", "exited"}
    BY <1>1, SessionFacts DEF Sessions
  <2> HIDE DEF transport
  <2>3. /\ Typed' /\ Outputs'
        /\ launched' # NoLaunch
        /\ launched'.program = launched.program /\ launched'.attach = launched.attach
    BY <1>1, <2>1, <2>2, ReportSafe
  <2> QED
    BY <1>1, <2>1, <2>3 DEF Sound, Debuggee, Attached, PausedMeansStopped
<1> QED
  BY <1>2, <1>3

LEMMA EndingSafe ==
    ASSUME Sound, PauseServer \/ Disconnect
    PROVE  Sound'
<1>1. launched # NoLaunch /\ UNCHANGED <<launched, child, server, answered, shown, jumped>>
  BY DEF PauseServer, Disconnect, Running
<1> QED
  BY <1>1 DEF Sound, Typed, Outputs, Debuggee, Executed, LiveShown, Attached, UpToCurrentShown,
       LiveIsStraight, PausedMeansStopped, Produced, IsServer

LEMMA DebuggeeSafe ==
    ASSUME Sound, Answer \/ ChildExits
    PROVE  Sound'
<1>1. UNCHANGED <<launched, ending, shown, jumped>>
  BY DEF Answer, ChildExits
<1>2. CASE Answer
  <2>1. answered' = answered + 1 /\ answered < MaxRequests /\ child' = child
        /\ server' = IF server = Off THEN Off ELSE server \cup {answered + 1}
    BY <1>2 DEF Answer
  <2>2. answered' \in 0 .. MaxRequests /\ answered \in Nat
    BY <2>1, BoundsAssumption DEF Sound, Typed
  <2>3. server' = Off <=> server = Off
    BY <2>1, <2>2 DEF Off
  <2> QED
    BY <1>1, <2>1, <2>2, <2>3 DEF Sound, Typed, Outputs, Debuggee, Executed, LiveShown, Attached, UpToCurrentShown,
         LiveIsStraight, PausedMeansStopped, Produced, IsServer
<1>3. CASE ChildExits
  <2>1. child # "none" /\ child' = "exited" /\ UNCHANGED <<server, answered>>
    BY <1>3 DEF ChildExits
  <2> QED
    BY <1>1, <2>1 DEF Sound, Typed, Outputs, Debuggee, Executed, LiveShown, Attached, UpToCurrentShown,
         LiveIsStraight, PausedMeansStopped, Produced, IsServer
<1> QED
  BY <1>2, <1>3

(***************************************************************************)
(* The invariant is inductive.                                             *)
(***************************************************************************)
LEMMA InitSound == Init => Sound
BY BoundsAssumption DEF Init, Sound, Typed, Outputs, Debuggee, Executed, LiveShown, Attached, UpToCurrentShown,
   LiveIsStraight, PausedMeansStopped

LEMMA NextSound == Sound /\ [Next]_vars => Sound'
<1> SUFFICES ASSUME Sound, [Next]_vars PROVE Sound'
  OBVIOUS
<1>1. CASE \E p \in Programs : Restart(p) \/ \E live \in BOOLEAN, attach \in Attaches : Launch(p, live, attach)
  BY <1>1, StartSafe
<1>2. CASE \E B \in SUBSET (1 .. MaxFrames) : SetBreakpoints(B) \/ SetInstructionBreakpoints(B)
  BY <1>2, UnseenSafe DEF SetBreakpoints, SetInstructionBreakpoints, seen, runtimeVars
<1>3. CASE Continue
  BY <1>3, ContinueSafe
<1>4. CASE StepNext \/ StepOut \/ StepIn \/ StepInTarget \/ StepInLines
  BY <1>4, StepSafe
<1>5. CASE StepBack \/ ReverseContinue \/ RestartFrame \/ \E i \in 1 .. MaxFrames : Goto(i)
  BY <1>5, BackSafe
<1>6. CASE LiveContinue \/ LiveStepIn \/ LiveNext \/ LiveStepOut
  BY <1>6, LiveSafe
<1>7. CASE Resume
  BY <1>7, ResumeSafe
<1>8. CASE ChildFoundExited
  BY <1>8, FoundExitedSafe DEF ChildFoundExited, Running
<1>9. CASE PauseServer \/ Disconnect
  BY <1>9, EndingSafe
<1>10. CASE Suspend
  BY <1>10, SuspendSafe
<1>11. CASE ReportStopped
  <2>1. launched # NoLaunch /\ StopAt(launched.cur) /\ UNCHANGED <<shown, jumped>>
    BY <1>11 DEF ReportStopped, Running
  <2>2. launched' = launched
    BY <2>1, SessionFacts DEF StopAt, Sessions
  <2> QED
    BY <2>1, <2>2, UnseenSafe DEF seen, StopAt, runtimeVars
<1>12. CASE DisconnectEnds
  BY <1>12, DropSafe DEF DisconnectEnds, Terminate, Sound, Typed
<1>13. CASE Hangup
  BY <1>13, DropSafe DEF Hangup, Sound, Typed
<1>14. CASE Answer \/ ChildExits
  BY <1>14, DebuggeeSafe
<1>15. CASE UNCHANGED vars
  BY <1>15, UnseenSafe DEF vars, seen
<1> QED
  BY <1>1, <1>2, <1>3, <1>4, <1>5, <1>6, <1>7, <1>8, <1>9, <1>10, <1>11, <1>12, <1>13, <1>14, <1>15 DEF Next

LEMMA SpecSound == Spec => []Sound
BY InitSound, NextSound, PTL DEF Spec

(***************************************************************************)
(* The properties.                                                         *)
(***************************************************************************)

\* queue_frame_outputs: whatever the client stepped through, what was printed up
\* to the frame it stands at was sent to it, in replay and in live sessions,
\* for every program.
THEOREM OutputsAreSent == Spec => []UpToCurrentShown
<1>1. Sound => UpToCurrentShown
  BY DEF Sound, Outputs
<1> QED
  BY SpecSound, <1>1, PTL

\* advance_live_frame: a live session that only went forward has executed and
\* sent exactly the frames up to the one it shows.
THEOREM LiveNeverRunsAhead == Spec => []LiveIsStraight
<1>1. Sound => LiveIsStraight
  BY DEF Sound, Outputs
<1> QED
  BY SpecSound, <1>1, PTL

\* pause, continue and the exit of a child, in every order: a session reported
\* as paused, suspended, detached or exited has no debuggee that runs.
THEOREM PausedStandsStill == Spec => []PausedMeansStopped
<1>1. Sound => PausedMeansStopped
  BY DEF Sound, Debuggee
<1> QED
  BY SpecSound, <1>1, PTL

\* The drop of DapLaunchState: no child process and no attached server outlives
\* its session.
THEOREM DebuggeesEndWithSessions == Spec => []NoOrphan
<1>1. Sound => NoOrphan
  <2> SUFFICES ASSUME Sound, launched # NoLaunch, launched.program.kind = "plain"
               PROVE  child = "none" /\ server = Off
    BY DEF Sound, Debuggee, Attached, NoOrphan
  <2>1. launched.attach = "none"
    BY DEF Sound, Debuggee, Attached
  <2> QED
    BY <2>1 DEF Sound, Debuggee, Attached
<1> QED
  BY SpecSound, <1>1, PTL

------------------------------------------------------------------------------
(***************************************************************************)
(* The language server.                                                    *)
(*                                                                         *)
(* What the sets of the model are.                                         *)
(***************************************************************************)
AllTexts == UNION {Texts[p] : p \in Paths}
Contents == AllTexts \cup {NoFile}

Requests == [kind : {"request"}, about : {"document", "project", "workspace"}, path : Paths,
             told : Contents, disks : SUBSET Contents]
Messages ==
    [kind : {"didOpen", "didChange"}, path : Paths, text : AllTexts]
        \cup [kind : {"didSave"}, path : Paths, text : AllTexts \cup {NoText}]
        \cup [kind : {"didClose"}, path : Paths]
        \cup [kind : {"initialize"}]
        \cup Requests

ReadFile == [path : Paths, text : AllTexts]
OpenFile == [path : Paths, left : Seq(Modules)]
Link == [from : Paths, module : Modules, to : Paths]
Loads == [status : {"idle", "loading", "done", "failed"}, visited : SUBSET Paths,
          files : Seq(ReadFile), stack : Seq(OpenFile), items : Seq(Paths), links : SUBSET Link]

TypeOK ==
    /\ disk \in [Paths -> Contents]
    /\ editor \in [Paths -> Contents]
    /\ open_documents \in [Paths -> Contents]
    /\ inbox \in Seq(Messages)
    /\ request \in Requests \cup {NoRequest}
    /\ load \in Loads

(***************************************************************************)
(* The load: depth first, along the links.                                 *)
(***************************************************************************)
\* The import was taken to mean a file.
Linked(l, path, m) == \E k \in l.links : k.from = path /\ k.module = m

\* Each file was read once, and is on the stack or among the items.
Placed(l) ==
    /\ \A i, j \in 1 .. Len(l.files) : l.files[i].path = l.files[j].path => i = j
    /\ \A p \in Paths : p \in l.visited <=> \E i \in 1 .. Len(l.files) : l.files[i].path = p
    /\ \A p \in Paths : p \in l.visited <=>
          \/ \E i \in 1 .. Len(l.stack) : l.stack[i].path = p
          \/ \E i \in 1 .. Len(l.items) : l.items[i] = p
    /\ \A i, j \in 1 .. Len(l.stack) : l.stack[i].path = l.stack[j].path => i = j
    /\ \A i, j \in 1 .. Len(l.items) : l.items[i] = l.items[j] => i = j
    /\ \A i \in 1 .. Len(l.stack), j \in 1 .. Len(l.items) : l.stack[i].path # l.items[j]

\* The load starts with the entry and ends with it.
Rooted(l, entry) ==
    /\ Len(l.files) > 0 /\ l.files[1].path = entry
    /\ l.status = "loading" => (Len(l.stack) > 0 /\ l.stack[1].path = entry)
    /\ l.status = "done" => (l.stack = <<>> /\ Len(l.items) > 0 /\ l.items[Len(l.items)] = entry)

\* An import is still to be followed, or was, to a file that was read.
Followed(l) ==
    /\ \A i \in 1 .. Len(l.stack), k \in 1 .. Len(l.files) :
          l.files[k].path = l.stack[i].path =>
              \A m \in Range(l.files[k].text.imports) :
                  m \in Range(l.stack[i].left) \/ Linked(l, l.stack[i].path, m)
    /\ \A i \in 1 .. Len(l.items), k \in 1 .. Len(l.files) :
          l.files[k].path = l.items[i] =>
              \A m \in Range(l.files[k].text.imports) : Linked(l, l.items[i], m)
    /\ \A k \in l.links : k.from \in l.visited /\ k.to \in l.visited

\* A file on the stack was reached from those below it; what a file that was
\* ended imports is before it, or leads back to it.
Ordered(l) ==
    /\ \A i, j \in 1 .. Len(l.stack) : i <= j =>
          Reaches(l.links, l.stack[i].path, l.stack[j].path)
    /\ \A i \in 1 .. Len(l.items), k \in l.links : k.from = l.items[i] =>
          \/ \E j \in 1 .. i - 1 : l.items[j] = k.to
          \/ Reaches(l.links, k.to, k.from)

SoundLoad(l, entry) ==
    /\ l.status \in {"loading", "done"}
    /\ Placed(l)
    /\ Rooted(l, entry)
    /\ Followed(l)
    /\ Ordered(l)

\* An import still means the file it was taken to mean, but where a file came or went.
Untroubled(m, gone) == \A i \in DOMAIN Candidates[m] : Candidates[m][i] \notin gone
Steady(l, view, gone) == \A k \in l.links : Untroubled(k.module, gone) => Resolve(view, k.module) = k.to

(***************************************************************************)
(* The documents.                                                          *)
(***************************************************************************)
\* A message that says what open_documents is for a file, and what.
Settles(m, p) == m.kind \in {"didOpen", "didChange", "didSave", "didClose"} /\ m.path = p
Settled(m) == IF m.kind = "didClose" \/ (m.kind = "didSave" /\ m.text = NoText) THEN NoFile ELSE m.text

\* After n messages of the inbox, open_documents is d for the file.
Caches(messages, docs, n, p, d) ==
    \/ \E j \in 1 .. n : /\ Settles(messages[j], p) /\ Settled(messages[j]) = d
                         /\ \A k \in j + 1 .. n : ~ Settles(messages[k], p)
    \/ /\ docs[p] = d
       /\ \A k \in 1 .. n : ~ Settles(messages[k], p)

\* Once all messages are read, the server has of each document what it was told.
ServerCatchesUp ==
    \A p \in Paths : \A d \in Contents :
        Caches(inbox, open_documents, Len(inbox), p, d) => d = Told(p)

\* When the turn of a request comes, the server has what was told before the
\* request, and the file has a text it had since.
RequestsFit ==
    \A i \in 1 .. Len(inbox) : inbox[i].kind = "request" =>
        /\ disk[inbox[i].path] \in inbox[i].disks
        /\ \A d \in Contents : Caches(inbox, open_documents, i - 1, inbox[i].path, d) => d = inbox[i].told

\* A text that a request may be answered with.
Fitting(text, told, disks) == IF told # NoFile THEN text = told ELSE text \in disks

Answering ==
    request.kind = "request" /\ load.status # "failed" =>
        /\ SoundLoad(load, request.path)
        /\ Fitting(load.files[1].text, request.told, request.disks)
        /\ Steady(load, View(request.path), moved)

Serving ==
    /\ TypeOK
    /\ ServerCatchesUp
    /\ RequestsFit
    /\ Answering
    /\ DocumentAnswersFit
    /\ LoadIsMerged

(***************************************************************************)
(* What the names mean.                                                    *)
(***************************************************************************)
LEMMA ResolveIs ==
    ASSUME CandidatesAssumption, NEW view, NEW m \in Modules
    PROVE  \/ Resolve(view, m) = NoFile
           \/ Resolve(view, m) \in Paths /\ view[Resolve(view, m)] # NoFile
<1> DEFINE at == {i \in DOMAIN Candidates[m] : view[Candidates[m][i]] # NoFile}
<1>1. Candidates[m] \in Seq(Paths)
  BY CandidatesAssumption DEF CandidatesAssumption
<1>2. at \in SUBSET Nat
  BY <1>1
<1>3. CASE at = {}
  BY <1>3 DEF Resolve
<1>4. CASE at # {}
  <2>1. \E x \in at : \A y \in at : x <= y
    <3> HIDE DEF at
    <3> QED
      BY <1>2, <1>4, LeastIn
  <2> DEFINE i == CHOOSE x \in at : \A y \in at : x <= y
  <2>2. i \in at /\ \A y \in at : i <= y
    BY <2>1
  <2>3. Resolve(view, m) = Candidates[m][i]
    BY <1>4 DEF Resolve
  <2>4. Candidates[m][i] \in Paths /\ view[Candidates[m][i]] # NoFile
    BY <1>1, <2>2
  <2> QED
    BY <2>3, <2>4
<1> QED
  BY <1>3, <1>4

\* Only files that come or go change what a name means.
LEMMA ResolveStays ==
    ASSUME NEW view, NEW later, NEW m,
           \A i \in DOMAIN Candidates[m] : view[Candidates[m][i]] = NoFile <=> later[Candidates[m][i]] = NoFile
    PROVE  Resolve(later, m) = Resolve(view, m)
<1> DEFINE before == {i \in DOMAIN Candidates[m] : view[Candidates[m][i]] # NoFile}
           after == {i \in DOMAIN Candidates[m] : later[Candidates[m][i]] # NoFile}
           First(S) == IF S = {} THEN NoFile
                       ELSE Candidates[m][CHOOSE i \in S : \A j \in S : i <= j]
<1>1. before = after
  OBVIOUS
<1>2. Resolve(view, m) = First(before)
  BY DEF Resolve
<1>3. Resolve(later, m) = First(after)
  BY DEF Resolve
<1> HIDE DEF before, after, First
<1> QED
  BY <1>1, <1>2, <1>3

(***************************************************************************)
(* Sequences.                                                              *)
(***************************************************************************)
LEMMA InRange ==
    ASSUME NEW S, NEW s \in Seq(S), NEW x
    PROVE  x \in Range(s) <=> \E i \in 1 .. Len(s) : x = s[i]
BY DEF Range

LEMMA RangeOfTail ==
    ASSUME NEW S, NEW s \in Seq(S), s # <<>>
    PROVE  /\ Head(s) \in Range(s) /\ Range(Tail(s)) \subseteq Range(s)
           /\ \A x \in Range(s) : x = Head(s) \/ x \in Range(Tail(s))
<1>1. Len(s) \in Nat \ {0} /\ Head(s) = s[1]
  OBVIOUS
<1>2. /\ Tail(s) \in Seq(S) /\ Len(Tail(s)) = Len(s) - 1
      /\ \A i \in 1 .. Len(Tail(s)) : Tail(s)[i] = s[i + 1]
  BY HeadTailProperties
<1>3. Head(s) \in Range(s)
  BY <1>1, InRange
<1>4. \A x \in Range(Tail(s)) : x \in Range(s)
  <2> TAKE x \in Range(Tail(s))
  <2>1. PICK i \in 1 .. Len(Tail(s)) : x = Tail(s)[i]
    <3> DEFINE t == Tail(s)
    <3>1. t \in Seq(S) /\ x \in Range(t)
      BY <1>2
    <3>2. x \in Range(t) <=> \E i \in 1 .. Len(t) : x = t[i]
      <4> HIDE DEF t
      <4> QED
        BY <3>1, InRange
    <3> QED
      BY <3>1, <3>2
  <2>2. i + 1 \in 1 .. Len(s) /\ x = s[i + 1]
    BY <1>1, <1>2, <2>1
  <2> QED
    BY <2>2, InRange
<1>5. \A x \in Range(s) : x = Head(s) \/ x \in Range(Tail(s))
  <2> TAKE x \in Range(s)
  <2>1. PICK i \in 1 .. Len(s) : x = s[i]
    BY InRange
  <2>2. CASE i = 1
    BY <1>1, <2>1, <2>2
  <2>3. CASE i # 1
    <3>1. i - 1 \in 1 .. Len(Tail(s)) /\ x = Tail(s)[i - 1]
      BY <1>1, <1>2, <2>1, <2>3
    <3> QED
      BY <1>2, <3>1, InRange
  <2> QED
    BY <2>2, <2>3
<1> QED
  BY <1>3, <1>4, <1>5

LEMMA FrontIs ==
    ASSUME NEW S, NEW s \in Seq(S), s # <<>>
    PROVE  /\ Front(s) \in Seq(S) /\ Len(Front(s)) = Len(s) - 1
           /\ \A i \in 1 .. Len(s) - 1 : Front(s)[i] = s[i]
           /\ Last(s) = s[Len(s)] /\ Last(s) \in S /\ Len(s) \in Nat \ {0}
<1>1. Len(s) \in Nat \ {0} /\ \A i \in 1 .. Len(s) : s[i] \in S
  OBVIOUS
<1>2. \A i \in 1 .. Len(s) - 1 : s[i] \in S
  BY <1>1
<1>3. /\ SubSeq(s, 1, Len(s) - 1) \in Seq(S)
      /\ Len(SubSeq(s, 1, Len(s) - 1)) = IF 1 <= Len(s) - 1 THEN Len(s) - 1 - 1 + 1 ELSE 0
      /\ \A i \in 1 .. Len(s) - 1 - 1 + 1 : SubSeq(s, 1, Len(s) - 1)[i] = s[1 + i - 1]
  <2>1. 1 \in Int /\ Len(s) - 1 \in Int
    BY <1>1
  <2> QED
    BY <1>2, <2>1, SubSeqProperties
<1>4. Len(Front(s)) = Len(s) - 1
  <2> DEFINE n == Len(s)
             f == SubSeq(s, 1, n - 1)
  <2>1. n \in Nat \ {0} /\ Len(f) = IF 1 <= n - 1 THEN n - 1 - 1 + 1 ELSE 0
    BY <1>1, <1>3
  <2>2. Front(s) = f
    BY DEF Front
  <2> HIDE DEF n, f
  <2>3. Len(f) = n - 1
    BY <2>1
  <2> QED
    BY <2>2, <2>3 DEF n
<1>5. \A i \in 1 .. Len(s) - 1 : Front(s)[i] = s[i]
  <2> TAKE i \in 1 .. Len(s) - 1
  <2>1. i \in 1 .. Len(s) - 1 - 1 + 1 /\ 1 + i - 1 = i
    BY <1>1
  <2> QED
    BY <1>3, <2>1 DEF Front
<1> QED
  BY <1>1, <1>3, <1>4, <1>5 DEF Front, Last

LEMMA AppendIs ==
    ASSUME NEW S, NEW s \in Seq(S), NEW e \in S
    PROVE  /\ Append(s, e) \in Seq(S) /\ Len(Append(s, e)) = Len(s) + 1 /\ Len(s) \in Nat
           /\ \A i \in 1 .. Len(s) : Append(s, e)[i] = s[i]
           /\ Append(s, e)[Len(s) + 1] = e
OBVIOUS

(***************************************************************************)
(* Files that lead to others.                                              *)
(***************************************************************************)
LEMMA ReachesMore ==
    ASSUME NEW links, NEW more, links \subseteq more, NEW q, NEW p, Reaches(links, q, p)
    PROVE  Reaches(more, q, p)
BY DEF Reaches

LEMMA ReachesLink ==
    ASSUME NEW links, NEW q, NEW k \in links, Reaches(links, q, k.from)
    PROVE  Reaches(links, q, k.to)
BY DEF Reaches

LEMMA ReachesSelf ==
    ASSUME NEW links, NEW p
    PROVE  Reaches(links, p, p)
BY DEF Reaches

LEMMA ImportsAreNames ==
    ASSUME TextsAssumption, NEW f \in ReadFile
    PROVE  f.text.imports \in Seq(Modules) /\ f.path \in Paths
BY DEF TextsAssumption, ReadFile, AllTexts

\* The fields of a load.
LEMMA LoadIs ==
    ASSUME NEW l \in Loads
    PROVE  /\ l.files \in Seq(ReadFile) /\ l.stack \in Seq(OpenFile) /\ l.items \in Seq(Paths)
           /\ l.visited \in SUBSET Paths /\ l.links \in SUBSET Link
           /\ Len(l.files) \in Nat /\ Len(l.stack) \in Nat /\ Len(l.items) \in Nat
           /\ \A i \in 1 .. Len(l.files) : l.files[i] \in ReadFile /\ l.files[i].path \in Paths
           /\ \A i \in 1 .. Len(l.stack) : l.stack[i] \in OpenFile /\ l.stack[i].path \in Paths
           /\ \A i \in 1 .. Len(l.items) : l.items[i] \in Paths
           /\ \A k \in l.links : k.from \in Paths /\ k.module \in Modules /\ k.to \in Paths
<1>1. /\ l.files \in Seq(ReadFile) /\ l.stack \in Seq(OpenFile) /\ l.items \in Seq(Paths)
      /\ l.visited \in SUBSET Paths /\ l.links \in SUBSET Link
  BY DEF Loads
<1>2. \A f \in ReadFile : f.path \in Paths
  BY DEF ReadFile
<1>3. \A o \in OpenFile : o.path \in Paths
  BY DEF OpenFile
<1>4. \A k \in l.links : k.from \in Paths /\ k.module \in Modules /\ k.to \in Paths
  BY <1>1 DEF Link
<1> HIDE DEF ReadFile, OpenFile, Link
<1>5. \A i \in 1 .. Len(l.files) : l.files[i] \in ReadFile
  BY <1>1
<1>6. \A i \in 1 .. Len(l.stack) : l.stack[i] \in OpenFile
  BY <1>1
<1>7. \A i \in 1 .. Len(l.items) : l.items[i] \in Paths
  BY <1>1
<1> QED
  BY <1>1, <1>2, <1>3, <1>4, <1>5, <1>6, <1>7

\* Files on the stack and among the items are visited.
LEMMA PlacesAreVisited ==
    ASSUME NEW l \in Loads, Placed(l)
    PROVE  /\ \A i \in 1 .. Len(l.stack) : l.stack[i].path \in l.visited
           /\ \A i \in 1 .. Len(l.items) : l.items[i] \in l.visited
           /\ \A i \in 1 .. Len(l.files) : l.files[i].path \in l.visited
<1>1. \A p \in Paths : p \in l.visited <=> \/ \E i \in 1 .. Len(l.stack) : l.stack[i].path = p
                                           \/ \E i \in 1 .. Len(l.items) : l.items[i] = p
  BY DEF Placed
<1>2. \A p \in Paths : p \in l.visited <=> \E i \in 1 .. Len(l.files) : l.files[i].path = p
  BY DEF Placed
<1>3. \A i \in 1 .. Len(l.stack) : l.stack[i].path \in l.visited
  BY <1>1, LoadIs
<1>4. \A i \in 1 .. Len(l.items) : l.items[i] \in l.visited
  BY <1>1, LoadIs
<1>5. \A i \in 1 .. Len(l.files) : l.files[i].path \in l.visited
  BY <1>2, LoadIs
<1> QED
  BY <1>3, <1>4, <1>5

(***************************************************************************)
(* One step of a load that is sound.  First the end of a file.             *)
(***************************************************************************)
LEMMA Ends ==
    ASSUME NEW entry, NEW l \in Loads,
           SoundLoad(l, entry), l.status = "loading", Last(l.stack).left = <<>>
    PROVE  /\ EndFile(l) \in Loads /\ EndFile(l).files = l.files /\ EndFile(l).links = l.links
           /\ SoundLoad(EndFile(l), entry)
<1> DEFINE n == Len(l.stack)
           r == EndFile(l)
           top == l.stack[n]
<1>1. /\ l.stack \in Seq(OpenFile) /\ l.files \in Seq(ReadFile) /\ l.items \in Seq(Paths)
      /\ l.visited \in SUBSET Paths
  BY DEF Loads
<1>2. l.stack # <<>> /\ n \in Nat \ {0} /\ l.stack[1].path = entry
  BY <1>1 DEF SoundLoad, Rooted
<1>3. /\ Front(l.stack) \in Seq(OpenFile) /\ Len(Front(l.stack)) = n - 1
      /\ \A i \in 1 .. n - 1 : Front(l.stack)[i] = l.stack[i]
      /\ Last(l.stack) = top /\ top \in OpenFile
  BY <1>1, <1>2, FrontIs
<1>4. top.path \in Paths /\ top.left = <<>>
  BY <1>3 DEF OpenFile
<1>5. /\ r \in Loads
      /\ r.status = IF n = 1 THEN "done" ELSE "loading"
      /\ r.visited = l.visited /\ r.files = l.files /\ r.links = l.links
      /\ r.stack = Front(l.stack) /\ r.items = Append(l.items, top.path)
  <2>1. Append(l.items, top.path) \in Seq(Paths)
    BY <1>1, <1>4
  <2> QED
    BY <1>1, <1>3, <2>1 DEF EndFile, Loads, SoundLoad
<1>6. /\ Len(l.items) \in Nat /\ Len(r.items) = Len(l.items) + 1
      /\ \A i \in 1 .. Len(l.items) : r.items[i] = l.items[i]
      /\ r.items[Len(l.items) + 1] = top.path
  BY <1>1, <1>4, <1>5, AppendIs
<1>7. Len(r.stack) = n - 1 /\ \A i \in 1 .. n - 1 : r.stack[i] = l.stack[i]
  BY <1>3, <1>5
<1>8. Placed(l) /\ Rooted(l, entry) /\ Followed(l) /\ Ordered(l)
  BY DEF SoundLoad
<1>o. r.files = l.files /\ r.visited = l.visited /\ r.links = l.links /\ Len(l.files) \in Nat
  BY <1>1, <1>5
<1> HIDE DEF r, top, n
<1>9. Placed(r)
  <2>1. /\ \A i, j \in 1 .. Len(r.files) : r.files[i].path = r.files[j].path => i = j
        /\ \A p \in Paths : p \in r.visited <=> \E i \in 1 .. Len(r.files) : r.files[i].path = p
    BY <1>8, <1>o DEF Placed
  <2>2. ASSUME NEW p \in Paths, p \in r.visited
        PROVE  \/ \E i \in 1 .. Len(r.stack) : r.stack[i].path = p
               \/ \E i \in 1 .. Len(r.items) : r.items[i] = p
    <3>1. CASE \E i \in 1 .. Len(l.items) : l.items[i] = p
      BY <1>6, <3>1
    <3>2. CASE \E i \in 1 .. n : l.stack[i].path = p
      <4>1. PICK i \in 1 .. n : l.stack[i].path = p
        BY <3>2
      <4>2. CASE i = n
        BY <1>6, <4>1, <4>2 DEF top
      <4>3. CASE i # n
        BY <1>2, <1>7, <4>1, <4>3
      <4> QED
        BY <4>2, <4>3
    <3> QED
      BY <1>8, <1>o, <2>2, <3>1, <3>2 DEF Placed, n
  <2>3. ASSUME NEW p \in Paths, \/ \E i \in 1 .. Len(r.stack) : r.stack[i].path = p
                                \/ \E i \in 1 .. Len(r.items) : r.items[i] = p
        PROVE  p \in r.visited
    <3>1. CASE \E i \in 1 .. n - 1 : r.stack[i].path = p
      <4>1. \E i \in 1 .. n : l.stack[i].path = p
        BY <1>2, <1>7, <3>1
      <4> QED
        BY <1>8, <1>o, <4>1 DEF Placed, n
    <3>2. CASE \E i \in 1 .. Len(l.items) : r.items[i] = p
      BY <1>6, <1>8, <1>o, <3>2 DEF Placed
    <3>3. CASE r.items[Len(l.items) + 1] = p
      <4>1. p = l.stack[n].path /\ n \in 1 .. n
        BY <1>2, <1>6, <3>3 DEF top
      <4> QED
        BY <1>8, <1>o, <4>1 DEF Placed, n
    <3> QED
      BY <1>6, <1>7, <2>3, <3>1, <3>2, <3>3
  <2>4. ASSUME NEW i \in 1 .. Len(r.stack), NEW j \in 1 .. Len(r.stack), r.stack[i].path = r.stack[j].path
        PROVE  i = j
    <3>1. i \in 1 .. n /\ j \in 1 .. n /\ r.stack[i] = l.stack[i] /\ r.stack[j] = l.stack[j]
      BY <1>2, <1>7
    <3> QED
      BY <1>8, <2>4, <3>1 DEF Placed, n
  <2>5. \A i \in 1 .. Len(l.items) : l.items[i] # top.path
    BY <1>2, <1>8 DEF Placed, n, top
  <2>6. \A i, j \in 1 .. Len(r.items) : r.items[i] = r.items[j] => i = j
    BY <1>6, <1>8, <2>5 DEF Placed
  <2>7. ASSUME NEW i \in 1 .. Len(r.stack), NEW j \in 1 .. Len(r.items)
        PROVE  r.stack[i].path # r.items[j]
    <3>1. i \in 1 .. n /\ i # n /\ r.stack[i] = l.stack[i]
      BY <1>2, <1>7
    <3>2. CASE j \in 1 .. Len(l.items)
      BY <1>6, <1>8, <3>1, <3>2 DEF Placed, n
    <3>3. CASE j = Len(l.items) + 1
      BY <1>2, <1>6, <1>8, <3>1, <3>3 DEF Placed, n, top
    <3> QED
      BY <1>6, <3>2, <3>3
  <2> QED
    BY <2>1, <2>2, <2>3, <2>4, <2>6, <2>7 DEF Placed
<1>10. Rooted(r, entry)
  <2>1. Len(r.files) > 0 /\ r.files[1].path = entry
    BY <1>8, <1>o DEF Rooted
  <2>2. r.status = "loading" => (Len(r.stack) > 0 /\ r.stack[1].path = entry)
    BY <1>2, <1>5, <1>7
  <2>3. r.status = "done" => (r.stack = <<>> /\ Len(r.items) > 0 /\ r.items[Len(r.items)] = entry)
    <3> SUFFICES ASSUME r.status = "done"
                 PROVE  r.stack = <<>> /\ Len(r.items) > 0 /\ r.items[Len(r.items)] = entry
      OBVIOUS
    <3>1. n = 1
      BY <1>5
    <3>2. r.stack \in Seq(OpenFile) /\ Len(r.stack) = 0
      BY <1>3, <1>5, <1>7, <3>1
    <3>3. r.items[Len(r.items)] = entry
      BY <1>2, <1>6, <3>1 DEF top
    <3> QED
      BY <1>6, <3>2, <3>3
  <2> QED
    BY <2>1, <2>2, <2>3 DEF Rooted
<1>11. Followed(r)
  <2>1. ASSUME NEW i \in 1 .. Len(r.stack), NEW k \in 1 .. Len(r.files), r.files[k].path = r.stack[i].path,
               NEW m \in Range(r.files[k].text.imports)
        PROVE  m \in Range(r.stack[i].left) \/ Linked(r, r.stack[i].path, m)
    <3>1. i \in 1 .. n /\ r.stack[i] = l.stack[i]
      BY <1>2, <1>7
    <3>2. m \in Range(l.stack[i].left) \/ Linked(l, l.stack[i].path, m)
      BY <1>8, <1>o, <2>1, <3>1 DEF Followed, n
    <3> QED
      BY <1>o, <3>1, <3>2 DEF Linked
  <2>2. ASSUME NEW i \in 1 .. Len(r.items), NEW k \in 1 .. Len(r.files), r.files[k].path = r.items[i],
               NEW m \in Range(r.files[k].text.imports)
        PROVE  Linked(r, r.items[i], m)
    <3>1. CASE i \in 1 .. Len(l.items)
      <4>1. Linked(l, l.items[i], m)
        BY <1>6, <1>8, <1>o, <2>2, <3>1 DEF Followed
      <4> QED
        BY <1>6, <1>o, <3>1, <4>1 DEF Linked
    <3>2. CASE i = Len(l.items) + 1
      <4>1. l.files[k].path = l.stack[n].path /\ n \in 1 .. n /\ k \in 1 .. Len(l.files)
        BY <1>2, <1>6, <1>o, <2>2, <3>2 DEF top
      <4>2. m \in Range(l.stack[n].left) \/ Linked(l, l.stack[n].path, m)
        BY <1>8, <1>o, <2>2, <4>1 DEF Followed, n
      <4>3. m \notin Range(l.stack[n].left)
        BY <1>4 DEF Range, top
      <4> QED
        BY <1>6, <1>o, <3>2, <4>2, <4>3 DEF Linked, top
    <3> QED
      BY <1>6, <3>1, <3>2
  <2>3. \A k \in r.links : k.from \in r.visited /\ k.to \in r.visited
    BY <1>8, <1>o DEF Followed
  <2> QED
    BY <2>1, <2>2, <2>3 DEF Followed
<1>12. Ordered(r)
  <2>1. ASSUME NEW i \in 1 .. Len(r.stack), NEW j \in 1 .. Len(r.stack), i <= j
        PROVE  Reaches(r.links, r.stack[i].path, r.stack[j].path)
    <3>1. i \in 1 .. n /\ j \in 1 .. n /\ r.stack[i] = l.stack[i] /\ r.stack[j] = l.stack[j]
      BY <1>2, <1>7
    <3> QED
      BY <1>8, <1>o, <2>1, <3>1 DEF Ordered, n
  <2>2. ASSUME NEW i \in 1 .. Len(r.items), NEW k \in r.links, k.from = r.items[i]
        PROVE  \/ \E j \in 1 .. i - 1 : r.items[j] = k.to
               \/ Reaches(r.links, k.to, k.from)
    <3>1. CASE i \in 1 .. Len(l.items)
      <4>1. \/ \E j \in 1 .. i - 1 : l.items[j] = k.to
            \/ Reaches(l.links, k.to, k.from)
        BY <1>6, <1>8, <1>o, <2>2, <3>1 DEF Ordered
      <4> QED
        BY <1>6, <1>o, <3>1, <4>1
    <3>2. CASE i = Len(l.items) + 1
      <4>1. k.to \in l.visited /\ k.to \in Paths /\ k.from = l.stack[n].path
        BY <1>1, <1>6, <1>8, <1>o, <2>2, <3>2 DEF Followed, top
      <4>2. CASE \E j \in 1 .. Len(l.items) : l.items[j] = k.to
        BY <1>6, <3>2, <4>2
      <4>3. CASE \E j \in 1 .. n : l.stack[j].path = k.to
        <5>1. PICK j \in 1 .. n : l.stack[j].path = k.to
          BY <4>3
        <5>2. Reaches(l.links, l.stack[j].path, l.stack[n].path)
          BY <1>2, <1>8, <5>1 DEF Ordered, n
        <5> QED
          BY <1>o, <4>1, <5>1, <5>2
      <4> QED
        BY <1>8, <4>1, <4>2, <4>3 DEF Placed, n
    <3>3. i \in 1 .. Len(l.items) \/ i = Len(l.items) + 1
      BY <1>6
    <3> QED
      BY <3>1, <3>2, <3>3
  <2> QED
    BY <2>1, <2>2 DEF Ordered
<1>13. r.status \in {"loading", "done"}
  BY <1>5
<1>14. SoundLoad(r, entry)
  BY <1>9, <1>10, <1>11, <1>12, <1>13 DEF SoundLoad
<1> QED
  BY <1>5, <1>14 DEF r

(***************************************************************************)
(* Then an import, of a file that was read.                                *)
(***************************************************************************)
\* The same files are on the stack, up to the n-th.
SamePaths(s, t, n) == n <= Len(s) /\ n <= Len(t) /\ \A i \in 1 .. n : t[i].path = s[i].path

\* The import x of the file on top is taken to mean `to`: no other import is
\* taken from the stack, and no link but its own is new.
Imports(l, r, x, to) ==
    LET n == Len(l.stack)
        link == [from |-> l.stack[n].path, module |-> x, to |-> to]
    IN  /\ SamePaths(l.stack, r.stack, n)
        /\ \A i \in 1 .. n - 1 : r.stack[i].left = l.stack[i].left
        /\ Range(l.stack[n].left) \subseteq Range(r.stack[n].left) \cup {x}
        /\ r.links = l.links \cup {link}

\* What was to be followed from the stack still is, or was.
LEMMA StackFollowed ==
    ASSUME NEW entry, NEW l \in Loads, NEW r \in Loads, NEW x, NEW to,
           SoundLoad(l, entry), l.status = "loading", Imports(l, r, x, to)
    PROVE  \A i \in 1 .. Len(l.stack), k \in 1 .. Len(l.files) :
              l.files[k].path = l.stack[i].path =>
                  \A m \in Range(l.files[k].text.imports) :
                      m \in Range(r.stack[i].left) \/ Linked(r, r.stack[i].path, m)
<1> DEFINE n == Len(l.stack)
           link == [from |-> l.stack[n].path, module |-> x, to |-> to]
<1>1. n \in Nat \ {0} /\ \A i \in 1 .. n : i \in 1 .. n - 1 \/ i = n
  BY LoadIs DEF SoundLoad, Rooted
<1>2. /\ \A i \in 1 .. n : r.stack[i].path = l.stack[i].path
      /\ \A i \in 1 .. n - 1 : r.stack[i].left = l.stack[i].left
      /\ Range(l.stack[n].left) \subseteq Range(r.stack[n].left) \cup {x}
      /\ r.links = l.links \cup {link}
  BY DEF Imports, SamePaths
<1>3. link \in r.links /\ link.from = l.stack[n].path /\ link.module = x
  BY <1>2
<1> HIDE DEF n, link
<1>4. ASSUME NEW i \in 1 .. n, NEW k \in 1 .. Len(l.files), l.files[k].path = l.stack[i].path,
             NEW m \in Range(l.files[k].text.imports)
      PROVE  m \in Range(r.stack[i].left) \/ Linked(r, r.stack[i].path, m)
  <2>1. m \in Range(l.stack[i].left) \/ Linked(l, l.stack[i].path, m)
    BY <1>4 DEF SoundLoad, Followed, n
  <2>2. CASE Linked(l, l.stack[i].path, m)
    BY <1>2, <2>2 DEF Linked
  <2>3. CASE m \in Range(l.stack[i].left) /\ i \in 1 .. n - 1
    BY <1>2, <2>3
  <2>4. CASE m \in Range(l.stack[i].left) /\ i = n
    BY <1>1, <1>2, <1>3, <2>4 DEF Linked
  <2> QED
    BY <1>1, <2>1, <2>2, <2>3, <2>4
<1> QED
  BY <1>4 DEF n

\* The new link does not leave from a file that was ended.
LEMMA ItemsStay ==
    ASSUME NEW entry, NEW l \in Loads, NEW r \in Loads, NEW x, NEW to,
           SoundLoad(l, entry), l.status = "loading", Imports(l, r, x, to), r.items = l.items
    PROVE  /\ \A i \in 1 .. Len(r.items), k \in r.links : k.from = r.items[i] =>
                \/ \E j \in 1 .. i - 1 : r.items[j] = k.to
                \/ Reaches(r.links, k.to, k.from)
           /\ \A i \in 1 .. Len(l.items), k \in 1 .. Len(l.files) :
                l.files[k].path = l.items[i] =>
                    \A m \in Range(l.files[k].text.imports) : Linked(r, l.items[i], m)
<1> DEFINE n == Len(l.stack)
           link == [from |-> l.stack[n].path, module |-> x, to |-> to]
<1>1. n \in 1 .. n /\ link.from = l.stack[n].path /\ r.links = l.links \cup {link} /\ l.links \subseteq r.links
  BY LoadIs DEF SoundLoad, Rooted, Imports
<1>2. \A i \in 1 .. Len(l.items) : l.stack[n].path # l.items[i]
  BY <1>1 DEF SoundLoad, Placed
<1> HIDE DEF n, link
<1>3. ASSUME NEW i \in 1 .. Len(r.items), NEW k \in r.links, k.from = r.items[i]
      PROVE  \/ \E j \in 1 .. i - 1 : r.items[j] = k.to
             \/ Reaches(r.links, k.to, k.from)
  <2>1. k \in l.links
    BY <1>1, <1>2, <1>3
  <2>2. \/ \E j \in 1 .. i - 1 : l.items[j] = k.to
        \/ Reaches(l.links, k.to, k.from)
    BY <1>3, <2>1 DEF SoundLoad, Ordered
  <2> QED
    BY <1>1, <2>2, ReachesMore
<1>4. ASSUME NEW i \in 1 .. Len(l.items), NEW k \in 1 .. Len(l.files), l.files[k].path = l.items[i],
             NEW m \in Range(l.files[k].text.imports)
      PROVE  Linked(r, l.items[i], m)
  <2>1. Linked(l, l.items[i], m)
    BY <1>4 DEF SoundLoad, Followed
  <2> QED
    BY <1>1, <2>1 DEF Linked
<1> QED
  BY <1>3, <1>4

LEMMA Advances ==
    ASSUME NEW entry, NEW l \in Loads, NEW r \in Loads, NEW x, NEW to \in l.visited,
           SoundLoad(l, entry), l.status = "loading",
           r.status = "loading", r.visited = l.visited, r.files = l.files, r.items = l.items,
           Len(r.stack) = Len(l.stack), Imports(l, r, x, to)
    PROVE  SoundLoad(r, entry)
<1> DEFINE n == Len(l.stack)
           link == [from |-> l.stack[n].path, module |-> x, to |-> to]
<1>1. n \in Nat \ {0} /\ Len(r.stack) = n /\ \A i \in 1 .. n : r.stack[i].path = l.stack[i].path
  BY DEF Loads, SoundLoad, Rooted, SamePaths, Imports
<1>2. Placed(l) /\ Rooted(l, entry) /\ Followed(l) /\ Ordered(l)
  BY DEF SoundLoad
<1>l. r.links = l.links \cup {link} /\ link.from = l.stack[n].path /\ link.to = to
  BY DEF Imports
<1> HIDE DEF link
<1>3. Placed(r)
  <2>1. \A p : (\E i \in 1 .. Len(r.stack) : r.stack[i].path = p) <=> (\E i \in 1 .. Len(l.stack) : l.stack[i].path = p)
    BY <1>1
  <2>2. \A i, j \in 1 .. Len(r.stack) : r.stack[i].path = r.stack[j].path => i = j
    BY <1>1, <1>2 DEF Placed
  <2>3. \A i \in 1 .. Len(r.stack), j \in 1 .. Len(r.items) : r.stack[i].path # r.items[j]
    BY <1>1, <1>2 DEF Placed
  <2>4. r.files = l.files /\ r.items = l.items /\ r.visited = l.visited
    OBVIOUS
  <2>5. \A p \in Paths : p \in l.visited <=> \/ \E i \in 1 .. Len(l.stack) : l.stack[i].path = p
                                             \/ \E i \in 1 .. Len(l.items) : l.items[i] = p
    BY <1>2 DEF Placed
  <2>6. \A p \in Paths : p \in r.visited <=> \/ \E i \in 1 .. Len(r.stack) : r.stack[i].path = p
                                             \/ \E i \in 1 .. Len(r.items) : r.items[i] = p
    BY <2>1, <2>4, <2>5
  <2>7. /\ \A i, j \in 1 .. Len(r.files) : r.files[i].path = r.files[j].path => i = j
        /\ \A p \in Paths : p \in r.visited <=> \E i \in 1 .. Len(r.files) : r.files[i].path = p
        /\ \A i, j \in 1 .. Len(r.items) : r.items[i] = r.items[j] => i = j
    BY <1>2, <2>4 DEF Placed
  <2> QED
    BY <2>2, <2>3, <2>6, <2>7 DEF Placed
<1>4. Rooted(r, entry)
  BY <1>1, <1>2 DEF Rooted
<1>5. Followed(r)
  <2>1. \A i \in 1 .. Len(r.stack), k \in 1 .. Len(r.files) :
           r.files[k].path = r.stack[i].path =>
               \A m \in Range(r.files[k].text.imports) :
                   m \in Range(r.stack[i].left) \/ Linked(r, r.stack[i].path, m)
    BY <1>1, StackFollowed
  <2>2. \A i \in 1 .. Len(r.items), k \in 1 .. Len(r.files) :
           r.files[k].path = r.items[i] =>
               \A m \in Range(r.files[k].text.imports) : Linked(r, r.items[i], m)
    BY ItemsStay
  <2>3. l.stack[n].path \in r.visited /\ to \in r.visited
    BY <1>1, <1>2, PlacesAreVisited
  <2>4. \A k \in r.links : k.from \in r.visited /\ k.to \in r.visited
    BY <1>2, <1>l, <2>3 DEF Followed
  <2> QED
    BY <2>1, <2>2, <2>4 DEF Followed
<1>6. Ordered(r)
  <2>1. ASSUME NEW i \in 1 .. Len(r.stack), NEW j \in 1 .. Len(r.stack), i <= j
        PROVE  Reaches(r.links, r.stack[i].path, r.stack[j].path)
    <3>1. /\ i \in 1 .. Len(l.stack) /\ j \in 1 .. Len(l.stack)
          /\ r.stack[i].path = l.stack[i].path /\ r.stack[j].path = l.stack[j].path
      BY <1>1
    <3>2. Reaches(l.links, l.stack[i].path, l.stack[j].path)
      BY <1>2, <2>1, <3>1 DEF Ordered
    <3> QED
      BY <1>l, <3>1, <3>2, ReachesMore
  <2>2. \A i \in 1 .. Len(r.items), k \in r.links : k.from = r.items[i] =>
           \/ \E j \in 1 .. i - 1 : r.items[j] = k.to
           \/ Reaches(r.links, k.to, k.from)
    BY ItemsStay
  <2> QED
    BY <2>1, <2>2 DEF Ordered
<1> QED
  BY <1>3, <1>4, <1>5, <1>6 DEF SoundLoad

(***************************************************************************)
(* Then one of a file that is read now.                                    *)
(***************************************************************************)
LEMMA Descends ==
    ASSUME NEW entry, NEW l \in Loads, NEW r \in Loads, NEW x, NEW f \in ReadFile,
           SoundLoad(l, entry), l.status = "loading", f.path \notin l.visited,
           r.status = "loading", r.visited = l.visited \cup {f.path}, r.files = Append(l.files, f),
           r.items = l.items, Len(r.stack) = Len(l.stack) + 1, Imports(l, r, x, f.path),
           r.stack[Len(l.stack) + 1] = [path |-> f.path, left |-> f.text.imports]
    PROVE  SoundLoad(r, entry)
<1> DEFINE n == Len(l.stack)
           nf == Len(l.files)
           link == [from |-> l.stack[n].path, module |-> x, to |-> f.path]
<1>1. n \in Nat \ {0} /\ Len(r.stack) = n + 1 /\ \A i \in 1 .. n : r.stack[i].path = l.stack[i].path
  BY DEF Loads, SoundLoad, Rooted, SamePaths, Imports
<1>2. Placed(l) /\ Rooted(l, entry) /\ Followed(l) /\ Ordered(l)
  BY DEF SoundLoad
<1>l. /\ r.links = l.links \cup {link} /\ link \in r.links /\ link.from = l.stack[n].path /\ link.to = f.path
      /\ l.links \subseteq r.links
  BY DEF Imports
<1>3. /\ l.files \in Seq(ReadFile) /\ nf \in Nat /\ Len(r.files) = nf + 1
      /\ \A k \in 1 .. nf : r.files[k] = l.files[k]
      /\ r.files[nf + 1] = f
  <2>1. l.files \in Seq(ReadFile)
    BY DEF Loads
  <2> QED
    BY <2>1, AppendIs
<1>4. f.path \in Paths /\ \A k \in 1 .. nf : l.files[k].path \in Paths /\ l.files[k].path \in l.visited
  BY <1>2, LoadIs, PlacesAreVisited DEF ReadFile
<1>5. \A i \in 1 .. n : l.stack[i].path \in Paths /\ l.stack[i].path \in l.visited
  BY <1>2, LoadIs, PlacesAreVisited
<1>6. \A i \in 1 .. Len(l.items) : l.items[i] \in Paths /\ l.items[i] \in l.visited
  BY <1>2, LoadIs, PlacesAreVisited
<1>7. r.stack[n + 1].path = f.path /\ r.stack[n + 1].left = f.text.imports
  OBVIOUS
<1>x. /\ r.visited = l.visited \cup {f.path} /\ r.items = l.items
      /\ f.path \notin l.visited
  OBVIOUS
<1>y. Len(r.stack) = n + 1 /\ Len(r.files) = nf + 1
  BY <1>1, <1>3
<1> HIDE DEF n, nf, link
<1>8. \A i \in 1 .. n + 1 : i \in 1 .. n \/ i = n + 1
  BY <1>1
<1>9. \A k \in 1 .. nf + 1 : k \in 1 .. nf \/ k = nf + 1
  BY <1>3
<1>10. Placed(r)
  <2>1. ASSUME NEW i \in 1 .. nf + 1, NEW j \in 1 .. nf + 1, r.files[i].path = r.files[j].path
        PROVE  i = j
    BY <1>2, <1>3, <1>4, <1>9, <1>x, <2>1 DEF Placed, nf
  <2>2. ASSUME NEW p \in Paths
        PROVE  p \in r.visited <=> \E i \in 1 .. nf + 1 : r.files[i].path = p
    <3>1. ASSUME p \in r.visited
          PROVE  \E i \in 1 .. nf + 1 : r.files[i].path = p
      <4>1. CASE p = f.path
        BY <1>3, <4>1
      <4>2. CASE p \in l.visited
        <5>1. PICK k \in 1 .. nf : l.files[k].path = p
          BY <1>2, <4>2 DEF Placed, nf
        <5>2. k \in 1 .. nf + 1 /\ r.files[k].path = p
          BY <1>3, <5>1
        <5> QED
          BY <5>2
      <4> QED
        BY <1>x, <3>1, <4>1, <4>2
    <3>2. ASSUME NEW i \in 1 .. nf + 1, r.files[i].path = p
          PROVE  p \in r.visited
      BY <1>3, <1>4, <1>9, <1>x, <3>2
    <3> QED
      BY <3>1, <3>2
  <2>3. ASSUME NEW p \in Paths
        PROVE  p \in r.visited <=> \/ \E i \in 1 .. n + 1 : r.stack[i].path = p
                                   \/ \E i \in 1 .. Len(r.items) : r.items[i] = p
    <3>1. ASSUME p \in r.visited
          PROVE  \/ \E i \in 1 .. n + 1 : r.stack[i].path = p
                 \/ \E i \in 1 .. Len(r.items) : r.items[i] = p
      <4>1. CASE p = f.path
        <5>1. n + 1 \in 1 .. n + 1
          BY <1>1
        <5> QED
          BY <1>7, <4>1, <5>1
      <4>2. CASE \E i \in 1 .. n : l.stack[i].path = p
        <5>1. PICK i \in 1 .. n : l.stack[i].path = p
          BY <4>2
        <5>2. i \in 1 .. n + 1 /\ r.stack[i].path = p
          BY <1>1, <5>1
        <5> QED
          BY <5>2
      <4>3. CASE \E i \in 1 .. Len(l.items) : l.items[i] = p
        BY <1>x, <4>3
      <4> QED
        BY <1>2, <1>x, <3>1, <4>1, <4>2, <4>3 DEF Placed, n
    <3>2. ASSUME NEW i \in 1 .. n + 1, r.stack[i].path = p
          PROVE  p \in r.visited
      BY <1>1, <1>5, <1>7, <1>8, <1>x, <3>2
    <3>3. ASSUME NEW i \in 1 .. Len(r.items), r.items[i] = p
          PROVE  p \in r.visited
      BY <1>6, <1>x, <3>3
    <3> QED
      BY <3>1, <3>2, <3>3
  <2>4. ASSUME NEW i \in 1 .. n + 1, NEW j \in 1 .. n + 1, r.stack[i].path = r.stack[j].path
        PROVE  i = j
    <3>1. CASE i \in 1 .. n /\ j \in 1 .. n
      <4>1. l.stack[i].path = l.stack[j].path
        BY <1>1, <2>4, <3>1
      <4> QED
        BY <1>2, <3>1, <4>1 DEF Placed, n
    <3>2. CASE i = n + 1 /\ j = n + 1
      BY <3>2
    <3>3. CASE i \in 1 .. n /\ j = n + 1
      BY <1>1, <1>5, <1>7, <1>x, <2>4, <3>3
    <3>4. CASE i = n + 1 /\ j \in 1 .. n
      BY <1>1, <1>5, <1>7, <1>x, <2>4, <3>4
    <3> QED
      BY <1>8, <3>1, <3>2, <3>3, <3>4
  <2>5. \A i, j \in 1 .. Len(r.items) : r.items[i] = r.items[j] => i = j
    BY <1>2, <1>x DEF Placed
  <2>6. ASSUME NEW i \in 1 .. n + 1, NEW j \in 1 .. Len(r.items)
        PROVE  r.stack[i].path # r.items[j]
    <3>1. CASE i \in 1 .. n
      <4>1. l.stack[i].path # l.items[j]
        BY <1>2, <1>x, <3>1 DEF Placed, n
      <4> QED
        BY <1>1, <1>x, <3>1, <4>1
    <3>2. CASE i = n + 1
      BY <1>6, <1>7, <1>x, <3>2
    <3> QED
      BY <1>8, <3>1, <3>2
  <2> QED
    BY <1>y, <2>1, <2>2, <2>3, <2>4, <2>5, <2>6 DEF Placed
<1>11. Rooted(r, entry)
  <2>1. Len(r.files) > 0 /\ r.files[1].path = entry
    BY <1>2, <1>3 DEF Rooted, nf
  <2>2. Len(r.stack) > 0 /\ r.stack[1].path = entry
    BY <1>1, <1>2 DEF Rooted
  <2> QED
    BY <2>1, <2>2 DEF Rooted
<1>12. Followed(r)
  <2>1. ASSUME NEW i \in 1 .. n + 1, NEW k \in 1 .. nf + 1, r.files[k].path = r.stack[i].path,
               NEW m \in Range(r.files[k].text.imports)
        PROVE  m \in Range(r.stack[i].left) \/ Linked(r, r.stack[i].path, m)
    <3>1. CASE i \in 1 .. n /\ k \in 1 .. nf
      <4>1. l.files[k].path = l.stack[i].path /\ m \in Range(l.files[k].text.imports)
        BY <1>1, <1>3, <2>1, <3>1
      <4> QED
        BY <3>1, <4>1, StackFollowed DEF n, nf
    <3>2. CASE i = n + 1 /\ k = nf + 1
      BY <1>3, <1>7, <2>1, <3>2
    <3>3. CASE i = n + 1 /\ k \in 1 .. nf
      BY <1>3, <1>4, <1>7, <1>x, <2>1, <3>3
    <3>4. CASE i \in 1 .. n /\ k = nf + 1
      BY <1>1, <1>3, <1>5, <1>x, <2>1, <3>4
    <3> QED
      BY <1>8, <1>9, <3>1, <3>2, <3>3, <3>4
  <2>2. ASSUME NEW i \in 1 .. Len(r.items), NEW k \in 1 .. nf + 1, r.files[k].path = r.items[i],
               NEW m \in Range(r.files[k].text.imports)
        PROVE  Linked(r, r.items[i], m)
    <3>1. CASE k \in 1 .. nf
      <4>1. l.files[k].path = l.items[i] /\ m \in Range(l.files[k].text.imports) /\ i \in 1 .. Len(l.items)
        BY <1>3, <1>x, <2>2, <3>1
      <4>2. Linked(r, l.items[i], m)
        BY <1>x, <3>1, <4>1, ItemsStay DEF nf
      <4> QED
        BY <1>x, <4>2
    <3>2. CASE k = nf + 1
      BY <1>3, <1>6, <1>x, <2>2, <3>2
    <3> QED
      BY <1>9, <3>1, <3>2
  <2>3. l.stack[n].path \in r.visited /\ f.path \in r.visited
    BY <1>1, <1>5, <1>x
  <2>4. \A k \in r.links : k.from \in r.visited /\ k.to \in r.visited
    BY <1>2, <1>l, <1>x, <2>3 DEF Followed
  <2> QED
    BY <1>y, <2>1, <2>2, <2>4 DEF Followed
<1>13. Ordered(r)
  <2>1. ASSUME NEW i \in 1 .. n, NEW j \in 1 .. n, i <= j
        PROVE  Reaches(r.links, r.stack[i].path, r.stack[j].path)
    <3>1. Reaches(l.links, l.stack[i].path, l.stack[j].path)
      BY <1>2, <2>1 DEF Ordered, n
    <3> QED
      BY <1>1, <1>l, <3>1, ReachesMore
  <2>2. ASSUME NEW i \in 1 .. n
        PROVE  Reaches(r.links, r.stack[i].path, r.stack[n + 1].path)
    <3>1. n \in 1 .. n /\ i <= n /\ r.stack[n].path = link.from
      BY <1>1, <1>l
    <3>2. Reaches(r.links, r.stack[i].path, link.from)
      BY <2>1, <3>1
    <3>3. Reaches(r.links, r.stack[i].path, link.to)
      BY <1>l, <3>2, ReachesLink
    <3> QED
      BY <1>7, <1>l, <3>3
  <2>3. ASSUME NEW i \in 1 .. n + 1, NEW j \in 1 .. n + 1, i <= j
        PROVE  Reaches(r.links, r.stack[i].path, r.stack[j].path)
    <3>1. CASE j \in 1 .. n
      <4>1. i \in 1 .. n
        BY <1>1, <2>3, <3>1
      <4> QED
        BY <2>1, <2>3, <3>1, <4>1
    <3>2. CASE j = n + 1 /\ i \in 1 .. n
      BY <2>2, <3>2
    <3>3. CASE j = n + 1 /\ i = n + 1
      BY <3>3, ReachesSelf
    <3> QED
      BY <1>8, <3>1, <3>2, <3>3
  <2>4. \A i \in 1 .. Len(r.items), k \in r.links : k.from = r.items[i] =>
           \/ \E j \in 1 .. i - 1 : r.items[j] = k.to
           \/ Reaches(r.links, k.to, k.from)
    BY <1>x, ItemsStay
  <2> QED
    BY <1>y, <2>3, <2>4 DEF Ordered
<1> QED
  BY <1>10, <1>11, <1>12, <1>13 DEF SoundLoad

(***************************************************************************)
(* A load from its start to its end.                                       *)
(***************************************************************************)
LEMMA FileIsRead ==
    ASSUME TextsAssumption, NEW view \in [Paths -> Contents], NEW l \in Loads, NEW path \in Paths,
           path \notin l.visited, view[path] # NoFile,
           NEW f, f = [path |-> path, text |-> view[path]], NEW r, r = LoadFile(view, l, path)
    PROVE  /\ f \in ReadFile /\ f.text.imports \in Seq(Modules)
           /\ r \in Loads /\ r.status = l.status /\ r.visited = l.visited \cup {path}
           /\ r.files = Append(l.files, f) /\ r.items = l.items /\ r.links = l.links
           /\ r.stack = Append(l.stack, [path |-> path, left |-> f.text.imports])
<1> DEFINE o == [path |-> path, left |-> view[path].imports]
<1>1. view[path] \in AllTexts
  BY DEF Contents
<1>2. f \in ReadFile /\ f.text.imports \in Seq(Modules) /\ f.text = view[path]
  BY <1>1 DEF ReadFile, AllTexts, TextsAssumption
<1>3. o \in OpenFile
  BY <1>2 DEF OpenFile
<1>4. Append(l.files, f) \in Seq(ReadFile) /\ Append(l.stack, o) \in Seq(OpenFile)
  BY <1>2, <1>3 DEF Loads
<1>5. r = [l EXCEPT !.visited = @ \cup {path}, !.files = Append(@, f), !.stack = Append(@, o)]
  BY DEF LoadFile
<1> HIDE DEF o
<1>6. /\ r.status = l.status /\ r.visited = l.visited \cup {path} /\ r.links = l.links
      /\ r.files = Append(l.files, f) /\ r.items = l.items /\ r.stack = Append(l.stack, o)
  BY <1>5 DEF Loads
<1>7. DOMAIN r = {"status", "visited", "files", "stack", "items", "links"}
  BY <1>5 DEF Loads
<1>8. r = [status |-> r.status, visited |-> r.visited, files |-> r.files, stack |-> r.stack, items |-> r.items,
           links |-> r.links]
  BY <1>5, <1>7 DEF Loads
<1>9. /\ r.status \in {"idle", "loading", "done", "failed"} /\ r.visited \in SUBSET Paths
      /\ r.files \in Seq(ReadFile) /\ r.stack \in Seq(OpenFile) /\ r.items \in Seq(Paths)
      /\ r.links \in SUBSET Link
  BY <1>4, <1>6 DEF Loads
<1>10. r \in Loads
  BY <1>8, <1>9 DEF Loads
<1> QED
  BY <1>2, <1>6, <1>10 DEF o

LEMMA FailedIsALoad ==
    ASSUME NEW l \in Loads
    PROVE  Failed(l) \in Loads /\ Failed(l).status = "failed"
BY DEF Failed, Loads

LEMMA Starts ==
    ASSUME TextsAssumption, NEW view \in [Paths -> Contents], NEW entry \in Paths
    PROVE  /\ Start(view, entry) \in Loads
           /\ view[entry] = NoFile => Start(view, entry).status = "failed"
           /\ view[entry] # NoFile =>
                /\ SoundLoad(Start(view, entry), entry)
                /\ Start(view, entry).files[1].text = view[entry]
                /\ Start(view, entry).links = {}
<1> DEFINE l == [Idle EXCEPT !.status = "loading"]
           r == Start(view, entry)
           f == [path |-> entry, text |-> view[entry]]
<1>1. /\ l \in Loads /\ l.status = "loading" /\ l.visited = {} /\ l.files = <<>>
      /\ l.stack = <<>> /\ l.items = <<>> /\ l.links = {}
  BY EmptySeq DEF Idle, Loads
<1>2. r = LoadFile(view, l, entry)
  BY DEF Start
<1>3. CASE view[entry] = NoFile
  <2>1. r = Failed(l)
    BY <1>1, <1>2, <1>3 DEF LoadFile
  <2> QED
    BY <1>1, <1>3, <2>1, FailedIsALoad
<1>4. CASE view[entry] # NoFile
  <2> HIDE DEF l, r
  <2>1. /\ f \in ReadFile /\ f.text.imports \in Seq(Modules)
        /\ r \in Loads /\ r.status = "loading" /\ r.visited = {entry}
        /\ r.files = Append(<<>>, f) /\ r.items = <<>> /\ r.links = {}
        /\ r.stack = Append(<<>>, [path |-> entry, left |-> f.text.imports])
    <3>1. entry \notin l.visited
      BY <1>1
    <3> QED
      BY <1>1, <1>2, <1>4, <3>1, FileIsRead
  <2>2. /\ Len(r.files) = 1 /\ r.files[1] = f /\ Len(r.stack) = 1 /\ Len(r.items) = 0
        /\ r.stack[1].path = entry /\ r.stack[1].left = f.text.imports
        /\ f.path = entry /\ f.text = view[entry]
    BY <2>1
  <2> HIDE DEF f
  <2>3. Placed(r)
    BY <2>1, <2>2 DEF Placed
  <2>4. Rooted(r, entry)
    BY <2>1, <2>2 DEF Rooted
  <2>5. Followed(r)
    BY <2>1, <2>2 DEF Followed
  <2>6. Ordered(r)
    <3>1. \A i, j \in 1 .. Len(r.stack) : i = 1 /\ j = 1
      BY <2>2
    <3>2. \A i \in 1 .. Len(r.items) : FALSE
      BY <2>2
    <3> QED
      BY <3>1, <3>2, ReachesSelf DEF Ordered
  <2> QED
    BY <1>4, <2>1, <2>2, <2>3, <2>4, <2>5, <2>6 DEF SoundLoad, r
<1> QED
  BY <1>3, <1>4

LEMMA Steps ==
    ASSUME CandidatesAssumption, TextsAssumption,
           NEW view \in [Paths -> Contents], NEW entry, NEW gone, NEW l \in Loads,
           SoundLoad(l, entry), Steady(l, view, gone), l.status = "loading"
    PROVE  /\ Step(view, l) \in Loads
           /\ Step(view, l).status # "failed" =>
                /\ SoundLoad(Step(view, l), entry)
                /\ Step(view, l).files[1] = l.files[1]
                /\ Steady(Step(view, l), view, gone)
<1> DEFINE n == Len(l.stack)
           top == l.stack[n]
           x == Head(top.left)
           path == Resolve(view, x)
           new == [top EXCEPT !.left = Tail(@)]
           s == Append(Front(l.stack), new)
           link == [from |-> top.path, module |-> x, to |-> path]
           a == [l EXCEPT !.stack = s, !.links = @ \cup {link}]
<1>1. l.stack \in Seq(OpenFile) /\ l.files \in Seq(ReadFile) /\ l.items \in Seq(Paths) /\ l.links \in SUBSET Link
  BY DEF Loads
<1>2. l.stack # <<>> /\ n \in Nat \ {0} /\ Len(l.files) \in Nat \ {0}
  BY <1>1 DEF SoundLoad, Rooted
<1>3. /\ Front(l.stack) \in Seq(OpenFile) /\ Len(Front(l.stack)) = n - 1
      /\ \A i \in 1 .. n - 1 : Front(l.stack)[i] = l.stack[i]
      /\ Last(l.stack) = top /\ top \in OpenFile
  BY <1>1, <1>2, FrontIs
<1>4. CASE top.left = <<>>
  <2>1. Step(view, l) = EndFile(l)
    BY <1>3, <1>4 DEF Step
  <2>2. /\ EndFile(l) \in Loads /\ EndFile(l).files = l.files /\ EndFile(l).links = l.links
        /\ SoundLoad(EndFile(l), entry)
    BY <1>3, <1>4, Ends
  <2>3. Steady(EndFile(l), view, gone)
    BY <2>2 DEF Steady
  <2> QED
    BY <2>1, <2>2, <2>3
<1>5. CASE top.left # <<>>
  <2>1. /\ top.left \in Seq(Modules) /\ top.path \in Paths
        /\ top = [path |-> top.path, left |-> top.left]
    BY <1>3 DEF OpenFile
  <2>2. /\ x \in Modules /\ Tail(top.left) \in Seq(Modules)
        /\ Range(top.left) \subseteq Range(Tail(top.left)) \cup {x}
    <3>1. \A y \in Range(top.left) : y = x \/ y \in Range(Tail(top.left))
      BY <1>5, <2>1, RangeOfTail
    <3>2. x \in Modules /\ Tail(top.left) \in Seq(Modules)
      BY <1>5, <2>1
    <3> QED
      BY <3>1, <3>2
  <2>3. new \in OpenFile /\ new.path = top.path /\ new.left = Tail(top.left)
    BY <1>3, <2>2 DEF OpenFile
  <2>4. /\ s \in Seq(OpenFile) /\ Len(s) = n /\ s[n] = new
        /\ \A i \in 1 .. n - 1 : s[i] = l.stack[i]
    <3> HIDE DEF new
    <3>1. /\ s \in Seq(OpenFile) /\ Len(s) = Len(Front(l.stack)) + 1
          /\ \A i \in 1 .. Len(Front(l.stack)) : s[i] = Front(l.stack)[i]
          /\ s[Len(Front(l.stack)) + 1] = new
      BY <1>3, <2>3, AppendIs
    <3> QED
      BY <1>2, <1>3, <3>1
  <2>5. Step(view, l) = IF path = NoFile THEN Failed(l) ELSE LoadFile(view, a, path)
    BY <1>3, <1>5 DEF Step, LoadImport
  <2>6. CASE path = NoFile
    BY <2>5, <2>6, FailedIsALoad
  <2>7. CASE path # NoFile
    <3>1. path \in Paths /\ view[path] # NoFile
      BY <2>2, <2>7, ResolveIs
    <3>2. link \in Link /\ link.module = x /\ link.to = path
      BY <2>1, <2>2, <3>1 DEF Link
    <3>3. /\ a \in Loads /\ a.status = "loading" /\ a.visited = l.visited /\ a.files = l.files
          /\ a.items = l.items /\ a.stack = s /\ a.links = l.links \cup {link}
      <4> HIDE DEF s, link
      <4> QED
        BY <1>1, <2>4, <3>2 DEF Loads
    <3>4. Steady(a, view, gone)
      BY <3>2, <3>3 DEF Steady
    <3>5. /\ link = [from |-> l.stack[n].path, module |-> x, to |-> path] /\ n \in Nat \ {0}
          /\ new.path = l.stack[n].path /\ Range(l.stack[n].left) \subseteq Range(new.left) \cup {x}
      BY <1>2, <2>2, <2>3
    <3>6. /\ \A i \in 1 .. n : s[i].path = l.stack[i].path
          /\ \A i \in 1 .. n - 1 : s[i].left = l.stack[i].left
          /\ Range(l.stack[n].left) \subseteq Range(s[n].left) \cup {x}
      <4>1. \A i \in 1 .. n : i \in 1 .. n - 1 \/ i = n
        BY <1>2
      <4> HIDE DEF new, s, link, x, top
      <4> QED
        BY <2>4, <3>5, <4>1
    <3>7. CASE path \in l.visited
      <4>1. Step(view, l) = a
        BY <2>5, <2>7, <3>3, <3>7 DEF LoadFile
      <4>2. Imports(l, a, x, path)
        <5> HIDE DEF new, s, a, x, path
        <5> QED
          BY <1>2, <2>4, <3>3, <3>5, <3>6 DEF Imports, SamePaths
      <4>3. SoundLoad(a, entry)
        <5> HIDE DEF new, s, a, x, path
        <5> QED
          BY <2>4, <3>3, <3>7, <4>2, Advances
      <4> HIDE DEF a
      <4> QED
        BY <3>3, <3>4, <4>1, <4>3
    <3>8. CASE path \notin l.visited
      <4> DEFINE f == [path |-> path, text |-> view[path]]
                 r == LoadFile(view, a, path)
      <4>1. /\ f \in ReadFile /\ f.text.imports \in Seq(Modules)
            /\ r \in Loads /\ r.status = a.status /\ r.visited = a.visited \cup {path}
            /\ r.files = Append(a.files, f) /\ r.items = a.items /\ r.links = a.links
            /\ r.stack = Append(a.stack, [path |-> path, left |-> f.text.imports])
        <5>1. a \in Loads /\ path \notin a.visited
          BY <3>3, <3>8
        <5> HIDE DEF a, path
        <5> QED
          BY <3>1, <5>1, FileIsRead
      <4>2. f.path = path
        OBVIOUS
      <4>3. [path |-> path, left |-> f.text.imports] \in OpenFile
        BY <3>1, <4>1 DEF OpenFile
      <4> DEFINE o == [path |-> path, left |-> f.text.imports]
      <4> HIDE DEF f, r, a, s, path, link, new, x
      <4>4. /\ r.status = "loading" /\ r.visited = l.visited \cup {path} /\ r.files = Append(l.files, f)
            /\ r.items = l.items /\ r.links = l.links \cup {link}
            /\ r.stack = Append(s, [path |-> path, left |-> f.text.imports])
        BY <3>3, <4>1
      <4>5. /\ Len(r.stack) = n + 1 /\ \A i \in 1 .. n : r.stack[i] = s[i]
            /\ r.stack[n + 1] = o
        <5> HIDE DEF o
        <5> QED
          BY <2>4, <4>3, <4>4, AppendIs DEF o
      <4>6. Imports(l, r, x, path)
        <5>1. \A i \in 1 .. n : r.stack[i] = s[i]
          BY <4>5
        <5>2. n <= Len(l.stack) /\ n <= Len(r.stack) /\ \A i \in 1 .. n - 1 : i \in 1 .. n
          BY <1>2, <4>5
        <5>3. SamePaths(l.stack, r.stack, n)
          BY <3>6, <5>1, <5>2 DEF SamePaths
        <5>4. n \in 1 .. n
          BY <1>2
        <5> QED
          BY <3>5, <3>6, <4>4, <5>1, <5>2, <5>3, <5>4 DEF Imports
      <4>7. SoundLoad(r, entry)
        <5>1. r.stack[Len(l.stack) + 1] = [path |-> f.path, left |-> f.text.imports]
          BY <4>2, <4>5
        <5>2. Len(r.stack) = Len(l.stack) + 1
          BY <4>5
        <5>3. r.visited = l.visited \cup {f.path} /\ f.path \notin l.visited /\ Imports(l, r, x, f.path)
          BY <3>8, <4>2, <4>4, <4>6
        <5> HIDE DEF n, o, top
        <5> QED
          BY <4>1, <4>4, <5>1, <5>2, <5>3, Descends
      <4>8. r.files[1] = l.files[1]
        BY <1>1, <1>2, <4>1, <4>4
      <4>9. Steady(r, view, gone)
        BY <3>3, <3>4, <4>4 DEF Steady
      <4>10. Step(view, l) = r
        BY <2>5, <2>7 DEF r, a, s, path, link, new, x
      <4> QED
        BY <4>1, <4>7, <4>8, <4>9, <4>10
    <3> QED
      BY <3>7, <3>8
  <2> QED
    BY <2>6, <2>7
<1> QED
  BY <1>4, <1>5

(***************************************************************************)
(* A load that is sound and done is merged.                                *)
(***************************************************************************)
LEMMA TextIsRead ==
    ASSUME NEW l \in Loads, Placed(l), NEW k \in 1 .. Len(l.files)
    PROVE  TextRead(l, l.files[k].path) = l.files[k].text
<1> DEFINE chosen == CHOOSE f \in Range(l.files) : f.path = l.files[k].path
<1>1. l.files \in Seq(ReadFile)
  BY DEF Loads
<1>2. l.files[k] \in Range(l.files)
  BY <1>1, InRange
<1>3. chosen \in Range(l.files) /\ chosen.path = l.files[k].path
  BY <1>2
<1>4. PICK i \in 1 .. Len(l.files) : chosen = l.files[i]
  BY <1>1, <1>3, InRange
<1>5. i = k
  BY <1>3, <1>4 DEF Placed
<1> QED
  BY <1>4, <1>5 DEF TextRead

LEMMA Finishes ==
    ASSUME NEW entry, NEW view, NEW gone, NEW l \in Loads, SoundLoad(l, entry), Steady(l, view, gone),
           l.status = "done"
    PROVE  Merged(l) /\ OneMeaning(l, gone)
<1> DEFINE nf == Len(l.files)
           ni == Len(l.items)
           At(path) == CHOOSE i \in DOMAIN l.items : l.items[i] = path
<1>1. /\ l.files \in Seq(ReadFile) /\ l.items \in Seq(Paths) /\ l.visited \in SUBSET Paths
      /\ nf \in Nat \ {0} /\ ni \in Nat \ {0} /\ l.stack = <<>>
  BY DEF Loads, SoundLoad, Rooted
<1>2. Placed(l) /\ Rooted(l, entry) /\ Followed(l) /\ Ordered(l)
  BY DEF SoundLoad
<1>3. \A k \in 1 .. nf : l.files[k].path \in Paths
  BY LoadIs
<1>4. \A i \in 1 .. ni : l.items[i] \in Paths
  BY <1>1
<1>5. \A p \in Paths : p \in l.visited <=> \E i \in 1 .. nf : l.files[i].path = p
  BY <1>2 DEF Placed
<1>6. \A p \in Paths : p \in l.visited <=> \E i \in 1 .. ni : l.items[i] = p
  <2>1. \A p : ~ \E i \in 1 .. Len(l.stack) : l.stack[i].path = p
    BY <1>1
  <2> QED
    BY <1>2, <2>1 DEF Placed
<1>7. DOMAIN l.items = 1 .. ni /\ DOMAIN l.files = 1 .. nf
  BY <1>1
<1>8. IsInjective(l.items)
  BY <1>2, <1>7 DEF IsInjective, Placed
<1>9. IsInjective([i \in DOMAIN l.files |-> l.files[i].path])
  BY <1>2, <1>7 DEF IsInjective, Placed
<1>10. Range(l.items) = {f.path : f \in Range(l.files)}
  <2>1. ASSUME NEW p \in Range(l.items)
        PROVE  p \in {f.path : f \in Range(l.files)}
    <3>1. p \in Paths /\ \E i \in 1 .. ni : l.items[i] = p
      BY <1>1, <1>4, InRange
    <3>2. PICK k \in 1 .. nf : l.files[k].path = p
      BY <1>5, <1>6, <3>1
    <3>3. l.files[k] \in Range(l.files)
      BY <1>1, InRange
    <3> QED
      BY <3>2, <3>3
  <2>2. ASSUME NEW f \in Range(l.files)
        PROVE  f.path \in Range(l.items)
    <3>1. PICK k \in 1 .. nf : f = l.files[k]
      BY <1>1, InRange
    <3>2. PICK i \in 1 .. ni : l.items[i] = f.path
      BY <1>3, <1>5, <1>6, <3>1
    <3> QED
      BY <1>1, <3>2, InRange
  <2> QED
    BY <2>1, <2>2
<1>11. ASSUME NEW f \in Range(l.files), NEW m \in Range(f.text.imports)
       PROVE  \E k \in l.links : k.from = f.path /\ k.module = m
  <2>1. PICK k \in 1 .. nf : f = l.files[k]
    BY <1>1, InRange
  <2>2. PICK i \in 1 .. ni : l.items[i] = f.path
    BY <1>3, <1>5, <1>6, <2>1
  <2>3. l.files[k].path = l.items[i] /\ m \in Range(l.files[k].text.imports)
    BY <2>1, <2>2
  <2>4. Linked(l, l.items[i], m)
    BY <1>2, <2>3 DEF Followed
  <2> QED
    BY <2>2, <2>4 DEF Linked
<1>12. \A i \in 1 .. ni : At(l.items[i]) = i
  <2> TAKE i \in 1 .. ni
  <2>1. At(l.items[i]) \in 1 .. ni /\ l.items[At(l.items[i])] = l.items[i]
    BY <1>7
  <2> QED
    BY <1>2, <2>1 DEF Placed
<1> HIDE DEF At
<1>13. ASSUME NEW k \in l.links
       PROVE  k.to \in Range(l.items) /\ (~ Reaches(l.links, k.to, k.from) => At(k.to) < At(k.from))
  <2>1. k.from \in l.visited /\ k.to \in l.visited /\ k.from \in Paths /\ k.to \in Paths
    BY <1>2, LoadIs DEF Followed
  <2>2. PICK i \in 1 .. ni : l.items[i] = k.from
    BY <1>6, <2>1
  <2>3. k.to \in Range(l.items)
    BY <1>1, <1>6, <2>1, InRange
  <2>4. CASE \E j \in 1 .. i - 1 : l.items[j] = k.to
    <3>1. PICK j \in 1 .. i - 1 : l.items[j] = k.to
      BY <2>4
    <3>2. j \in 1 .. ni /\ j < i
      BY <1>1
    <3>3. At(k.to) = j /\ At(k.from) = i
      BY <1>12, <2>2, <3>1, <3>2
    <3> QED
      BY <2>3, <3>2, <3>3
  <2>5. CASE Reaches(l.links, k.to, k.from)
    BY <2>3, <2>5
  <2>6. (\E j \in 1 .. i - 1 : l.items[j] = k.to) \/ Reaches(l.links, k.to, k.from)
    BY <1>2, <2>2 DEF Ordered
  <2> QED
    BY <2>4, <2>5, <2>6
<1>14. Last(l.items) = Head(l.files).path
  BY <1>1, <1>2 DEF Last, Rooted
<1>15. Merged(l)
  BY <1>8, <1>9, <1>10, <1>11, <1>13, <1>14 DEF Merged, At
<1>16. OneMeaning(l, gone)
  <2>1. ASSUME NEW j \in l.links, NEW k \in l.links, j.module = k.module, j.to # k.to, Untroubled(j.module, gone)
        PROVE  FALSE
    BY <2>1 DEF Steady
  <2> QED
    BY <2>1 DEF OneMeaning, Untroubled
<1> QED
  BY <1>15, <1>16

(***************************************************************************)
(* Messages.                                                               *)
(***************************************************************************)
LEMMA MessageIs ==
    ASSUME NEW m \in Messages
    PROVE  /\ m.kind \in {"didOpen", "didChange"} => m.path \in Paths /\ m.text \in AllTexts
           /\ m.kind = "didSave" => m.path \in Paths /\ m.text \in AllTexts \cup {NoText}
           /\ m.kind = "didClose" => m.path \in Paths
           /\ m.kind = "request" => m \in Requests
BY DEF Messages, Requests

\* A message is the same, but for the texts a request remembers.
Remembers(m, h) ==
    /\ h.kind = m.kind
    /\ m.kind # "request" => h = m
    /\ m.kind = "request" => h.path = m.path /\ h.told = m.told /\ m.disks \subseteq h.disks

LEMMA HeldRequest ==
    ASSUME NEW m, m \in Messages \/ m = NoRequest, NEW path \in Paths, NEW text \in Contents,
           NEW h, h = IF m.kind = "request" /\ m.path = path
                      THEN [m EXCEPT !.disks = @ \cup {text}] ELSE m
    PROVE  /\ m \in Messages => h \in Messages
           /\ m \in Requests \cup {NoRequest} => h \in Requests \cup {NoRequest}
           /\ Remembers(m, h)
           /\ m.kind = "request" /\ m.path = path => text \in h.disks
<1>1. CASE m.kind = "request" /\ m.path = path
  <2>1. m \in Requests
    BY <1>1, MessageIs DEF NoRequest
  <2>2. h = [m EXCEPT !.disks = @ \cup {text}]
    BY <1>1
  <2>3. h \in Requests /\ h.kind = m.kind /\ h.path = m.path /\ h.told = m.told /\ h.disks = m.disks \cup {text}
    BY <2>1, <2>2 DEF Requests
  <2> QED
    BY <1>1, <2>3 DEF Remembers, Messages
<1>2. CASE ~ (m.kind = "request" /\ m.path = path)
  <2>1. h = m
    BY <1>2
  <2> QED
    BY <1>2, <2>1 DEF Remembers
<1> QED
  BY <1>1, <1>2

LEMMA HeldInbox ==
    ASSUME NEW s \in Seq(Messages), NEW path \in Paths, NEW text \in Contents
    PROVE  /\ Held(s, path, text) \in Seq(Messages) /\ Len(Held(s, path, text)) = Len(s)
           /\ \A i \in 1 .. Len(s) :
                /\ Remembers(s[i], Held(s, path, text)[i])
                /\ s[i].kind = "request" /\ s[i].path = path => text \in Held(s, path, text)[i].disks
<1> DEFINE h == Held(s, path, text)
<1>1. DOMAIN s = 1 .. Len(s) /\ Len(s) \in Nat /\ \A i \in 1 .. Len(s) : s[i] \in Messages
  OBVIOUS
<1>2. h = [i \in 1 .. Len(s) |-> IF s[i].kind = "request" /\ s[i].path = path
                                 THEN [s[i] EXCEPT !.disks = @ \cup {text}] ELSE s[i]]
  BY <1>1 DEF Held
<1> HIDE DEF h
<1>3. ASSUME NEW i \in 1 .. Len(s)
      PROVE  /\ h[i] \in Messages /\ Remembers(s[i], h[i])
             /\ s[i].kind = "request" /\ s[i].path = path => text \in h[i].disks
  <2>1. h[i] = IF s[i].kind = "request" /\ s[i].path = path
               THEN [s[i] EXCEPT !.disks = @ \cup {text}] ELSE s[i]
    BY <1>2
  <2>2. s[i] \in Messages
    BY <1>1
  <2> QED
    BY <2>1, <2>2, HeldRequest
<1>4. h \in [1 .. Len(s) -> Messages]
  BY <1>2, <1>3
<1>5. h \in Seq(Messages) /\ Len(h) = Len(s)
  BY <1>1, <1>4
<1> QED
  BY <1>3, <1>5 DEF h

LEMMA HeldCurrent ==
    ASSUME NEW m \in Requests \cup {NoRequest}, NEW path \in Paths, NEW text \in Contents
    PROVE  /\ Held(<<m>>, path, text)[1] \in Requests \cup {NoRequest}
           /\ Remembers(m, Held(<<m>>, path, text)[1])
<1>1. 1 \in DOMAIN <<m>> /\ <<m>>[1] = m
  OBVIOUS
<1>2. Held(<<m>>, path, text)[1] = IF m.kind = "request" /\ m.path = path
                                   THEN [m EXCEPT !.disks = @ \cup {text}] ELSE m
  BY <1>1 DEF Held
<1>3. m \in Messages \/ m = NoRequest
  BY DEF Messages
<1> QED
  BY <1>2, <1>3, HeldRequest

LEMMA RemembersSelf ==
    ASSUME NEW m
    PROVE  Remembers(m, m)
BY DEF Remembers

(***************************************************************************)
(* What open_documents will be, as messages come and are read.             *)
(***************************************************************************)
LEMMA CachesBefore ==
    ASSUME NEW s, NEW t, NEW docs, NEW n \in Nat, NEW p, NEW d,
           \A i \in 1 .. n : Remembers(s[i], t[i]), Caches(t, docs, n, p, d)
    PROVE  Caches(s, docs, n, p, d)
<1>1. \A i \in 1 .. n : (Settles(t[i], p) <=> Settles(s[i], p)) /\ (Settles(s[i], p) => s[i] = t[i])
  BY DEF Settles, Remembers
<1>2. CASE docs[p] = d /\ \A k \in 1 .. n : ~ Settles(t[k], p)
  BY <1>1, <1>2 DEF Caches
<1>3. CASE \E j \in 1 .. n : /\ Settles(t[j], p) /\ Settled(t[j]) = d
                             /\ \A k \in j + 1 .. n : ~ Settles(t[k], p)
  <2>1. PICK j \in 1 .. n : /\ Settles(t[j], p) /\ Settled(t[j]) = d
                            /\ \A k \in j + 1 .. n : ~ Settles(t[k], p)
    BY <1>3
  <2>2. Settles(s[j], p) /\ Settled(s[j]) = d
    BY <1>1, <2>1
  <2>3. \A k \in j + 1 .. n : ~ Settles(s[k], p)
    <3>1. \A k \in j + 1 .. n : k \in 1 .. n
      OBVIOUS
    <3> QED
      BY <1>1, <2>1, <3>1
  <2> QED
    BY <2>2, <2>3 DEF Caches
<1> QED
  BY <1>2, <1>3 DEF Caches

LEMMA CachesLast ==
    ASSUME NEW t, NEW docs, NEW n \in Nat, NEW p, NEW d, Caches(t, docs, n + 1, p, d)
    PROVE  \/ Settles(t[n + 1], p) /\ Settled(t[n + 1]) = d
           \/ ~ Settles(t[n + 1], p) /\ Caches(t, docs, n, p, d)
<1>1. n + 1 \in 1 .. n + 1 /\ \A k \in 1 .. n : k \in 1 .. n + 1
  OBVIOUS
<1>2. CASE docs[p] = d /\ \A k \in 1 .. n + 1 : ~ Settles(t[k], p)
  BY <1>1, <1>2 DEF Caches
<1>3. CASE \E j \in 1 .. n + 1 : /\ Settles(t[j], p) /\ Settled(t[j]) = d
                                 /\ \A k \in j + 1 .. n + 1 : ~ Settles(t[k], p)
  <2>1. PICK j \in 1 .. n + 1 : /\ Settles(t[j], p) /\ Settled(t[j]) = d
                                /\ \A k \in j + 1 .. n + 1 : ~ Settles(t[k], p)
    BY <1>3
  <2>2. CASE j = n + 1
    BY <2>1, <2>2
  <2>3. CASE j # n + 1
    <3>1. j \in 1 .. n /\ n + 1 \in j + 1 .. n + 1 /\ \A k \in j + 1 .. n : k \in j + 1 .. n + 1
      BY <2>3
    <3> QED
      BY <2>1, <3>1 DEF Caches
  <2> QED
    BY <2>2, <2>3
<1> QED
  BY <1>2, <1>3 DEF Caches

LEMMA CachesRead ==
    ASSUME NEW s \in Seq(Messages), s # <<>>, NEW docs, NEW later, NEW n \in 0 .. Len(s) - 1, NEW p, NEW d,
           later[p] = IF Settles(Head(s), p) THEN Settled(Head(s)) ELSE docs[p],
           Caches(Tail(s), later, n, p, d)
    PROVE  Caches(s, docs, n + 1, p, d)
<1>1. /\ Len(s) \in Nat \ {0} /\ Len(Tail(s)) = Len(s) - 1 /\ Head(s) = s[1]
      /\ \A i \in 1 .. Len(s) - 1 : Tail(s)[i] = s[i + 1]
  BY HeadTailProperties
<1>2. n \in Nat /\ \A i \in 1 .. n : Tail(s)[i] = s[i + 1]
  BY <1>1
<1>3. ASSUME NEW j \in 0 .. n, \A k \in j + 1 .. n : ~ Settles(Tail(s)[k], p)
      PROVE  \A k \in j + 2 .. n + 1 : ~ Settles(s[k], p)
  <2> TAKE k \in j + 2 .. n + 1
  <2>1. k - 1 \in j + 1 .. n /\ k - 1 \in 1 .. n /\ (k - 1) + 1 = k
    BY <1>2
  <2> QED
    BY <1>2, <1>3, <2>1
<1>4. CASE later[p] = d /\ \A k \in 1 .. n : ~ Settles(Tail(s)[k], p)
  <2>1. \A k \in 2 .. n + 1 : ~ Settles(s[k], p)
    <3>1. 0 \in 0 .. n /\ \A k \in 0 + 1 .. n : ~ Settles(Tail(s)[k], p)
      BY <1>2, <1>4
    <3>2. \A k \in 0 + 2 .. n + 1 : ~ Settles(s[k], p)
      BY <1>3, <3>1
    <3> QED
      BY <3>2
  <2>2. CASE Settles(s[1], p)
    <3>1. Settled(s[1]) = d /\ 1 \in 1 .. n + 1 /\ \A k \in 1 + 1 .. n + 1 : ~ Settles(s[k], p)
      BY <1>1, <1>2, <1>4, <2>1, <2>2
    <3> QED
      BY <2>2, <3>1 DEF Caches
  <2>3. CASE ~ Settles(s[1], p)
    <3>1. docs[p] = d
      BY <1>1, <1>4, <2>3
    <3>2. \A k \in 1 .. n + 1 : k = 1 \/ k \in 2 .. n + 1
      BY <1>2
    <3> QED
      BY <2>1, <2>3, <3>1, <3>2 DEF Caches
  <2> QED
    BY <2>2, <2>3
<1>5. CASE \E j \in 1 .. n : /\ Settles(Tail(s)[j], p) /\ Settled(Tail(s)[j]) = d
                             /\ \A k \in j + 1 .. n : ~ Settles(Tail(s)[k], p)
  <2>1. PICK j \in 1 .. n : /\ Settles(Tail(s)[j], p) /\ Settled(Tail(s)[j]) = d
                            /\ \A k \in j + 1 .. n : ~ Settles(Tail(s)[k], p)
    BY <1>5
  <2>2. j + 1 \in 1 .. n + 1 /\ j \in 0 .. n /\ Settles(s[j + 1], p) /\ Settled(s[j + 1]) = d
    BY <1>2, <2>1
  <2>3. \A k \in j + 2 .. n + 1 : ~ Settles(s[k], p)
    BY <1>3, <2>1, <2>2
  <2>4. \A k \in (j + 1) + 1 .. n + 1 : ~ Settles(s[k], p)
    BY <2>2, <2>3
  <2> QED
    BY <2>2, <2>4 DEF Caches
<1> QED
  BY <1>4, <1>5 DEF Caches

(***************************************************************************)
(* What the editor and other programs do: the server keeps what it has,    *)
(* requests remember the texts their files get, and what becomes of a      *)
(* document is told.                                                       *)
(***************************************************************************)
\* The message sent in the step.
Sent == inbox'[Len(inbox) + 1]
Sends == Len(inbox') = Len(inbox) + 1

Tells(p) == Sends /\ Settles(Sent, p) /\ Settled(Sent) = Told(p)'
Untouched(p) == Told(p)' = Told(p) /\ (Sends => ~ Settles(Sent, p))

\* The file is there after the step as before, or the step is remembered.
Noted(p) == p \in moved' \/ (disk'[p] = NoFile <=> disk[p] = NoFile)

Outside ==
    /\ open_documents' = open_documents /\ load' = load /\ answer' = answer
    /\ disk' \in [Paths -> Contents] /\ editor' \in [Paths -> Contents]
    /\ request' \in Requests \cup {NoRequest} /\ Remembers(request, request')
    /\ request.kind = "request" => moved \subseteq moved' /\ \A p \in Paths : Noted(p)
    /\ inbox' \in Seq(Messages) /\ (Sends \/ Len(inbox') = Len(inbox))
    /\ \A i \in 1 .. Len(inbox) : Remembers(inbox[i], inbox'[i])
    /\ \A i \in 1 .. Len(inbox) : inbox[i].kind = "request" =>
          \/ disk'[inbox[i].path] = disk[inbox[i].path]
          \/ disk'[inbox[i].path] \in inbox'[i].disks
    /\ \A p \in Paths : Tells(p) \/ Untouched(p)
    /\ Sends /\ Sent.kind = "request" =>
          disk' = disk /\ Sent.disks = {disk[Sent.path]} /\ Sent.told = Told(Sent.path)

LEMMA TypesOfStep ==
    ASSUME Serving
    PROVE  /\ disk \in [Paths -> Contents] /\ editor \in [Paths -> Contents]
           /\ open_documents \in [Paths -> Contents]
           /\ inbox \in Seq(Messages) /\ Len(inbox) \in Nat
           /\ request \in Requests \cup {NoRequest} /\ load \in Loads
BY DEF Serving, TypeOK

\* The path of a request.
LEMMA AsksOfFiles ==
    ASSUME Serving, NEW i \in 1 .. Len(inbox), inbox[i].kind = "request"
    PROVE  inbox[i] \in Requests /\ inbox[i].path \in Paths
<1>1. inbox[i] \in Messages
  BY TypesOfStep
<1> QED
  BY <1>1, MessageIs DEF Requests

\* An import means what it meant, or the step is remembered.
LEMMA SteadyStays ==
    ASSUME CandidatesAssumption, NEW l \in Loads, NEW view, NEW later, NEW gone, NEW more,
           Steady(l, view, gone), gone \subseteq more,
           \A p \in Paths : p \in more \/ (later[p] = NoFile <=> view[p] = NoFile)
    PROVE  Steady(l, later, more)
<1>1. ASSUME NEW k \in l.links, Untroubled(k.module, more)
      PROVE  Resolve(later, k.module) = k.to
  <2>1. k.module \in Modules
    BY LoadIs
  <2>2. Candidates[k.module] \in Seq(Paths)
    BY <2>1, CandidatesAssumption DEF CandidatesAssumption
  <2>3. \A i \in DOMAIN Candidates[k.module] : Candidates[k.module][i] \in Paths
    BY <2>2
  <2>4. \A i \in DOMAIN Candidates[k.module] :
           view[Candidates[k.module][i]] = NoFile <=> later[Candidates[k.module][i]] = NoFile
    BY <1>1, <2>3 DEF Untroubled
  <2>5. Resolve(later, k.module) = Resolve(view, k.module)
    BY <2>4, ResolveStays
  <2>6. Untroubled(k.module, gone)
    BY <1>1 DEF Untroubled
  <2> QED
    BY <2>5, <2>6 DEF Steady
<1> QED
  BY <1>1 DEF Steady

LEMMA OutsideServes ==
    ASSUME CandidatesAssumption, Serving, Outside, answer = NoAnswer
    PROVE  Serving'
<1> DEFINE n == Len(inbox)
<1>1. /\ TypeOK /\ ServerCatchesUp /\ RequestsFit /\ Answering
      /\ inbox \in Seq(Messages) /\ n \in Nat
  BY DEF Serving, TypeOK
<1>2. /\ open_documents' = open_documents /\ load' = load /\ answer' = answer
      /\ inbox' \in Seq(Messages) /\ (Sends \/ Len(inbox') = n)
      /\ \A i \in 1 .. n : Remembers(inbox[i], inbox'[i])
      /\ request' \in Requests \cup {NoRequest} /\ Remembers(request, request')
  BY DEF Outside
<1>3. TypeOK'
  BY <1>1, <1>2 DEF TypeOK, Outside
<1>4. ServerCatchesUp'
  <2> SUFFICES ASSUME NEW p \in Paths, NEW d \in Contents,
                      Caches(inbox', open_documents, Len(inbox'), p, d)
               PROVE  d = Told(p)'
    BY <1>2 DEF ServerCatchesUp
  <2>1. Tells(p) \/ Untouched(p)
    BY DEF Outside
  <2>2. ASSUME Caches(inbox', open_documents, n, p, d), Untouched(p)
        PROVE  d = Told(p)'
    <3>1. Caches(inbox, open_documents, n, p, d)
      BY <1>1, <1>2, <2>2, CachesBefore
    <3>2. d = Told(p)
      BY <1>1, <3>1 DEF ServerCatchesUp
    <3> QED
      BY <2>2, <3>2 DEF Untouched
  <2>3. CASE Len(inbox') = n
    <3>1. ~ Sends
      BY <1>1, <2>3 DEF Sends
    <3> QED
      BY <2>1, <2>2, <2>3, <3>1 DEF Tells
  <2>4. CASE Sends
    <3>1. \/ Settles(Sent, p) /\ Settled(Sent) = d
          \/ ~ Settles(Sent, p) /\ Caches(inbox', open_documents, n, p, d)
      <4>1. Caches(inbox', open_documents, n + 1, p, d)
        BY <2>4 DEF Sends
      <4> QED
        BY <1>1, <4>1, CachesLast DEF Sent
    <3> QED
      BY <2>1, <2>2, <2>4, <3>1 DEF Tells, Untouched
  <2> QED
    BY <1>2, <2>3, <2>4
<1>5. RequestsFit'
  <2>1. ASSUME NEW i \in 1 .. Len(inbox'), inbox'[i].kind = "request"
        PROVE  /\ disk'[inbox'[i].path] \in inbox'[i].disks
               /\ \A d \in Contents : Caches(inbox', open_documents, i - 1, inbox'[i].path, d) => d = inbox'[i].told
    <3>1. CASE i \in 1 .. n
      <4> DEFINE q == inbox[i].path
      <4>1. /\ inbox[i].kind = "request" /\ inbox'[i].path = q /\ inbox'[i].told = inbox[i].told
            /\ inbox[i].disks \subseteq inbox'[i].disks
        BY <1>2, <2>1, <3>1 DEF Remembers
      <4>2. disk'[q] \in inbox'[i].disks
        <5>1. disk'[q] = disk[q] \/ disk'[q] \in inbox'[i].disks
          BY <3>1, <4>1 DEF Outside
        <5>2. disk[q] \in inbox[i].disks
          BY <1>1, <3>1, <4>1 DEF RequestsFit
        <5> QED
          BY <4>1, <5>1, <5>2
      <4>3. ASSUME NEW d \in Contents, Caches(inbox', open_documents, i - 1, q, d)
            PROVE  d = inbox[i].told
        <5>1. i - 1 \in Nat /\ \A j \in 1 .. i - 1 : Remembers(inbox[j], inbox'[j])
          BY <1>1, <1>2, <3>1
        <5>2. Caches(inbox, open_documents, i - 1, q, d)
          BY <4>3, <5>1, CachesBefore
        <5> QED
          BY <1>1, <3>1, <4>1, <4>3, <5>2 DEF RequestsFit
      <4> QED
        BY <4>1, <4>2, <4>3
    <3>2. CASE i = n + 1 /\ Sends
      <4>1. inbox'[i] = Sent /\ i - 1 = n
        BY <1>1, <3>2 DEF Sent
      <4> DEFINE q == Sent.path
      <4>2. disk' = disk /\ Sent.disks = {disk[q]} /\ Sent.told = Told(q)
        BY <2>1, <3>2, <4>1 DEF Outside
      <4>3. q \in Paths
        <5>1. Sent \in Messages
          BY <1>2, <2>1, <4>1
        <5> QED
          BY <2>1, <4>1, <5>1, MessageIs DEF Requests
      <4>4. ASSUME NEW d \in Contents, Caches(inbox', open_documents, n, q, d)
            PROVE  d = Sent.told
        <5>1. Caches(inbox, open_documents, n, q, d)
          BY <1>1, <1>2, <4>4, CachesBefore
        <5> QED
          BY <1>1, <4>2, <4>3, <4>4, <5>1 DEF ServerCatchesUp
      <4>5. disk'[q] \in Sent.disks
        BY <4>2
      <4> QED
        BY <4>1, <4>4, <4>5
    <3> QED
      BY <1>1, <1>2, <3>1, <3>2 DEF Sends
  <2> QED
    BY <1>2, <2>1 DEF RequestsFit
<1>6. Answering'
  <2> SUFFICES ASSUME request'.kind = "request", load.status # "failed"
               PROVE  /\ SoundLoad(load, request'.path)
                      /\ Fitting(load.files[1].text, request'.told, request'.disks)
                      /\ Steady(load, View(request.path)', moved')
    BY <1>2 DEF Answering
  <2>1. /\ request.kind = "request" /\ request'.path = request.path /\ request'.told = request.told
        /\ request.disks \subseteq request'.disks
    BY <1>2 DEF Remembers
  <2>2. /\ SoundLoad(load, request.path)
        /\ Fitting(load.files[1].text, request.told, request.disks)
        /\ Steady(load, View(request.path), moved)
    BY <1>1, <2>1 DEF Answering
  <2>3. Fitting(load.files[1].text, request'.told, request'.disks)
    BY <2>1, <2>2 DEF Fitting
  <2>4. \A p \in Paths : p \in moved' \/ (View(request.path)'[p] = NoFile <=> View(request.path)[p] = NoFile)
    <3>1. \A p \in Paths : Noted(p)
      BY <2>1 DEF Outside
    <3> QED
      BY <1>2, <2>1, <3>1 DEF Noted, View
  <2>5. load \in Loads /\ moved \subseteq moved'
    BY <1>1, <2>1 DEF TypeOK, Outside
  <2>6. Steady(load, View(request.path)', moved')
    BY <2>2, <2>4, <2>5, SteadyStays
  <2> QED
    BY <2>1, <2>2, <2>3, <2>6
<1>7. DocumentAnswersFit' /\ LoadIsMerged'
  BY <1>2 DEF DocumentAnswersFit, LoadIsMerged, NoAnswer
<1> QED
  BY <1>3, <1>4, <1>5, <1>6, <1>7 DEF Serving

LEMMA AppendsOne ==
    ASSUME NEW s \in Seq(Messages), Len(s) = Len(inbox), inbox \in Seq(Messages),
           NEW m \in Messages, inbox' = Append(s, m)
    PROVE  /\ inbox' \in Seq(Messages) /\ Sends /\ Sent = m
           /\ \A i \in 1 .. Len(inbox) : inbox'[i] = s[i]
BY AppendIs DEF Sends, Sent

\* A message is sent and nothing is written.
LEMMA SendingIsOutside ==
    ASSUME Serving, NEW m \in Messages, inbox' = Append(inbox, m),
           UNCHANGED <<disk, request, moved, open_documents, load, answer>>,
           editor' \in [Paths -> Contents],
           \A p \in Paths : \/ Settles(m, p) /\ Settled(m) = Told(p)'
                            \/ ~ Settles(m, p) /\ Told(p)' = Told(p),
           m.kind = "request" => m.disks = {disk[m.path]} /\ m.told = Told(m.path)
    PROVE  Outside
<1>1. /\ inbox' \in Seq(Messages) /\ Sends /\ Sent = m
      /\ \A i \in 1 .. Len(inbox) : inbox'[i] = inbox[i]
  BY TypesOfStep, AppendsOne
<1>2. \A p \in Paths : Tells(p) \/ Untouched(p)
  BY <1>1 DEF Tells, Untouched
<1>3. \A p \in Paths : Noted(p)
  BY DEF Noted
<1>4. \A i \in 1 .. Len(inbox) : Remembers(inbox[i], inbox'[i])
  BY <1>1, RemembersSelf
<1>5. Remembers(request, request')
  BY RemembersSelf
<1> QED
  BY <1>1, <1>2, <1>3, <1>4, <1>5, TypesOfStep DEF Outside

LEMMA OpenIsOutside ==
    ASSUME Serving, NEW p \in Paths, Open(p)
    PROVE  Outside
<1> DEFINE m == [kind |-> "didOpen", path |-> p, text |-> disk[p]]
<1>1. /\ disk[p] # NoFile /\ editor' = [editor EXCEPT ![p] = disk[p]]
      /\ inbox' = Append(inbox, m) /\ bare' = bare \ {p}
      /\ UNCHANGED <<disk, request, moved, open_documents, load, answer>>
  BY DEF Open, EditorStep, Send, DiskStays, session
<1>2. m \in Messages
  BY <1>1, TypesOfStep DEF Messages, Contents
<1>3. editor' \in [Paths -> Contents] /\ \A q \in Paths : editor'[q] = IF q = p THEN disk[p] ELSE editor[q]
  BY <1>1, TypesOfStep
<1>4. m.kind # "request" /\ \A q : Settles(m, q) <=> q = p
  BY DEF Settles
<1>5. Settled(m) = disk[p]
  BY DEF Settled
<1> HIDE DEF m
<1>6. \A q \in Paths : \/ Settles(m, q) /\ Settled(m) = Told(q)'
                       \/ ~ Settles(m, q) /\ Told(q)' = Told(q)
  BY <1>1, <1>3, <1>4, <1>5 DEF Told
<1> QED
  BY <1>1, <1>2, <1>3, <1>4, <1>6, SendingIsOutside

LEMMA TypeIsOutside ==
    ASSUME Serving, NEW p \in Paths, NEW t \in Texts[p], Type(p, t)
    PROVE  Outside
<1> DEFINE m == [kind |-> "didChange", path |-> p, text |-> t]
<1>1. /\ editor' = [editor EXCEPT ![p] = t] /\ inbox' = Append(inbox, m) /\ bare' = bare \ {p}
      /\ UNCHANGED <<disk, request, moved, open_documents, load, answer>>
  BY DEF Type, EditorStep, Send, DiskStays, session
<1>2. t \in Contents /\ m \in Messages
  BY DEF Messages, Contents, AllTexts
<1>3. editor' \in [Paths -> Contents] /\ \A q \in Paths : editor'[q] = IF q = p THEN t ELSE editor[q]
  BY <1>1, <1>2, TypesOfStep
<1>4. m.kind # "request" /\ \A q : Settles(m, q) <=> q = p
  BY DEF Settles
<1>5. Settled(m) = t
  BY DEF Settled
<1> HIDE DEF m
<1>6. \A q \in Paths : \/ Settles(m, q) /\ Settled(m) = Told(q)'
                       \/ ~ Settles(m, q) /\ Told(q)' = Told(q)
  BY <1>1, <1>3, <1>4, <1>5 DEF Told
<1> QED
  BY <1>1, <1>2, <1>3, <1>4, <1>6, SendingIsOutside

LEMMA CloseIsOutside ==
    ASSUME Serving, NEW p \in Paths, Close(p)
    PROVE  Outside
<1> DEFINE m == [kind |-> "didClose", path |-> p]
<1>1. /\ editor' = [editor EXCEPT ![p] = NoFile] /\ inbox' = Append(inbox, m) /\ bare' = bare \ {p}
      /\ UNCHANGED <<disk, request, moved, open_documents, load, answer>>
  BY DEF Close, EditorStep, Send, DiskStays, session
<1>2. NoFile \in Contents /\ m \in Messages
  BY DEF Messages, Contents
<1>3. editor' \in [Paths -> Contents] /\ \A q \in Paths : editor'[q] = IF q = p THEN NoFile ELSE editor[q]
  BY <1>1, <1>2, TypesOfStep
<1>4. m.kind # "request" /\ \A q : Settles(m, q) <=> q = p
  BY DEF Settles
<1>5. Settled(m) = NoFile
  BY DEF Settled
<1> HIDE DEF m
<1>6. \A q \in Paths : \/ Settles(m, q) /\ Settled(m) = Told(q)'
                       \/ ~ Settles(m, q) /\ Told(q)' = Told(q)
  BY <1>1, <1>3, <1>4, <1>5 DEF Told
<1> QED
  BY <1>1, <1>2, <1>3, <1>4, <1>6, SendingIsOutside

LEMMA InitializeIsOutside ==
    ASSUME Serving, Initialize
    PROVE  Outside
<1> DEFINE m == [kind |-> "initialize"]
<1>1. inbox' = Append(inbox, m) /\ UNCHANGED <<disk, editor, bare, request, moved, open_documents, load, answer>>
  BY DEF Initialize, EditorStep, Send, DiskStays, session
<1>2. m \in Messages /\ m.kind # "request"
  BY DEF Messages
<1>3. \A q \in Paths : ~ Settles(m, q) /\ Told(q)' = Told(q)
  BY <1>1 DEF Settles, Told
<1> HIDE DEF m
<1> QED
  BY <1>1, <1>2, <1>3, SendingIsOutside, TypesOfStep

LEMMA AskIsOutside ==
    ASSUME Serving, NEW about \in {"document", "project", "workspace"}, NEW p \in Paths, Ask(about, p)
    PROVE  Outside
<1> DEFINE m == [kind |-> "request", about |-> about, path |-> p, told |-> Told(p), disks |-> {disk[p]}]
<1>1. inbox' = Append(inbox, m) /\ UNCHANGED <<disk, editor, bare, request, moved, open_documents, load, answer>>
  BY DEF Ask, Send, DiskStays, session
<1>2. m \in Messages
  <2>1. Told(p) \in Contents /\ {disk[p]} \in SUBSET Contents
    BY TypesOfStep DEF Told, Contents
  <2> QED
    BY <2>1 DEF Messages, Requests
<1>3. m.disks = {disk[m.path]} /\ m.told = Told(m.path)
  OBVIOUS
<1>4. \A q \in Paths : ~ Settles(m, q) /\ Told(q)' = Told(q)
  BY <1>1 DEF Settles, Told
<1> HIDE DEF m
<1> QED
  BY <1>1, <1>2, <1>3, <1>4, SendingIsOutside, TypesOfStep

\* What becomes of requests when a file changes.
LEMMA ChangesAreNoted ==
    ASSUME Serving, NEW p \in Paths, NEW t \in Contents, DiskChanges(p, t)
    PROVE  /\ disk' \in [Paths -> Contents] /\ \A q \in Paths : disk'[q] = IF q = p THEN t ELSE disk[q]
           /\ request' \in Requests \cup {NoRequest} /\ Remembers(request, request')
           /\ request.kind = "request" => moved \subseteq moved' /\ \A q \in Paths : Noted(q)
           /\ Held(inbox, p, t) \in Seq(Messages) /\ Len(Held(inbox, p, t)) = Len(inbox)
           /\ \A i \in 1 .. Len(inbox) :
                /\ Remembers(inbox[i], Held(inbox, p, t)[i])
                /\ inbox[i].kind = "request" =>
                      disk'[inbox[i].path] = disk[inbox[i].path] \/ disk'[inbox[i].path] \in Held(inbox, p, t)[i].disks
<1>1. /\ disk' = [disk EXCEPT ![p] = t] /\ request' = Held(<<request>>, p, t)[1]
      /\ moved' = IF request.kind = "request" /\ (disk[p] = NoFile) # (t = NoFile) THEN moved \cup {p} ELSE moved
  BY DEF DiskChanges
<1>2. disk' \in [Paths -> Contents] /\ \A q \in Paths : disk'[q] = IF q = p THEN t ELSE disk[q]
  BY <1>1, TypesOfStep
<1>3. request' \in Requests \cup {NoRequest} /\ Remembers(request, request')
  BY <1>1, TypesOfStep, HeldCurrent
<1>4. ASSUME request.kind = "request"
      PROVE  moved \subseteq moved' /\ \A q \in Paths : Noted(q)
  <2>1. moved \subseteq moved' /\ ((disk[p] = NoFile) # (t = NoFile) => p \in moved')
    BY <1>1, <1>4
  <2> QED
    BY <1>2, <2>1 DEF Noted
<1>5. /\ Held(inbox, p, t) \in Seq(Messages) /\ Len(Held(inbox, p, t)) = Len(inbox)
      /\ \A i \in 1 .. Len(inbox) :
           /\ Remembers(inbox[i], Held(inbox, p, t)[i])
           /\ inbox[i].kind = "request" /\ inbox[i].path = p => t \in Held(inbox, p, t)[i].disks
  BY TypesOfStep, HeldInbox
<1>6. ASSUME NEW i \in 1 .. Len(inbox), inbox[i].kind = "request"
      PROVE  disk'[inbox[i].path] = disk[inbox[i].path] \/ disk'[inbox[i].path] \in Held(inbox, p, t)[i].disks
  <2>1. inbox[i].path \in Paths
    BY <1>6, AsksOfFiles
  <2> QED
    BY <1>2, <1>5, <1>6, <2>1
<1> QED
  BY <1>2, <1>3, <1>4, <1>5, <1>6

LEMMA SaveIsOutside ==
    ASSUME Serving, NEW p \in Paths, NEW t \in Texts[p] \cup {NoText}, Save(p, t)
    PROVE  Outside
<1> DEFINE m == [kind |-> "didSave", path |-> p, text |-> t]
           h == Held(inbox, p, editor[p])
<1>1. /\ editor[p] # NoFile /\ t \in {editor[p], NoText} /\ DiskChanges(p, editor[p])
      /\ inbox' = Append(h, m) /\ bare' = IF t = NoText THEN bare \cup {p} ELSE bare \ {p}
      /\ UNCHANGED <<editor, open_documents, load, answer>>
  BY DEF Save, EditorStep, Opened, session
<1>2. m \in Messages /\ editor[p] \in Contents
  BY TypesOfStep DEF Messages, AllTexts
<1>3. /\ disk' \in [Paths -> Contents] /\ \A q \in Paths : disk'[q] = IF q = p THEN editor[p] ELSE disk[q]
      /\ request' \in Requests \cup {NoRequest} /\ Remembers(request, request')
      /\ request.kind = "request" => moved \subseteq moved' /\ \A q \in Paths : Noted(q)
      /\ h \in Seq(Messages) /\ Len(h) = Len(inbox)
      /\ \A i \in 1 .. Len(inbox) :
           /\ Remembers(inbox[i], h[i])
           /\ inbox[i].kind = "request" =>
                 disk'[inbox[i].path] = disk[inbox[i].path] \/ disk'[inbox[i].path] \in h[i].disks
  BY <1>1, <1>2, ChangesAreNoted
<1>4. m.kind # "request" /\ \A q : Settles(m, q) <=> q = p
  BY DEF Settles
<1>5. Settled(m) = IF t = NoText THEN NoFile ELSE editor[p]
  BY <1>1 DEF Settled
<1> HIDE DEF m, h
<1>6. /\ inbox' \in Seq(Messages) /\ Sends /\ Sent = m
      /\ \A i \in 1 .. Len(inbox) : inbox'[i] = h[i]
  BY <1>1, <1>2, <1>3, TypesOfStep, AppendsOne
<1>7. \A q \in Paths : Tells(q) \/ Untouched(q)
  <2> TAKE q \in Paths
  <2>1. CASE q = p
    <3>1. Told(q)' = IF t = NoText THEN NoFile ELSE editor[p]
      BY <1>1, <2>1 DEF Told
    <3> QED
      BY <1>4, <1>5, <1>6, <2>1, <3>1 DEF Tells
  <2>2. CASE q # p
    <3>1. Told(q)' = Told(q)
      BY <1>1, <2>2 DEF Told
    <3> QED
      BY <1>4, <1>6, <2>2, <3>1 DEF Untouched
  <2> QED
    BY <2>1, <2>2
<1>8. Sent.kind # "request"
  BY <1>4, <1>6
<1>9. \A i \in 1 .. Len(inbox) :
         /\ Remembers(inbox[i], inbox'[i])
         /\ inbox[i].kind = "request" =>
               disk'[inbox[i].path] = disk[inbox[i].path] \/ disk'[inbox[i].path] \in inbox'[i].disks
  BY <1>3, <1>6
<1>10. editor' \in [Paths -> Contents]
  BY <1>1, TypesOfStep
<1> QED
  BY <1>1, <1>3, <1>6, <1>7, <1>8, <1>9, <1>10 DEF Outside

LEMMA WriteIsOutside ==
    ASSUME Serving, NEW p \in Paths, NEW t \in Texts[p] \cup {NoFile}, Write(p, t)
    PROVE  Outside
<1>1. /\ DiskChanges(p, t) /\ inbox' = Held(inbox, p, t)
      /\ UNCHANGED <<editor, bare, open_documents, load, answer>>
  BY DEF Write, session
<1>2. t \in Contents
  BY DEF Contents, AllTexts
<1>3. /\ disk' \in [Paths -> Contents]
      /\ request' \in Requests \cup {NoRequest} /\ Remembers(request, request')
      /\ request.kind = "request" => moved \subseteq moved' /\ \A q \in Paths : Noted(q)
      /\ inbox' \in Seq(Messages) /\ Len(inbox') = Len(inbox)
      /\ \A i \in 1 .. Len(inbox) :
           /\ Remembers(inbox[i], inbox'[i])
           /\ inbox[i].kind = "request" =>
                 disk'[inbox[i].path] = disk[inbox[i].path] \/ disk'[inbox[i].path] \in inbox'[i].disks
  BY <1>1, <1>2, ChangesAreNoted
<1>4. ~ Sends
  BY <1>3, TypesOfStep DEF Sends
<1>5. \A q \in Paths : Untouched(q)
  BY <1>1, <1>4 DEF Untouched, Told
<1>6. editor' \in [Paths -> Contents]
  BY <1>1, TypesOfStep
<1> QED
  BY <1>1, <1>3, <1>4, <1>5, <1>6 DEF Outside

(***************************************************************************)
(* What the server does.                                                   *)
(***************************************************************************)
ReadsOne ==
    /\ inbox # <<>> /\ inbox' = Tail(inbox)
    /\ open_documents' \in [Paths -> Contents]
    /\ \A p \in Paths : open_documents'[p] = IF Settles(Head(inbox), p) THEN Settled(Head(inbox))
                                             ELSE open_documents[p]
    /\ UNCHANGED <<disk, editor, bare>>

LEMMA HeadIs ==
    ASSUME Serving, inbox # <<>>
    PROVE  /\ Head(inbox) \in Messages /\ Head(inbox) = inbox[1] /\ Tail(inbox) \in Seq(Messages)
           /\ Len(inbox) \in Nat \ {0} /\ Len(Tail(inbox)) = Len(inbox) - 1
           /\ \A i \in 1 .. Len(inbox) - 1 : Tail(inbox)[i] = inbox[i + 1]
<1>1. inbox \in Seq(Messages)
  BY TypesOfStep
<1> QED
  BY <1>1, HeadTailProperties

LEMMA ReadingFits ==
    ASSUME Serving, ReadsOne
    PROVE  ServerCatchesUp' /\ RequestsFit'
<1> DEFINE n == Len(inbox)
<1>1. /\ inbox # <<>> /\ inbox' = Tail(inbox) /\ disk' = disk
      /\ \A p \in Paths : Told(p)' = Told(p)
      /\ \A p \in Paths : open_documents'[p] = IF Settles(Head(inbox), p) THEN Settled(Head(inbox))
                                               ELSE open_documents[p]
  BY DEF ReadsOne, Told
<1>2. /\ inbox \in Seq(Messages) /\ n \in Nat \ {0} /\ Len(inbox') = n - 1
      /\ \A i \in 1 .. n - 1 : inbox'[i] = inbox[i + 1]
  BY <1>1, HeadIs, TypesOfStep
<1>3. ASSUME NEW p \in Paths, NEW d, NEW k \in 0 .. n - 1, Caches(inbox', open_documents', k, p, d)
      PROVE  Caches(inbox, open_documents, k + 1, p, d)
  BY <1>1, <1>2, <1>3, CachesRead
<1>4. ServerCatchesUp'
  <2> SUFFICES ASSUME NEW p \in Paths, NEW d \in Contents,
                      Caches(inbox', open_documents', Len(inbox'), p, d)
               PROVE  d = Told(p)'
    BY DEF ServerCatchesUp
  <2>1. Len(inbox') \in 0 .. n - 1 /\ Len(inbox') + 1 = n
    BY <1>2
  <2>2. Caches(inbox, open_documents, n, p, d)
    BY <1>3, <2>1
  <2> QED
    BY <1>1, <2>2 DEF Serving, ServerCatchesUp
<1>5. RequestsFit'
  <2>1. ASSUME NEW i \in 1 .. Len(inbox'), inbox'[i].kind = "request"
        PROVE  /\ disk[inbox'[i].path] \in inbox'[i].disks
               /\ \A d \in Contents : Caches(inbox', open_documents', i - 1, inbox'[i].path, d) => d = inbox'[i].told
    <3>1. /\ i + 1 \in 1 .. n /\ inbox'[i] = inbox[i + 1] /\ i - 1 \in 0 .. n - 1
          /\ (i + 1) - 1 = i /\ (i - 1) + 1 = i
      BY <1>2
    <3>2. inbox[i + 1].path \in Paths
      BY <2>1, <3>1, AsksOfFiles
    <3>3. /\ disk[inbox[i + 1].path] \in inbox[i + 1].disks
          /\ \A d \in Contents : Caches(inbox, open_documents, i, inbox[i + 1].path, d) => d = inbox[i + 1].told
      BY <2>1, <3>1 DEF Serving, RequestsFit
    <3>4. ASSUME NEW d \in Contents, Caches(inbox', open_documents', i - 1, inbox[i + 1].path, d)
          PROVE  Caches(inbox, open_documents, i, inbox[i + 1].path, d)
      BY <1>3, <3>1, <3>2, <3>4
    <3> QED
      BY <3>1, <3>3, <3>4
  <2> QED
    BY <1>1, <2>1 DEF RequestsFit
<1> QED
  BY <1>4, <1>5

LEMMA AnswerlessFits ==
    ASSUME answer' = NoAnswer \/ (answer'.kind = "error")
    PROVE  DocumentAnswersFit' /\ LoadIsMerged'
BY DEF DocumentAnswersFit, LoadIsMerged, NoAnswer

\* A message that is no request is read while none is answered.
LEMMA MessageServes ==
    ASSUME Serving, ReadsOne, Ready, answer = NoAnswer, UNCHANGED <<request, load, answer>>
    PROVE  Serving'
<1>1. TypeOK'
  BY HeadIs DEF Serving, TypeOK, ReadsOne
<1>2. Answering'
  BY DEF Ready, Answering
<1> QED
  BY <1>1, <1>2, ReadingFits, AnswerlessFits DEF Serving

LEMMA NoticesServe ==
    ASSUME Serving, answer = NoAnswer, HandleDidSave \/ HandleText \/ HandleDidClose \/ HandleInitialize
    PROVE  Serving'
<1> DEFINE m == Head(inbox)
<1>1. /\ Ready /\ inbox # <<>> /\ inbox' = Tail(inbox)
      /\ UNCHANGED <<disk, editor, bare, request, load, answer>>
  BY DEF HandleDidSave, HandleText, HandleDidClose, HandleInitialize, Ready, editing
<1>2. m \in Messages /\ open_documents \in [Paths -> Contents]
  BY <1>1, HeadIs, TypesOfStep
<1>3. NoFile \in Contents /\ AllTexts \subseteq Contents
  BY DEF Contents
<1>4. ASSUME HandleDidSave
      PROVE  ReadsOne
  <2>1. m.kind = "didSave" /\ m.path \in Paths /\ m.text \in AllTexts \cup {NoText}
    BY <1>2, <1>4, MessageIs DEF HandleDidSave
  <2>2. open_documents' = [open_documents EXCEPT ![m.path] = IF m.text = NoText THEN NoFile ELSE m.text]
    BY <1>4 DEF HandleDidSave
  <2>3. Settled(m) = (IF m.text = NoText THEN NoFile ELSE m.text) /\ Settled(m) \in Contents
    BY <1>3, <2>1 DEF Settled
  <2>4. \A p : Settles(m, p) <=> p = m.path
    BY <2>1 DEF Settles
  <2> HIDE DEF m
  <2> QED
    BY <1>1, <1>2, <2>1, <2>2, <2>3, <2>4 DEF ReadsOne, m
<1>5. ASSUME HandleText
      PROVE  ReadsOne
  <2>1. m.kind \in {"didOpen", "didChange"} /\ m.path \in Paths /\ m.text \in AllTexts
    BY <1>2, <1>5, MessageIs DEF HandleText
  <2>2. open_documents' = [open_documents EXCEPT ![m.path] = m.text]
    BY <1>5 DEF HandleText
  <2>3. Settled(m) = m.text /\ Settled(m) \in Contents
    BY <1>3, <2>1 DEF Settled
  <2>4. \A p : Settles(m, p) <=> p = m.path
    BY <2>1 DEF Settles
  <2> HIDE DEF m
  <2> QED
    BY <1>1, <1>2, <2>1, <2>2, <2>3, <2>4 DEF ReadsOne, m
<1>6. ASSUME HandleDidClose
      PROVE  ReadsOne
  <2>1. m.kind = "didClose" /\ m.path \in Paths
    BY <1>2, <1>6, MessageIs DEF HandleDidClose
  <2>2. open_documents' = [open_documents EXCEPT ![m.path] = NoFile]
    BY <1>6 DEF HandleDidClose
  <2>3. Settled(m) = NoFile
    BY <2>1 DEF Settled
  <2>4. \A p : Settles(m, p) <=> p = m.path
    BY <2>1 DEF Settles
  <2> HIDE DEF m
  <2> QED
    BY <1>1, <1>2, <1>3, <2>1, <2>2, <2>3, <2>4 DEF ReadsOne, m
<1>7. ASSUME HandleInitialize
      PROVE  ReadsOne
  <2>1. m.kind = "initialize" /\ open_documents' = open_documents
    BY <1>7 DEF HandleInitialize
  <2>2. \A p : ~ Settles(m, p)
    BY <2>1 DEF Settles
  <2> QED
    BY <1>1, <1>2, <2>1, <2>2 DEF ReadsOne
<1> QED
  BY <1>1, <1>4, <1>5, <1>6, <1>7, MessageServes

LEMMA RequestServes ==
    ASSUME TextsAssumption, Serving, answer = NoAnswer, HandleRequest
    PROVE  Serving'
<1> DEFINE m == Head(inbox)
           v == View(m.path)
<1>1. /\ request.kind = "none" /\ inbox # <<>> /\ inbox' = Tail(inbox) /\ m.kind = "request"
      /\ UNCHANGED <<disk, editor, bare, open_documents>>
  BY DEF HandleRequest, Ready, editing, session
<1>2. /\ m = inbox[1] /\ m \in Requests /\ m.path \in Paths /\ Tail(inbox) \in Seq(Messages)
      /\ open_documents \in [Paths -> Contents] /\ disk \in [Paths -> Contents]
      /\ 1 \in 1 .. Len(inbox)
  BY <1>1, HeadIs, MessageIs, TypesOfStep DEF Requests
<1>3. ReadsOne
  <2>1. \A p : ~ Settles(m, p)
    BY <1>1 DEF Settles
  <2> QED
    BY <1>1, <1>2, <2>1 DEF ReadsOne
<1>4. CASE answer' = [kind |-> "error", request |-> m] /\ UNCHANGED <<request, load>>
  <2>1. TypeOK'
    BY <1>1, <1>2, <1>4 DEF Serving, TypeOK
  <2>2. Answering'
    BY <1>1, <1>4 DEF Answering
  <2>3. answer'.kind = "error"
    BY <1>4
  <2> QED
    BY <1>3, <2>1, <2>2, <2>3, ReadingFits, AnswerlessFits DEF Serving
<1>5. CASE request' = m /\ load' = Start(v, m.path) /\ answer' = answer
  <2>1. v \in [Paths -> Contents]
    <3>1. NoFile \in Contents
      BY DEF Contents
    <3> QED
      BY <1>2, <3>1 DEF View
  <2>2. /\ load' \in Loads
        /\ v[m.path] = NoFile => load'.status = "failed"
        /\ v[m.path] # NoFile => SoundLoad(load', m.path) /\ load'.files[1].text = v[m.path] /\ load'.links = {}
    <3> HIDE DEF v
    <3> QED
      BY <1>2, <1>5, <2>1, Starts
  <2>3. TypeOK'
    BY <1>1, <1>2, <1>5, <2>2 DEF Serving, TypeOK
  <2>4. Fitting(v[m.path], m.told, m.disks)
    <3> DEFINE d == open_documents[m.path]
    <3>1. d \in Contents
      BY <1>2
    <3>2. Caches(inbox, open_documents, 0, m.path, d)
      BY DEF Caches
    <3>3. disk[m.path] \in m.disks /\ d = m.told
      BY <1>1, <1>2, <3>1, <3>2 DEF Serving, RequestsFit
    <3> QED
      BY <1>2, <3>3 DEF View, Fitting
  <2>5. Answering'
    <3>1. load'.links = {} => Steady(load', View(request.path)', moved')
      BY DEF Steady
    <3> HIDE DEF v, m
    <3> QED
      BY <1>5, <2>2, <2>4, <3>1 DEF Answering
  <2>6. DocumentAnswersFit' /\ LoadIsMerged'
    BY <1>5, AnswerlessFits
  <2> QED
    BY <1>3, <2>3, <2>5, <2>6, ReadingFits DEF Serving
<1> QED
  BY <1>4, <1>5 DEF HandleRequest

\* Nothing happens to the documents.
LEMMA DocumentsStay ==
    ASSUME Serving, UNCHANGED <<disk, editor, bare, inbox, open_documents>>
    PROVE  ServerCatchesUp' /\ RequestsFit'
BY DEF Serving, ServerCatchesUp, RequestsFit, Told

LEMMA LoadServes ==
    ASSUME CandidatesAssumption, TextsAssumption, Serving, answer = NoAnswer, Load
    PROVE  Serving'
<1> DEFINE v == View(request.path)
<1>1. /\ request.kind = "request" /\ load.status = "loading" /\ load' = Step(v, load)
      /\ UNCHANGED <<disk, editor, bare, inbox, open_documents, request, moved, answer>>
  BY DEF Load, editing, session
<1>2. v \in [Paths -> Contents] /\ load \in Loads
  <2>1. NoFile \in Contents
    BY DEF Contents
  <2> QED
    BY <2>1, TypesOfStep DEF View
<1>3. /\ SoundLoad(load, request.path)
      /\ Fitting(load.files[1].text, request.told, request.disks)
      /\ Steady(load, v, moved)
  BY <1>1 DEF Serving, Answering
<1>4. /\ load' \in Loads
      /\ load'.status # "failed" =>
           /\ SoundLoad(load', request.path)
           /\ load'.files[1] = load.files[1]
           /\ Steady(load', v, moved)
  <2> HIDE DEF v
  <2> QED
    BY <1>1, <1>2, <1>3, Steps
<1>5. TypeOK'
  BY <1>1, <1>4 DEF Serving, TypeOK
<1>6. Answering'
  <2>1. View(request.path)' = v
    BY <1>1 DEF View
  <2> HIDE DEF v
  <2> QED
    BY <1>1, <1>3, <1>4, <2>1 DEF Answering
<1> QED
  BY <1>1, <1>5, <1>6, DocumentsStay, AnswerlessFits DEF Serving

LEMMA RespondServes ==
    ASSUME Serving, answer = NoAnswer, Respond
    PROVE  Serving'
<1>1. /\ request.kind = "request" /\ load.status \in {"done", "failed"}
      /\ request' = NoRequest /\ load' = Idle
      /\ UNCHANGED <<disk, editor, bare, inbox, open_documents>>
  BY DEF Respond, editing, session
<1>2. Idle \in Loads
  BY EmptySeq DEF Idle, Loads
<1>3. TypeOK'
  BY <1>1, <1>2 DEF Serving, TypeOK
<1>4. Answering'
  BY <1>1 DEF Answering, NoRequest
<1>5. CASE load.status = "failed"
  <2>1. answer'.kind = "error"
    BY <1>5 DEF Respond
  <2> QED
    BY <1>1, <1>3, <1>4, <2>1, DocumentsStay, AnswerlessFits DEF Serving
<1>6. CASE load.status = "done"
  <2>1. answer' = [kind |-> "result", request |-> request, load |-> load, moved |-> moved,
                   texts |-> [p \in About |-> TextRead(load, p)]]
    BY <1>6 DEF Respond
  <2>2. load \in Loads
    BY TypesOfStep
  <2>3. /\ SoundLoad(load, request.path)
        /\ Fitting(load.files[1].text, request.told, request.disks)
        /\ Steady(load, View(request.path), moved)
    BY <1>1, <1>6 DEF Serving, Answering
  <2>4. LoadIsMerged'
    <3>1. Merged(load) /\ OneMeaning(load, moved)
      BY <1>6, <2>2, <2>3, Finishes
    <3>2. answer'.load = load /\ answer'.moved = moved
      BY <2>1
    <3> QED
      BY <3>1, <3>2 DEF LoadIsMerged
  <2>5. request.about = "document" => Fitting(answer'.texts[request.path], request.told, request.disks)
    <3> SUFFICES ASSUME request.about = "document"
                 PROVE  Fitting(answer'.texts[request.path], request.told, request.disks)
      OBVIOUS
    <3>1. answer'.texts[request.path] = TextRead(load, request.path)
      BY <2>1 DEF About
    <3>2. load.files[1].path = request.path /\ 1 \in 1 .. Len(load.files) /\ Placed(load)
      BY <2>2, <2>3 DEF SoundLoad, Rooted, Loads
    <3>3. TextRead(load, request.path) = load.files[1].text
      BY <2>2, <3>2, TextIsRead
    <3> QED
      BY <2>3, <3>1, <3>3
  <2>6. DocumentAnswersFit'
    <3>1. answer'.request = request
      BY <2>1
    <3> QED
      BY <2>5, <3>1 DEF DocumentAnswersFit, Fitting
  <2> QED
    BY <1>1, <1>3, <1>4, <2>4, <2>6, DocumentsStay DEF Serving
<1> QED
  BY <1>1, <1>5, <1>6

(***************************************************************************)
(* The theorems.                                                           *)
(***************************************************************************)
LEMMA InitServes ==
    ASSUME LspInit
    PROVE  Serving
<1>1. TypeOK
  BY EmptySeq DEF LspInit, TypeOK, Contents, AllTexts, Idle, Loads
<1>2. ServerCatchesUp /\ RequestsFit
  BY DEF LspInit, ServerCatchesUp, RequestsFit, Caches, Told
<1>3. Answering
  BY DEF LspInit, Answering, NoRequest
<1>4. DocumentAnswersFit /\ LoadIsMerged
  BY DEF LspInit, NoAnswer, DocumentAnswersFit, LoadIsMerged
<1> QED
  BY <1>1, <1>2, <1>3, <1>4 DEF Serving

LEMMA NextServes ==
    ASSUME CandidatesAssumption, TextsAssumption, Serving, [LspNext]_lspVars
    PROVE  Serving'
<1>1. ASSUME answer = NoAnswer, Edit
      PROVE  Serving'
  <2>1. Outside
    <3>1. ASSUME NEW p \in Paths, Open(p) \/ Close(p)
          PROVE  Outside
      BY <3>1, OpenIsOutside, CloseIsOutside
    <3>2. ASSUME NEW p \in Paths, NEW t \in Texts[p], Type(p, t)
          PROVE  Outside
      BY <3>2, TypeIsOutside
    <3>3. ASSUME NEW p \in Paths, NEW t \in Texts[p] \cup {NoText}, Save(p, t)
          PROVE  Outside
      BY <3>3, SaveIsOutside
    <3>4. ASSUME NEW p \in Paths, NEW t \in Texts[p] \cup {NoFile}, Write(p, t)
          PROVE  Outside
      BY <3>4, WriteIsOutside
    <3>5. ASSUME NEW about \in {"document", "project", "workspace"}, NEW p \in Paths, Ask(about, p)
          PROVE  Outside
      BY <3>5, AskIsOutside
    <3> QED
      BY <1>1, <3>1, <3>2, <3>3, <3>4, <3>5, InitializeIsOutside DEF Edit
  <2> QED
    BY <1>1, <2>1, OutsideServes
<1>2. ASSUME answer = NoAnswer, Serve
      PROVE  Serving'
  BY <1>2, NoticesServe, RequestServes, LoadServes, RespondServes DEF Serve
<1>3. CASE Look
  <2>1. answer' = NoAnswer /\ UNCHANGED <<disk, editor, bare, inbox, open_documents, request, load, moved>>
    BY <1>3 DEF Look, editing, session
  <2>2. TypeOK'
    BY <2>1 DEF Serving, TypeOK
  <2>3. Answering'
    BY <2>1 DEF Serving, Answering, View
  <2> QED
    BY <2>1, <2>2, <2>3, DocumentsStay, AnswerlessFits DEF Serving
<1>4. CASE UNCHANGED lspVars
  <2>1. UNCHANGED <<disk, editor, bare, inbox, open_documents, request, load, moved, answer>>
    BY <1>4 DEF lspVars
  <2>2. TypeOK'
    BY <2>1 DEF Serving, TypeOK
  <2>3. Answering'
    BY <2>1 DEF Serving, Answering, View
  <2>4. DocumentAnswersFit' /\ LoadIsMerged'
    BY <2>1 DEF Serving, DocumentAnswersFit, LoadIsMerged
  <2> QED
    BY <2>1, <2>2, <2>3, <2>4, DocumentsStay DEF Serving
<1> QED
  BY <1>1, <1>2, <1>3, <1>4 DEF LspNext

LEMMA SpecServes == LspSpec => []Serving
<1>1. Serving /\ [LspNext]_lspVars => Serving'
  BY NextServes, CandidatesAssumption, TextsAssumption
<1> QED
  BY <1>1, InitServes, PTL DEF LspSpec

\* Whatever is typed, saved with or without its text, closed, written, created
\* or deleted by others - files open in the editor too - while a request waits
\* and its files are loaded, an answer about a document is about the text the
\* editor showed when it asked, or, where the document is not open or was last
\* told of by a save without its text, about one its file had between request
\* and answer (handle_did_open, handle_did_change, handle_did_save,
\* handle_did_close).
THEOREM AnswersFitTheirDocuments == LspSpec => []DocumentAnswersFit
<1>1. Serving => DocumentAnswersFit
  BY DEF Serving
<1> QED
  BY <1>1, SpecServes, PTL

\* However the files import each other, and whatever changes, comes and goes
\* while they are read, a load that succeeds has each file once, none of its
\* imports missing, and imports before what imports them, but around cycles; and
\* a name means one file in it, unless one of its candidates came or went while
\* the load ran (Loader::load_file, load_import).
THEOREM LoadsAreMerged == LspSpec => []LoadIsMerged
<1>1. Serving => LoadIsMerged
  BY DEF Serving
<1> QED
  BY <1>1, SpecServes, PTL

================================================================================
