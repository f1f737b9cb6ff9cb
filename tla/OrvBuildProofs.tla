--------------------------- MODULE OrvBuildProofs ---------------------------
(***************************************************************************)
(* What orv build leaves in its directory, for every set of programs and   *)
(* any number of commands, edits, kills and failing writes.                *)
(***************************************************************************)
EXTENDS OrvBuild, SequenceTheorems, TLAPS

-----------------------------------------------------------------------------
(* The files of a build as a set, and the order they are written in.       *)

Projects == {"build-manifest.json", "bundle-plan.json", "origin-map.json", "project-graph.json",
             "source-bundle.json"}
Servers  == {"server/app.orv-runtime.json", "server/launch.json", "server/native-server.json",
             "server/runtime-image.json", "server/native/Dockerfile", "server/native/main.rs",
             "server/native/routes.rs", "server/native/router.rs", "server/native/handlers.rs",
             "server/native/Cargo.toml"}
Clients  == {"client/app.wasm", "client/app.js", "pages/index.html", "client/reactive-plan.json",
             "client/manifest.json"}
Deploys  == {"deploy/server.sh", "deploy/routes.json", "deploy/container.json", "deploy/Dockerfile",
             "deploy/compose.yaml", "deploy/env.example", "deploy/db-adapters.json",
             "deploy/commerce-adapters.json", "deploy/smoke-test.sh", "deploy/preflight.json",
             "deploy/benchmark-evidence.json", "deploy/README.md"}
Devs     == {"dev/session.json", "dev/transport.json", "dev/hmr-client.js", "dev/watch.json",
             "dev/events.json", "dev/server.json"}
Built    == Projects \cup Servers \cup Clients \cup Deploys \cup {"deploy/manifest.json"}

\* The files of a build of p.
Kit(p, prod) ==
    Projects
    \cup {f \in Servers : "server" \in p.kinds}
    \cup {f \in {"pages/index.html"} : "page" \in p.kinds}
    \cup {f \in Clients : "client" \in p.kinds}
    \cup {f \in Deploys : prod /\ "server" \in p.kinds}
    \cup {f \in {"deploy/manifest.json"} : prod}

\* What is written before a file: what it repeats, or is verified with.
Needs(f) ==
    CASE f = "client/manifest.json" -> {"client/app.wasm", "client/app.js", "client/reactive-plan.json"}
      [] f = "deploy/manifest.json" -> {"client/manifest.json"}
      [] f = "dev/transport.json"   -> {"dev/session.json"}
      [] f = "dev/hmr-client.js"    -> {"dev/transport.json"}
      [] f = "dev/server.json"      -> {"dev/events.json"}
      [] OTHER -> {}

InOrder(s) == \A i, j \in 1..Len(s) : s[j] \in Needs(s[i]) => j < i

LEMMA SequenceRanges ==
    /\ Range(ProjectFiles) = Projects /\ ProjectFiles \in Seq(Files)
    /\ Range(ServerFiles) = Servers /\ ServerFiles \in Seq(Files)
    /\ Range(ClientFiles) = Clients /\ ClientFiles \in Seq(Files)
    /\ Range(DeployServerFiles) = Deploys /\ DeployServerFiles \in Seq(Files)
    /\ Range(DevFiles) = Devs
    /\ Files = Built \cup Devs
<1>1. Range(ProjectFiles) = Projects /\ ProjectFiles \in Seq(Projects)
  BY DEF Range, ProjectFiles, Projects
<1>2. Range(ServerFiles) = Servers /\ ServerFiles \in Seq(Servers)
  BY DEF Range, ServerFiles, Servers
<1>3. Range(ClientFiles) = Clients /\ ClientFiles \in Seq(Clients)
  BY DEF Range, ClientFiles, Clients
<1>4. Range(DeployServerFiles) = Deploys /\ DeployServerFiles \in Seq(Deploys)
  BY DEF Range, DeployServerFiles, Deploys
<1>5. Range(DevFiles) = Devs
  BY DEF Range, DevFiles, Devs
<1>6. Files = Projects \cup Servers \cup Clients \cup Deploys \cup Devs \cup {"deploy/manifest.json"}
  BY <1>1, <1>2, <1>3, <1>4, <1>5 DEF Files
<1>7. Files = Built \cup Devs
  BY <1>6 DEF Built
<1>8. /\ ProjectFiles \in Seq(Files) /\ ServerFiles \in Seq(Files)
      /\ ClientFiles \in Seq(Files) /\ DeployServerFiles \in Seq(Files)
  BY <1>1, <1>2, <1>3, <1>4, <1>6, SeqMonotonic
<1> QED
  BY <1>1, <1>2, <1>3, <1>4, <1>5, <1>7, <1>8

\* Every file is of one sort, but for the page.
LEMMA Sorts ==
    /\ Projects \cap (Servers \cup Clients \cup Deploys \cup Devs \cup {"deploy/manifest.json"}) = {}
    /\ Servers \cap (Clients \cup Deploys \cup Devs \cup {"deploy/manifest.json"}) = {}
    /\ Clients \cap (Deploys \cup Devs \cup {"deploy/manifest.json"}) = {}
    /\ Deploys \cap (Devs \cup {"deploy/manifest.json"}) = {}
    /\ "deploy/manifest.json" \notin Devs
<1>1. Projects \cap (Servers \cup Clients \cup Deploys \cup Devs \cup {"deploy/manifest.json"}) = {}
  BY DEF Projects, Servers, Clients, Deploys, Devs
<1>2. Servers \cap (Clients \cup Deploys \cup Devs \cup {"deploy/manifest.json"}) = {}
  BY DEF Servers, Clients, Deploys, Devs
<1>3. Clients \cap (Deploys \cup Devs \cup {"deploy/manifest.json"}) = {}
  BY DEF Clients, Deploys, Devs
<1>4. Deploys \cap (Devs \cup {"deploy/manifest.json"}) = {}
  BY DEF Deploys, Devs
<1>5. "deploy/manifest.json" \notin Devs
  BY DEF Devs
<1> QED
  BY <1>1, <1>2, <1>3, <1>4, <1>5

LEMMA BuiltNotDev ==
    Built \cap Devs = {}
  BY Sorts DEF Built

LEMMA NeedsOf ==
    /\ \A f \in Projects \cup Servers \cup Deploys \cup {"pages/index.html"} : Needs(f) = {}
    /\ \A f \in Clients : f # "client/manifest.json" => Needs(f) = {}
    /\ Needs("client/manifest.json") = {"client/app.wasm", "client/app.js", "client/reactive-plan.json"}
    /\ Needs("deploy/manifest.json") = {"client/manifest.json"}
    /\ Needs("dev/transport.json") = {"dev/session.json"}
    /\ Needs("dev/hmr-client.js") = {"dev/transport.json"}
    /\ Needs("dev/server.json") = {"dev/events.json"}
    /\ \A f \in {"dev/session.json", "dev/watch.json", "dev/events.json"} : Needs(f) = {}
<1>1. \A f \in Projects \cup Servers \cup Deploys \cup {"pages/index.html"} :
        f \notin {"client/manifest.json", "deploy/manifest.json", "dev/transport.json", "dev/hmr-client.js",
                  "dev/server.json"}
  BY Sorts DEF Clients, Devs
<1>2. \A f \in Clients : f # "client/manifest.json" =>
        f \notin {"client/manifest.json", "deploy/manifest.json", "dev/transport.json", "dev/hmr-client.js",
                  "dev/server.json"}
  BY Sorts DEF Devs
<1> QED
  BY <1>1, <1>2 DEF Needs

-----------------------------------------------------------------------------
(* Sequences in order.                                                     *)

LEMMA IndependentInOrder ==
    ASSUME NEW S, NEW s \in Seq(S), \A x, y \in Range(s) : y \notin Needs(x)
    PROVE  InOrder(s)
  BY DEF InOrder, Range

LEMMA ConcatInOrder ==
    ASSUME NEW S, NEW s \in Seq(S), NEW t \in Seq(S), InOrder(s), InOrder(t),
           \A x \in Range(s) : \A y \in Range(t) : y \notin Needs(x)
    PROVE  InOrder(s \o t)
<1> DEFINE u == s \o t
<1>1. /\ u \in Seq(S) /\ Len(u) = Len(s) + Len(t) /\ Len(s) \in Nat /\ Len(t) \in Nat
      /\ \A i \in 1..Len(u) : u[i] = IF i <= Len(s) THEN s[i] ELSE t[i - Len(s)]
  BY ConcatProperties, LenProperties
<1> SUFFICES ASSUME NEW i \in 1..Len(u), NEW j \in 1..Len(u), u[j] \in Needs(u[i])
             PROVE  j < i
  BY DEF InOrder
<1> HIDE DEF u
<1>2. CASE i <= Len(s) /\ j <= Len(s)
  <2>1. u[i] = s[i] /\ u[j] = s[j] /\ i \in 1..Len(s) /\ j \in 1..Len(s)
    BY <1>1, <1>2
  <2> QED
    BY <2>1 DEF InOrder
<1>3. CASE i > Len(s) /\ j <= Len(s)
  BY <1>1, <1>3
<1>4. CASE i <= Len(s) /\ j > Len(s)
  <2>1. u[i] = s[i] /\ u[j] = t[j - Len(s)] /\ i \in 1..Len(s) /\ j - Len(s) \in 1..Len(t)
    BY <1>1, <1>4
  <2>2. s[i] \in Range(s) /\ t[j - Len(s)] \in Range(t)
    BY <2>1 DEF Range
  <2> QED
    BY <2>1, <2>2
<1>5. CASE i > Len(s) /\ j > Len(s)
  <2>1. u[i] = t[i - Len(s)] /\ u[j] = t[j - Len(s)] /\ i - Len(s) \in 1..Len(t) /\ j - Len(s) \in 1..Len(t)
    BY <1>1, <1>5
  <2>2. j - Len(s) < i - Len(s)
    BY <2>1 DEF InOrder
  <2> QED
    BY <1>1, <2>2
<1> QED
  BY <1>1, <1>2, <1>3, <1>4, <1>5

LEMMA FirstAndRest ==
    ASSUME NEW S, NEW s \in Seq(S), s # <<>>
    PROVE  /\ Head(s) \in S /\ Tail(s) \in Seq(S)
           /\ Range(s) = {Head(s)} \cup Range(Tail(s))
           /\ InOrder(s) => InOrder(Tail(s)) /\ \A x \in Range(s) : x \notin Needs(Head(s))
<1>1. /\ Head(s) \in S /\ Tail(s) \in Seq(S) /\ Len(Tail(s)) = Len(s) - 1
      /\ \A i \in 1..Len(Tail(s)) : Tail(s)[i] = s[i + 1]
      /\ Len(s) \in Nat /\ Len(s) > 0 /\ Head(s) = s[1]
  BY HeadTailProperties, LenProperties
<1> DEFINE t == Tail(s)
<1> HIDE DEF t
<1>2. DOMAIN s = 1..Len(s) /\ DOMAIN t = 1..Len(t)
  BY <1>1, LenProperties DEF t
<1>3. \A i \in 1..Len(s) : i = 1 \/ (i - 1 \in 1..Len(t) /\ s[i] = t[i - 1])
  BY <1>1 DEF t
<1>4. \A i \in 1..Len(t) : i + 1 \in 1..Len(s) /\ t[i] = s[i + 1]
  BY <1>1 DEF t
<1>5. Range(s) = {Head(s)} \cup Range(t)
  <2>1. ASSUME NEW x \in Range(s)
        PROVE  x \in {Head(s)} \cup Range(t)
    <3>1. PICK i \in 1..Len(s) : x = s[i]
      BY <1>2 DEF Range
    <3> QED
      BY <1>1, <1>2, <1>3, <3>1 DEF Range
  <2>2. ASSUME NEW x \in Range(t)
        PROVE  x \in Range(s)
    <3>1. PICK i \in 1..Len(t) : x = t[i]
      BY <1>2 DEF Range
    <3> QED
      BY <1>2, <1>4, <3>1 DEF Range
  <2>3. Head(s) \in Range(s)
    BY <1>1, <1>2 DEF Range
  <2> QED
    BY <2>1, <2>2, <2>3
<1>6. ASSUME InOrder(s)
      PROVE  InOrder(t) /\ \A x \in Range(s) : x \notin Needs(Head(s))
  <2>1. InOrder(t)
    <3> SUFFICES ASSUME NEW i \in 1..Len(t), NEW j \in 1..Len(t), t[j] \in Needs(t[i])
                 PROVE  j < i
      BY DEF InOrder
    <3>1. i + 1 \in 1..Len(s) /\ j + 1 \in 1..Len(s) /\ s[j + 1] \in Needs(s[i + 1])
      BY <1>4
    <3>2. j + 1 < i + 1
      BY <1>6, <3>1 DEF InOrder
    <3> QED
      BY <3>2
  <2>2. ASSUME NEW x \in Range(s), x \in Needs(Head(s))
        PROVE  FALSE
    <3>1. PICK j \in 1..Len(s) : x = s[j]
      BY <1>2 DEF Range
    <3>2. 1 \in 1..Len(s) /\ s[j] \in Needs(s[1])
      BY <1>1, <2>2, <3>1
    <3>3. j < 1
      BY <1>6, <3>2 DEF InOrder
    <3> QED
      BY <3>3
  <2> QED
    BY <2>1, <2>2
<1> QED
  BY <1>1, <1>5, <1>6 DEF t

LEMMA ShortSequences ==
    /\ \A f \in Files : <<f>> \in Seq(Files) /\ Range(<<f>>) = {f}
    /\ <<>> \in Seq(Files) /\ Range(<<>>) = {}
  BY DEF Range

LEMMA BuildInOrder ==
    ASSUME NEW p, NEW prod \in BOOLEAN
    PROVE  /\ BuildFiles(p, prod) \in Seq(Files)
           /\ Range(BuildFiles(p, prod)) = Kit(p, prod)
           /\ InOrder(BuildFiles(p, prod))
<1> DEFINE s == IF "server" \in p.kinds THEN ServerFiles ELSE <<>>
           g == IF "page" \in p.kinds THEN <<"pages/index.html">> ELSE <<>>
           c == IF "client" \in p.kinds THEN ClientFiles ELSE <<>>
           e == IF "server" \in p.kinds THEN DeployServerFiles ELSE <<>>
           m == <<"deploy/manifest.json">>
           d == IF prod THEN e \o m ELSE <<>>
<1>1. BuildFiles(p, prod) = ProjectFiles \o s \o g \o c \o d
  BY DEF BuildFiles, DeployFiles
<1>2. {"pages/index.html", "deploy/manifest.json"} \subseteq Files
  BY SequenceRanges DEF Built, Clients
<1>3. /\ s \in Seq(Files) /\ Range(s) = {f \in Servers : "server" \in p.kinds}
      /\ g \in Seq(Files) /\ Range(g) = {f \in {"pages/index.html"} : "page" \in p.kinds}
      /\ c \in Seq(Files) /\ Range(c) = {f \in Clients : "client" \in p.kinds}
      /\ e \in Seq(Files) /\ Range(e) = {f \in Deploys : "server" \in p.kinds}
      /\ m \in Seq(Files) /\ Range(m) = {"deploy/manifest.json"}
      /\ ProjectFiles \in Seq(Files) /\ Range(ProjectFiles) = Projects
      /\ <<>> \in Seq(Files) /\ Range(<<>>) = {}
  BY <1>2, SequenceRanges, ShortSequences
<1>4. InOrder(c)
  <2>1. CASE "client" \in p.kinds
    <3>1. Len(c) = 5 /\ c[1] = "client/app.wasm" /\ c[2] = "client/app.js" /\ c[3] = "pages/index.html"
          /\ c[4] = "client/reactive-plan.json" /\ c[5] = "client/manifest.json"
      BY <2>1 DEF ClientFiles
    <3> HIDE DEF c
    <3>2. \A i \in 1..5 : i # 5 => Needs(c[i]) = {}
      BY <3>1, NeedsOf DEF Clients
    <3>3. c[5] \notin Needs(c[5])
      BY <3>1, NeedsOf
    <3> QED
      BY <3>1, <3>2, <3>3 DEF InOrder
  <2>2. CASE "client" \notin p.kinds
    BY <2>2 DEF InOrder
  <2> QED
    BY <2>1, <2>2
<1>5. InOrder(s) /\ InOrder(g) /\ InOrder(e) /\ InOrder(m) /\ InOrder(ProjectFiles) /\ InOrder(<<>>)
  <2>1. \A x \in Range(s) \cup Range(g) \cup Range(e) \cup Range(ProjectFiles) : Needs(x) = {}
    BY <1>3, NeedsOf
  <2>2. "deploy/manifest.json" \notin Needs("deploy/manifest.json")
    BY NeedsOf
  <2> HIDE DEF s, g, e, m
  <2>3. InOrder(s) /\ InOrder(g) /\ InOrder(e) /\ InOrder(ProjectFiles)
    BY <1>3, <2>1, IndependentInOrder
  <2>4. InOrder(m) /\ InOrder(<<>>)
    BY <1>3, <2>2, IndependentInOrder
  <2> QED
    BY <2>3, <2>4
<1>6. /\ d \in Seq(Files) /\ InOrder(d)
      /\ Range(d) = {f \in Deploys : prod /\ "server" \in p.kinds} \cup {f \in {"deploy/manifest.json"} : prod}
  <2> HIDE DEF e, m
  <2>1. \A x \in Range(e) : Needs(x) = {}
    BY <1>3, NeedsOf
  <2>2. e \o m \in Seq(Files) /\ InOrder(e \o m) /\ Range(e \o m) = Range(e) \cup Range(m)
    BY <1>3, <1>5, <2>1, ConcatProperties, ConcatInOrder, RangeConcatenation
  <2> QED
    BY <1>3, <1>5, <2>2
<1> HIDE DEF s, g, c, e, m, d
<1>7. /\ ProjectFiles \o s \in Seq(Files) /\ InOrder(ProjectFiles \o s)
      /\ Range(ProjectFiles \o s) = Projects \cup Range(s)
  <2>1. \A x \in Range(ProjectFiles) : Needs(x) = {}
    BY <1>3, NeedsOf
  <2> QED
    BY <1>3, <1>5, <2>1, ConcatProperties, ConcatInOrder, RangeConcatenation
<1> DEFINE u == ProjectFiles \o s
<1>8. /\ u \o g \in Seq(Files) /\ InOrder(u \o g)
      /\ Range(u \o g) = Projects \cup Range(s) \cup Range(g)
  <2>1. u \in Seq(Files) /\ InOrder(u) /\ Range(u) = Projects \cup Range(s)
    BY <1>7
  <2> HIDE DEF u
  <2>2. \A x \in Range(u) : Needs(x) = {}
    BY <1>3, <2>1, NeedsOf
  <2> QED
    BY <1>3, <1>5, <2>1, <2>2, ConcatProperties, ConcatInOrder, RangeConcatenation
<1> DEFINE v == u \o g
<1>9. /\ v \o c \in Seq(Files) /\ InOrder(v \o c)
      /\ Range(v \o c) = Projects \cup Range(s) \cup Range(g) \cup Range(c)
  <2>1. v \in Seq(Files) /\ InOrder(v) /\ Range(v) = Projects \cup Range(s) \cup Range(g)
    BY <1>8
  <2> HIDE DEF v, u
  <2>2. \A x \in Range(v) : Needs(x) = {}
    BY <1>3, <2>1, NeedsOf
  <2> QED
    BY <1>3, <1>4, <2>1, <2>2, ConcatProperties, ConcatInOrder, RangeConcatenation
<1> DEFINE w == v \o c
<1>10. /\ w \o d \in Seq(Files) /\ InOrder(w \o d)
       /\ Range(w \o d) = Projects \cup Range(s) \cup Range(g) \cup Range(c) \cup Range(d)
  <2>1. /\ w \in Seq(Files) /\ InOrder(w)
        /\ Range(w) = Projects \cup Range(s) \cup Range(g) \cup Range(c)
    BY <1>9
  <2> HIDE DEF w, v, u
  <2>2. \A x \in Range(w) : Needs(x) \cap Range(d) = {}
    BY <1>3, <1>6, <2>1, NeedsOf, Sorts DEF Clients
  <2> QED
    BY <1>6, <2>1, <2>2, ConcatProperties, ConcatInOrder, RangeConcatenation
<1>11. Range(w \o d) = Kit(p, prod)
  BY <1>3, <1>6, <1>10 DEF Kit
<1> QED
  BY <1>1, <1>10, <1>11 DEF u, v, w

-----------------------------------------------------------------------------
(* What a build of p leaves in each of its files: what it writes there     *)
(* when the files it takes hashes of are of the same build.                *)

Whole(f, p) ==
    CASE f = "client/manifest.json" ->
           [src |-> p.src, view |-> p.view, wasm |-> ClientWasm(p), loader |-> ClientJs(p),
            plan |-> ReactivePlan(p)]
      [] f = "deploy/manifest.json" ->
           [server |-> IF "server" \in p.kinds THEN DeployServer(p) ELSE NoTarget,
            static |-> "page" \in p.kinds, client |-> ClientView(p)]
      [] OTHER -> Content(f, p)

LEMMA WholeIsFixed ==
    ASSUME NEW f, NEW p
    PROVE  Whole(f, p)' = Whole(f, p)
<1>1. CASE f = "client/manifest.json"
  BY <1>1 DEF Whole, ClientWasm, ClientJs, ReactivePlan
<1>2. CASE f = "deploy/manifest.json"
  BY <1>2 DEF Whole, DeployServer, NoTarget, ClientView
<1>3. CASE f \notin {"client/manifest.json", "deploy/manifest.json"}
  <2>1. Whole(f, p)' = Content(f, p)' /\ Whole(f, p) = Content(f, p)
    BY <1>3 DEF Whole
  <2>2. Content(f, p)' = Content(f, p)
    BY <1>3 DEF Content, BuildManifest, BundlePlan, OriginMap, ProjectGraph, SourceBundle, ServerRuntime,
                ServerLaunch, NativePlan, RuntimeImage, LauncherSource, RoutesSource, HandlersSource, Names,
                PageShell, StaticPage, ClientWasm, ClientJs, ReactivePlan, DeployRoutes, DeployContainer,
                DeployDockerfile, DeployCompose, DeployEnv, DbAdapters, CommerceAdapters, SmokeTest,
                Preflight, BenchmarkEvidence, Runbook, ClientView, Fixed
  <2> QED
    BY <2>1, <2>2
<1> QED
  BY <1>1, <1>2, <1>3

LEMMA ProjectContents ==
    ASSUME NEW p
    PROVE  /\ Whole("build-manifest.json", p) = BuildManifest(p)
           /\ Whole("bundle-plan.json", p) = BundlePlan(p)
           /\ Whole("origin-map.json", p) = OriginMap(p)
           /\ Whole("project-graph.json", p) = ProjectGraph(p)
           /\ Whole("source-bundle.json", p) = SourceBundle(p)
  BY DEF Whole, Content

LEMMA ServerContents ==
    ASSUME NEW p
    PROVE  /\ Whole("server/app.orv-runtime.json", p) = ServerRuntime(p)
           /\ Whole("server/launch.json", p) = ServerLaunch(p)
           /\ Whole("server/native-server.json", p) = NativePlan(p)
           /\ Whole("server/runtime-image.json", p) = RuntimeImage(p)
           /\ Whole("server/native/Dockerfile", p) = Fixed
           /\ Whole("server/native/main.rs", p) = LauncherSource(p)
           /\ Whole("server/native/routes.rs", p) = RoutesSource(p)
           /\ Whole("server/native/router.rs", p) = Fixed
           /\ Whole("server/native/handlers.rs", p) = HandlersSource(p)
           /\ Whole("server/native/Cargo.toml", p) = Fixed
  BY DEF Whole, Content

LEMMA ClientContents ==
    ASSUME NEW p
    PROVE  /\ Whole("client/app.wasm", p) = ClientWasm(p)
           /\ Whole("client/app.js", p) = ClientJs(p)
           /\ Whole("pages/index.html", p) = IF "client" \in p.kinds THEN PageShell ELSE StaticPage(p)
           /\ Whole("client/reactive-plan.json", p) = ReactivePlan(p)
           /\ Whole("client/manifest.json", p) =
                [src |-> p.src, view |-> p.view, wasm |-> ClientWasm(p), loader |-> ClientJs(p),
                 plan |-> ReactivePlan(p)]
  BY DEF Whole, Content

LEMMA DeployContents ==
    ASSUME NEW p
    PROVE  /\ Whole("deploy/server.sh", p) = Fixed
           /\ Whole("deploy/routes.json", p) = DeployRoutes(p)
           /\ Whole("deploy/container.json", p) = DeployContainer(p)
           /\ Whole("deploy/Dockerfile", p) = DeployDockerfile(p)
           /\ Whole("deploy/compose.yaml", p) = DeployCompose(p)
           /\ Whole("deploy/env.example", p) = DeployEnv(p)
           /\ Whole("deploy/db-adapters.json", p) = DbAdapters(p)
           /\ Whole("deploy/commerce-adapters.json", p) = CommerceAdapters(p)
           /\ Whole("deploy/smoke-test.sh", p) = SmokeTest(p)
           /\ Whole("deploy/preflight.json", p) = Preflight(p, ClientView(p))
           /\ Whole("deploy/benchmark-evidence.json", p) = BenchmarkEvidence(p, ClientView(p))
           /\ Whole("deploy/README.md", p) = Runbook(p)
           /\ Whole("deploy/manifest.json", p) =
                [server |-> IF "server" \in p.kinds THEN DeployServer(p) ELSE NoTarget,
                 static |-> "page" \in p.kinds, client |-> ClientView(p)]
  BY DEF Whole, Content

\* What is written behind whole files is whole.
LEMMA WrittenWhole ==
    ASSUME NEW p, NEW f,
           f = "client/manifest.json" =>
             /\ out["client/app.wasm"] = Whole("client/app.wasm", p)
             /\ out["client/app.js"] = Whole("client/app.js", p)
             /\ out["client/reactive-plan.json"] = Whole("client/reactive-plan.json", p),
           f = "deploy/manifest.json" /\ "client" \in p.kinds =>
             out["client/manifest.json"] = Whole("client/manifest.json", p)
    PROVE  Content(f, p) = Whole(f, p)
<1>1. CASE f = "client/manifest.json"
  <2>1. Content(f, p) = ClientManifest(p)
    BY <1>1 DEF Content
  <2> QED
    BY <1>1, <2>1, ClientContents DEF ClientManifest
<1>2. CASE f = "deploy/manifest.json"
  <2>1. Content(f, p) = DeployManifest(p)
    BY <1>2 DEF Content
  <2>2. CASE "client" \in p.kinds
    <3>1. out["client/manifest.json"].view = p.view
      BY <1>2, <2>2, ClientContents
    <3> QED
      BY <1>2, <2>1, <2>2, <3>1, DeployContents DEF DeployManifest, ClientView
  <2>3. CASE "client" \notin p.kinds
    BY <1>2, <2>1, <2>3, DeployContents DEF DeployManifest, ClientView
  <2> QED
    BY <2>2, <2>3
<1>3. CASE f \notin {"client/manifest.json", "deploy/manifest.json"}
  BY <1>3 DEF Whole
<1> QED
  BY <1>1, <1>2, <1>3

-----------------------------------------------------------------------------
(* The inductive invariant.                                                *)

AfterVerify == {"session", "run", "serving", "sign", "events", "sleep"}

Shape ==
    /\ DOMAIN out = Files
    /\ source \in Sources
    /\ left \in Seq(Files)
    /\ DOMAIN cmd = {"command", "program"}
    /\ at # "idle" => cmd.command \in Commands
    /\ at \in {"idle", "load", "write", "verify"} \cup AfterVerify
    /\ at \notin {"write", "session", "events"} => left = <<>>
    /\ at \in AfterVerify => Range(left) \subseteq Devs

\* A file of a build is not there, cut short, or as a build of some program left it.
Provenance ==
    \A f \in Built :
        \/ out[f] \in {NoFile, Torn}
        \/ f = "pages/index.html" /\ out[f] = [view |-> Torn]
        \/ \E p \in Programs : f \in Kit(p, TRUE) /\ out[f] = Whole(f, p)

Startable(p, prod) == prod /\ "server" \in p.kinds => PortGiven(p)

\* The build under way: what it has written is whole.
Underway ==
    at = "write" =>
        /\ cmd.program \in Programs
        /\ cmd.command.prod \in BOOLEAN
        /\ Startable(cmd.program, cmd.command.prod)
        /\ Range(left) \subseteq Kit(cmd.program, cmd.command.prod)
        /\ InOrder(left)
        /\ \A f \in Kit(cmd.program, cmd.command.prod) :
             f \notin Range(left) => out[f] = Whole(f, cmd.program)

\* The build that ended last.
Ended ==
    built.program # NoProgram =>
        /\ at = "idle"
        /\ built.program \in Programs
        /\ built.prod \in BOOLEAN
        /\ Startable(built.program, built.prod)
        /\ \A f \in Kit(built.program, built.prod) : out[f] = Whole(f, built.program)

Sourced == Shape /\ Provenance /\ Underway /\ Ended

LEMMA InitSourced ==
    Init => Sourced
<1> SUFFICES ASSUME Init PROVE Sourced
  OBVIOUS
<1>1. /\ out = [f \in Files |-> NoFile] /\ source \in Programs /\ at = "idle" /\ left = <<>>
      /\ cmd = [command |-> CHOOSE c \in Commands : TRUE, program |-> NoProgram] /\ built = NoBuild
  BY DEF Init
<1>2. Shape
  BY <1>1 DEF Shape, Sources, AfterVerify
<1>3. \A f \in Built : out[f] = NoFile
  BY <1>1, SequenceRanges
<1>4. Provenance
  BY <1>3 DEF Provenance
<1>5. Underway /\ Ended
  BY <1>1 DEF Underway, Ended, NoBuild
<1> QED
  BY <1>2, <1>4, <1>5 DEF Sourced

\* What is as it was stays as sourced as it was.
LEMMA SameProvenance ==
    ASSUME Provenance, out' = out
    PROVE  Provenance'
<1>1. \A f, p : Whole(f, p)' = Whole(f, p)
  BY WholeIsFixed
<1> QED
  BY <1>1 DEF Provenance


LEMMA LoadSourced ==
    ASSUME Sourced, Load
    PROVE  Sourced'
<1>1. /\ at = "load" /\ out' = out /\ source' = source /\ built' = built
      /\ Shape /\ Provenance /\ Ended
  BY DEF Load, Sourced
<1>2. Provenance'
  BY <1>1, SameProvenance
<1>3. Ended'
  BY <1>1 DEF Ended
<1>4. CASE Refused
  <2>1. at' = "idle" /\ left' = <<>> /\ cmd' = [cmd EXCEPT !.program = NoProgram]
    BY <1>4 DEF Load, End
  <2>2. Shape'
    BY <1>1, <2>1 DEF Shape, AfterVerify
  <2> QED
    BY <1>2, <1>3, <2>1, <2>2 DEF Sourced, Underway
<1>5. CASE ~Refused
  <2>1. /\ at' = "write" /\ cmd' = [cmd EXCEPT !.program = source]
        /\ left' = BuildFiles(source, cmd.command.prod)
    BY <1>5 DEF Load
  <2>2. source \in Programs /\ Startable(source, cmd.command.prod) /\ cmd.command \in Commands
    BY <1>1, <1>5 DEF Refused, Shape, Sources, Startable
  <2>3. cmd.command.prod \in BOOLEAN
    BY <2>2, CommandsAssumption
  <2>4. cmd'.program = source /\ cmd'.command = cmd.command /\ DOMAIN cmd' = DOMAIN cmd
    BY <1>1, <2>1 DEF Shape
  <2>5. /\ left' \in Seq(Files) /\ Range(left') = Kit(source, cmd.command.prod) /\ InOrder(left')
    BY <2>1, <2>3, BuildInOrder
  <2>6. Shape'
    BY <1>1, <2>1, <2>2, <2>4, <2>5 DEF Shape, AfterVerify
  <2>7. Underway'
    BY <2>1, <2>2, <2>3, <2>4, <2>5 DEF Underway, Startable, PortGiven, Kit, Projects, Servers, Clients, Deploys
  <2> QED
    BY <1>2, <1>3, <2>6, <2>7 DEF Sourced
<1> QED
  BY <1>4, <1>5

LEMMA KitIsBuilt ==
    ASSUME NEW p, NEW prod
    PROVE  /\ Kit(p, prod) \subseteq Kit(p, TRUE) /\ Kit(p, prod) \subseteq Built
           /\ Needs("client/manifest.json") \subseteq Clients
           /\ "client/manifest.json" \in Kit(p, prod) => Clients \subseteq Kit(p, prod)
           /\ "client" \in p.kinds => "client/manifest.json" \in Kit(p, prod)
<1>1. Kit(p, prod) \subseteq Kit(p, TRUE) /\ Kit(p, prod) \subseteq Built
  BY DEF Kit, Built, Clients
<1>2. Needs("client/manifest.json") \subseteq Clients
  BY NeedsOf DEF Clients
<1>3. "client/manifest.json" \in Clients /\ "client/manifest.json" # "pages/index.html"
  BY DEF Clients
<1>4. "client/manifest.json" \in Kit(p, prod) => "client" \in p.kinds
  BY <1>3, Sorts DEF Kit
<1>5. "client" \in p.kinds => Clients \subseteq Kit(p, prod)
  BY DEF Kit
<1> QED
  BY <1>1, <1>2, <1>3, <1>4, <1>5

\* A file of a build.
LEMMA WriteBuildSourced ==
    ASSUME Sourced, Write, at = "write"
    PROVE  Sourced'
<1> DEFINE f == Head(left)
           prod == cmd.command.prod
<1>1. /\ left # <<>> /\ out' = [out EXCEPT ![f] = Now(f)] /\ left' = Tail(left)
      /\ source' = source /\ at' = at /\ cmd' = cmd /\ built' = built
      /\ Shape /\ Provenance /\ Underway /\ Ended
  BY DEF Write, Sourced
<1>2. PICK p \in Programs : p = cmd.program
  BY <1>1 DEF Underway
<1>3. /\ prod \in BOOLEAN /\ Startable(p, prod) /\ Range(left) \subseteq Kit(p, prod) /\ InOrder(left)
      /\ \A g \in Kit(p, prod) : g \notin Range(left) => out[g] = Whole(g, p)
  BY <1>1, <1>2 DEF Underway
<1>4. left \in Seq(Files) /\ DOMAIN out = Files
  BY <1>1 DEF Shape
<1>5. /\ f \in Files /\ Tail(left) \in Seq(Files) /\ Range(left) = {f} \cup Range(Tail(left))
      /\ InOrder(Tail(left)) /\ \A x \in Range(left) : x \notin Needs(f)
  BY <1>1, <1>3, <1>4, FirstAndRest
<1>6. f \in Kit(p, prod) /\ f \in Built /\ f \notin Devs /\ f \in Kit(p, TRUE)
  BY <1>3, <1>5, KitIsBuilt, BuiltNotDev
<1>7. Now(f) = Content(f, p)
  BY <1>2, <1>6, SequenceRanges DEF Now
<1> HIDE DEF f, prod
<1>8. Content(f, p) = Whole(f, p)
  <2>1. ASSUME f = "client/manifest.json"
        PROVE  /\ out["client/app.wasm"] = Whole("client/app.wasm", p)
               /\ out["client/app.js"] = Whole("client/app.js", p)
               /\ out["client/reactive-plan.json"] = Whole("client/reactive-plan.json", p)
    <3>1. {"client/app.wasm", "client/app.js", "client/reactive-plan.json"} \subseteq Kit(p, prod)
      BY <1>6, <2>1, KitIsBuilt, NeedsOf
    <3>2. \A x \in {"client/app.wasm", "client/app.js", "client/reactive-plan.json"} : x \notin Range(left)
      BY <1>5, <2>1, NeedsOf
    <3> QED
      BY <1>3, <3>1, <3>2
  <2>2. ASSUME f = "deploy/manifest.json", "client" \in p.kinds
        PROVE  out["client/manifest.json"] = Whole("client/manifest.json", p)
    BY <1>3, <1>5, <2>2, KitIsBuilt, NeedsOf
  <2> QED
    BY <2>1, <2>2, WrittenWhole
<1>9. \A g, q : Whole(g, q)' = Whole(g, q)
  BY WholeIsFixed
<1>10. DOMAIN out' = Files /\ out'[f] = Whole(f, p) /\ \A g \in Files : g # f => out'[g] = out[g]
  BY <1>1, <1>4, <1>5, <1>7, <1>8 DEF f
<1>11. Shape'
  BY <1>1, <1>5, <1>10 DEF Shape, AfterVerify
<1>12. Provenance'
  <2> SUFFICES ASSUME NEW g \in Built
               PROVE  \/ out'[g] \in {NoFile, Torn}
                      \/ g = "pages/index.html" /\ out'[g] = [view |-> Torn]
                      \/ \E q \in Programs : g \in Kit(q, TRUE) /\ out'[g] = Whole(g, q)
    BY <1>9 DEF Provenance
  <2>1. CASE g = f
    BY <1>6, <1>10, <2>1
  <2>2. CASE g # f
    <3>1. out'[g] = out[g]
      BY <1>10, <2>2, SequenceRanges
    <3> QED
      BY <1>1, <3>1 DEF Provenance
  <2> QED
    BY <2>1, <2>2
<1>13. Underway'
  <2>1. cmd'.program = p /\ cmd'.command.prod = prod
    BY <1>1, <1>2 DEF prod
  <2>2. Range(left') \subseteq Kit(p, prod) /\ InOrder(left')
    BY <1>1, <1>3, <1>5
  <2>3. ASSUME NEW g \in Kit(p, prod), g \notin Range(left')
        PROVE  out'[g] = Whole(g, p)
    <3>1. CASE g = f
      BY <1>10, <3>1
    <3>2. CASE g # f
      <4>1. g \notin Range(left) /\ g \in Files
        BY <1>1, <1>5, <2>3, <3>2, KitIsBuilt, SequenceRanges
      <4> QED
        BY <1>3, <1>10, <3>2, <4>1
    <3> QED
      BY <3>1, <3>2
  <2>4. \A g : Whole(g, cmd.program)' = Whole(g, p)
    BY <1>9, <2>1 DEF Whole
  <2> QED
    BY <1>3, <2>1, <2>2, <2>3, <2>4 DEF Underway, Startable, PortGiven, Kit
<1>14. Ended'
  BY <1>1 DEF Ended
<1> QED
  BY <1>11, <1>12, <1>13, <1>14 DEF Sourced

\* A file of the session or of the loop.
LEMMA WriteDevSourced ==
    ASSUME Sourced, Write, at \in AfterVerify
    PROVE  Sourced'
<1> DEFINE f == Head(left)
<1>1. /\ left # <<>> /\ out' = [out EXCEPT ![f] = Now(f)] /\ left' = Tail(left)
      /\ source' = source /\ at' = at /\ cmd' = cmd /\ built' = built
      /\ Shape /\ Provenance /\ Ended
  BY DEF Write, Sourced
<1>2. left \in Seq(Files) /\ DOMAIN out = Files /\ Range(left) \subseteq Devs
  BY <1>1 DEF Shape
<1>3. f \in Files /\ Tail(left) \in Seq(Files) /\ Range(left) = {f} \cup Range(Tail(left))
  BY <1>1, <1>2, FirstAndRest
<1> HIDE DEF f
<1>4. DOMAIN out' = Files /\ \A g \in Built : out'[g] = out[g]
  BY <1>1, <1>2, <1>3, BuiltNotDev DEF f
<1>5. Shape'
  BY <1>1, <1>3, <1>4 DEF Shape, AfterVerify
<1>6. \A g, q : Whole(g, q)' = Whole(g, q)
  BY WholeIsFixed
<1>7. Provenance'
  BY <1>1, <1>4, <1>6 DEF Provenance
<1>8. Underway' /\ Ended'
  BY <1>1 DEF Underway, Ended, AfterVerify
<1> QED
  BY <1>5, <1>7, <1>8 DEF Sourced

\* A kill, or a write that fails.
LEMMA AbortSourced ==
    ASSUME Sourced, Abort
    PROVE  Sourced'
<1> DEFINE f == Head(left)
<1>1. /\ at # "idle" /\ End /\ source' = source /\ built' = built
      /\ Shape /\ Provenance /\ Underway /\ Ended
      /\ \/ out' = out
         \/ /\ left # <<>>
            /\ \/ out' = [out EXCEPT ![f] = Torn]
               \/ f = "pages/index.html" /\ out' = [out EXCEPT ![f] = [view |-> Torn]]
  BY DEF Abort, Sourced
<1>2. /\ at' = "idle" /\ left' = <<>> /\ DOMAIN cmd' = {"command", "program"}
  BY <1>1 DEF End, Shape
<1>3. left # <<>> => f \in Files
  BY <1>1, FirstAndRest DEF Shape
<1>4. DOMAIN out' = Files
  BY <1>1 DEF Shape
<1> HIDE DEF f
<1>5. Shape'
  BY <1>1, <1>2, <1>4 DEF Shape, AfterVerify
<1>6. \A g, q : Whole(g, q)' = Whole(g, q)
  BY WholeIsFixed
<1>7. \A g \in Built : \/ out'[g] = out[g] \/ out'[g] = Torn
                       \/ g = "pages/index.html" /\ out'[g] = [view |-> Torn]
  BY <1>1, <1>3, SequenceRanges DEF Shape
<1>8. Provenance'
  BY <1>1, <1>6, <1>7 DEF Provenance
<1>9. Underway' /\ Ended'
  BY <1>1, <1>2 DEF Underway, Ended
<1> QED
  BY <1>5, <1>8, <1>9 DEF Sourced

LEMMA EndBuildSourced ==
    ASSUME Sourced, EndBuild
    PROVE  Sourced'
<1>1. /\ at = "write" /\ left = <<>> /\ out' = out /\ source' = source
      /\ Shape /\ Provenance /\ Underway /\ Ended
  BY DEF EndBuild, Sourced
<1>2. Provenance'
  BY <1>1, SameProvenance
<1>3. CASE cmd.command.dev
  <2>1. at' = "verify" /\ left' = left /\ cmd' = cmd /\ built' = built
    BY <1>3 DEF EndBuild
  <2>2. Shape'
    BY <1>1, <2>1 DEF Shape, AfterVerify
  <2> QED
    BY <1>1, <1>2, <2>1, <2>2 DEF Sourced, Underway, Ended
<1>4. CASE ~cmd.command.dev
  <2>1. /\ at' = "idle" /\ left' = <<>> /\ cmd' = [cmd EXCEPT !.program = NoProgram]
        /\ built' = [prod |-> cmd.command.prod, program |-> cmd.program]
    BY <1>4 DEF EndBuild, End
  <2>2. Shape'
    BY <1>1, <2>1 DEF Shape, AfterVerify
  <2>3. PICK p \in Programs : p = cmd.program
    BY <1>1 DEF Underway
  <2>4. PICK prod \in BOOLEAN : prod = cmd.command.prod
    BY <1>1 DEF Underway
  <2>5. Startable(p, prod) /\ \A f \in Kit(p, prod) : out[f] = Whole(f, p)
    BY <1>1, <2>3, <2>4, ShortSequences DEF Underway
  <2>6. built'.program = p /\ built'.prod = prod
    BY <2>1, <2>3, <2>4
  <2>7. \A g, q : Whole(g, q)' = Whole(g, q)
    BY WholeIsFixed
  <2>8. \A g : Whole(g, built.program)' = Whole(g, p)
    BY <2>6, <2>7 DEF Whole
  <2>9. Ended'
    BY <1>1, <2>1, <2>5, <2>6, <2>8 DEF Ended, Startable, PortGiven, Kit
  <2> QED
    BY <1>2, <2>1, <2>2, <2>9 DEF Sourced, Underway
<1> QED
  BY <1>3, <1>4

LEMMA VerifySourced ==
    ASSUME Sourced, Verify
    PROVE  Sourced'
<1>1. /\ at = "verify" /\ out' = out /\ source' = source /\ built' = built
      /\ Shape /\ Provenance /\ Ended
  BY DEF Verify, Sourced
<1>2. Provenance'
  BY <1>1, SameProvenance
<1>3. Ended'
  BY <1>1 DEF Ended
<1>4. CASE Verified
  <2> DEFINE h == IF cmd.command.hmr THEN <<"dev/session.json", "dev/transport.json", "dev/hmr-client.js">>
                                     ELSE <<>>
             w == IF cmd.command.watch THEN <<"dev/watch.json">> ELSE <<>>
  <2>1. at' = "session" /\ left' = h \o w /\ cmd' = cmd
    BY <1>4 DEF Verify
  <2>2. h \in Seq(Devs) /\ w \in Seq(Devs)
    <3>1. /\ <<"dev/session.json", "dev/transport.json", "dev/hmr-client.js">> \in Seq(Devs)
          /\ <<"dev/watch.json">> \in Seq(Devs)
      BY DEF Devs
    <3>2. <<>> \in Seq(Devs)
      OBVIOUS
    <3> QED
      BY <3>1, <3>2
  <2> HIDE DEF h, w
  <2>3. left' \in Seq(Devs)
    BY <2>1, <2>2, ConcatProperties
  <2>4. left' \in Seq(Files) /\ Range(left') \subseteq Devs
    BY <2>3, SequenceRanges, SeqMonotonic, RangeOfSeq
  <2>5. Shape'
    BY <1>1, <2>1, <2>4 DEF Shape, AfterVerify
  <2> QED
    BY <1>2, <1>3, <2>1, <2>5 DEF Sourced, Underway
<1>5. CASE ~Verified
  <2>1. at' = "idle" /\ left' = <<>> /\ cmd' = [cmd EXCEPT !.program = NoProgram]
    BY <1>5 DEF Verify, End
  <2>2. Shape'
    BY <1>1, <2>1 DEF Shape, AfterVerify
  <2> QED
    BY <1>2, <1>3, <2>1, <2>2 DEF Sourced, Underway
<1> QED
  BY <1>4, <1>5

\* The steps that write no file and begin no list of them but the loop's.
LEMMA QuietSourced ==
    ASSUME Sourced, out' = out, DOMAIN cmd' = {"command", "program"}, at' # "write",
           source' \in Sources,
           at' # "idle" => cmd'.command \in Commands,
           at' \in {"idle", "load"} \cup AfterVerify,
           left' \in Seq(Files), Range(left') \subseteq Devs,
           at' \notin {"session", "events"} => left' = <<>>,
           built'.program = NoProgram \/ (built' = built /\ at' = "idle")
    PROVE  Sourced'
<1>1. Shape /\ Provenance /\ Ended
  BY DEF Sourced
<1>2. Provenance'
  BY <1>1, SameProvenance
<1>3. Shape'
  BY <1>1 DEF Shape
<1>4. Underway'
  BY DEF Underway
<1>5. \A g, q : Whole(g, q)' = Whole(g, q)
  BY WholeIsFixed
<1>6. CASE built' = built /\ at' = "idle" /\ built.program # NoProgram
  <2>1. PICK p \in Programs : p = built.program
    BY <1>1, <1>6 DEF Ended
  <2>2. \A g : Whole(g, built.program)' = Whole(g, p)
    BY <1>5, <1>6, <2>1 DEF Whole
  <2>3. \A g : Whole(g, built.program) = Whole(g, p)
    BY <2>1
  <2> QED
    BY <1>1, <1>2, <1>3, <1>4, <1>6, <2>1, <2>2, <2>3 DEF Sourced, Ended, Startable, PortGiven, Kit
<1>7. CASE built'.program = NoProgram \/ (built' = built /\ built.program = NoProgram)
  BY <1>2, <1>3, <1>4, <1>7 DEF Sourced, Ended
<1> QED
  BY <1>6, <1>7

\* Behind Verified, a step that ends the command or goes on.
LEMMA EndIsQuiet ==
    ASSUME Sourced, End
    PROVE  /\ at' = "idle" /\ left' = <<>> /\ left' \in Seq(Files) /\ Range(left') \subseteq Devs
           /\ DOMAIN cmd' = {"command", "program"}
  BY ShortSequences DEF Sourced, Shape, End

LEMMA EventFiles ==
    ASSUME NEW e, WriteEvents(e)
    PROVE  /\ at' = "events"
           /\ left' \in {<<"dev/events.json">>, <<"dev/events.json", "dev/server.json">>}
           /\ left' \in Seq(Files) /\ Range(left') \subseteq Devs
<1>1. at' = "events" /\ left' \in {<<"dev/events.json">>, <<"dev/events.json", "dev/server.json">>}
  <2>1. <<"dev/events.json">> \o <<"dev/server.json">> = <<"dev/events.json", "dev/server.json">>
    <3> DEFINE s == <<"dev/events.json">>
               t == <<"dev/server.json">>
               u == <<"dev/events.json", "dev/server.json">>
    <3>1. /\ s \in Seq(Devs) /\ Len(s) = 1 /\ s[1] = "dev/events.json"
          /\ t \in Seq(Devs) /\ Len(t) = 1 /\ t[1] = "dev/server.json"
          /\ u \in Seq(Devs) /\ Len(u) = 2 /\ u[1] = "dev/events.json" /\ u[2] = "dev/server.json"
      BY DEF Devs
    <3> HIDE DEF s, t, u
    <3>2. /\ s \o t \in Seq(Devs) /\ Len(s \o t) = 2
          /\ \A i \in 1..2 : (s \o t)[i] = IF i <= 1 THEN s[i] ELSE t[i - 1]
      BY <3>1, ConcatProperties
    <3>3. \A i \in 1..2 : (s \o t)[i] = u[i]
      BY <3>1, <3>2
    <3>4. s \o t = u
      BY <3>1, <3>2, <3>3, SeqEqual
    <3> QED
      BY <3>4 DEF s, t, u
  <2>2. <<"dev/events.json">> \o <<>> = <<"dev/events.json">>
    BY ConcatEmptySeq
  <2>3. \/ left' = <<"dev/events.json">> \o <<"dev/server.json">>
        \/ left' = <<"dev/events.json">> \o <<>>
    BY DEF WriteEvents
  <2> QED
    BY <2>1, <2>2, <2>3 DEF WriteEvents
<1>2. <<"dev/events.json">> \in Seq(Devs) /\ <<"dev/events.json", "dev/server.json">> \in Seq(Devs)
  BY DEF Devs
<1>3. ASSUME NEW s \in Seq(Devs)
      PROVE  s \in Seq(Files) /\ Range(s) \subseteq Devs
  BY SequenceRanges, SeqMonotonic, RangeOfSeq
<1> QED
  BY <1>1, <1>2, <1>3

LEMMA NextSourced ==
    ASSUME Sourced, [Next]_vars
    PROVE  Sourced'
<1>1. /\ Shape /\ Ended /\ DOMAIN cmd = {"command", "program"} /\ source \in Sources /\ left \in Seq(Files)
      /\ at # "idle" => built.program = NoProgram /\ cmd.command \in Commands
  BY DEF Sourced, Shape, Ended
<1>2. <<>> \in Seq(Files) /\ Range(<<>>) = {}
  BY ShortSequences
<1>3. CASE Load
  BY <1>3, LoadSourced
<1>4. CASE Write
  <2>1. at \in {"write"} \cup AfterVerify
    BY <1>1, <1>4 DEF Write, Shape, AfterVerify
  <2> QED
    BY <1>4, <2>1, WriteBuildSourced, WriteDevSourced
<1>5. CASE EndBuild
  BY <1>5, EndBuildSourced
<1>6. CASE Verify
  BY <1>6, VerifySourced
<1>7. CASE EndSession
  BY <1>1, <1>2, <1>7, QuietSourced DEF EndSession, AfterVerify
<1>8. CASE Run
  <2>1. at = "run" /\ left = <<>> /\ out' = out /\ source' = source /\ built' = built
    BY <1>1, <1>8 DEF Run, Shape
  <2>2. CASE End
    BY <1>1, <2>1, <2>2, EndIsQuiet, QuietSourced
  <2>3. CASE at' \in {"serving", "sign"} /\ left' = left /\ cmd' = cmd
    BY <1>1, <1>2, <2>1, <2>3, QuietSourced DEF AfterVerify
  <2> QED
    BY <1>8, <2>2, <2>3 DEF Run
<1>9. CASE Sign
  <2>1. at = "sign" /\ out' = out /\ source' = source /\ built' = built
    BY <1>9 DEF Sign
  <2>2. CASE End
    BY <1>1, <2>1, <2>2, EndIsQuiet, QuietSourced
  <2>3. CASE WriteEvents([action |-> "build-verify-run", signature |-> Signature]) /\ cmd' = cmd
    BY <1>1, <2>1, <2>3, EventFiles, QuietSourced DEF AfterVerify
  <2> QED
    BY <1>9, <2>2, <2>3 DEF Sign
<1>10. CASE EndIteration
  <2>1. at = "events" /\ left = <<>> /\ out' = out /\ source' = source /\ built' = built
    BY <1>10 DEF EndIteration
  <2>2. CASE End
    BY <1>1, <2>1, <2>2, EndIsQuiet, QuietSourced
  <2>3. CASE at' = "sleep" /\ left' = left /\ cmd' = cmd
    BY <1>1, <1>2, <2>1, <2>3, QuietSourced DEF AfterVerify
  <2> QED
    BY <1>10, <2>2, <2>3 DEF EndIteration
<1>11. CASE Poll
  <2>1. at = "sleep" /\ left = <<>> /\ out' = out /\ source' = source /\ built' = built
    BY <1>1, <1>11 DEF Poll, Shape
  <2>2. CASE End
    BY <1>1, <2>1, <2>2, EndIsQuiet, QuietSourced
  <2>3. CASE WriteEvents([action |-> "skip"]) /\ cmd' = cmd
    BY <1>1, <2>1, <2>3, EventFiles, QuietSourced DEF AfterVerify
  <2>4. CASE at' = "load" /\ left' = left /\ cmd' = cmd
    BY <1>1, <1>2, <2>1, <2>4, QuietSourced DEF AfterVerify
  <2> QED
    BY <1>11, <2>2, <2>3, <2>4 DEF Poll
<1>12. CASE Abort
  BY <1>12, AbortSourced
<1>13. ASSUME NEW p \in Sources, Edit(p)
       PROVE  Sourced'
  <2>1. at \in {"idle", "serving", "sign", "sleep"} /\ left = <<>>
    BY <1>1, <1>13 DEF Edit, Shape
  <2> QED
    BY <1>1, <1>2, <1>13, <2>1, QuietSourced DEF Edit, AfterVerify
<1>14. ASSUME NEW c \in Commands, Begin(c)
       PROVE  Sourced'
  <2>1. /\ at = "idle" /\ left = <<>> /\ at' = "load" /\ cmd' = [command |-> c, program |-> NoProgram]
        /\ built' = NoBuild /\ out' = out /\ source' = source /\ left' = left
    BY <1>1, <1>14 DEF Begin, Shape
  <2>2. built'.program = NoProgram /\ cmd'.command = c /\ DOMAIN cmd' = {"command", "program"}
    BY <2>1 DEF NoBuild
  <2> QED
    BY <1>1, <1>2, <2>1, <2>2, QuietSourced
<1>15. CASE UNCHANGED vars
  <2>1. /\ out' = out /\ source' = source /\ at' = at /\ left' = left /\ cmd' = cmd /\ built' = built
    BY <1>15 DEF vars
  <2>2. \A g, q : Whole(g, q)' = Whole(g, q)
    BY WholeIsFixed
  <2>3. Provenance'
    BY <2>1, SameProvenance DEF Sourced
  <2>4. Shape'
    BY <1>1, <2>1 DEF Shape
  <2>5. Underway'
    <3>1. CASE at = "write"
      <4>1. Underway
        BY DEF Sourced
      <4>2. PICK p \in Programs : p = cmd.program
        BY <3>1, <4>1 DEF Underway
      <4>3. \A g : Whole(g, cmd.program)' = Whole(g, p) /\ Whole(g, cmd.program) = Whole(g, p)
        BY <2>1, <2>2, <4>2 DEF Whole
      <4> QED
        BY <2>1, <3>1, <4>1, <4>2, <4>3 DEF Underway, Startable, PortGiven, Kit
    <3>2. CASE at # "write"
      BY <2>1, <3>2 DEF Underway
    <3> QED
      BY <3>1, <3>2
  <2>6. Ended'
    <3>1. CASE built.program # NoProgram
      <4>1. PICK p \in Programs : p = built.program
        BY <1>1, <3>1 DEF Ended
      <4>2. \A g : Whole(g, built.program)' = Whole(g, p) /\ Whole(g, built.program) = Whole(g, p)
        BY <2>1, <2>2, <4>1 DEF Whole
      <4> QED
        BY <1>1, <2>1, <3>1, <4>1, <4>2 DEF Ended, Startable, PortGiven, Kit
    <3>2. CASE built.program = NoProgram
      BY <2>1, <3>2 DEF Ended
    <3> QED
      BY <3>1, <3>2
  <2> QED
    BY <2>3, <2>4, <2>5, <2>6 DEF Sourced
<1> QED
  BY <1>3, <1>4, <1>5, <1>6, <1>7, <1>8, <1>9, <1>10, <1>11, <1>12, <1>13, <1>14, <1>15 DEF Next, Step

-----------------------------------------------------------------------------
(* What is accepted is of one build.                                       *)

LEMMA FromProgram ==
    ASSUME Sourced, NEW f \in Built, f # "pages/index.html", Readable(f)
    PROVE  \E p \in Programs : f \in Kit(p, TRUE) /\ out[f] = Whole(f, p)
  BY DEF Sourced, Provenance, Readable

LEMMA BundleTellsProgram ==
    ASSUME NEW p \in Programs, TheSource = SourceBundle(p)
    PROVE  BundledProgram = p
<1>1. \A q \in Programs : TheSource = SourceBundle(q) => q = p
  <2> SUFFICES ASSUME NEW q \in Programs, SourceBundle(q) = SourceBundle(p)
               PROVE  q = p
    OBVIOUS
  <2>1. q.src = p.src
    BY DEF SourceBundle
  <2> QED
    BY <2>1, ProgramsAssumption
<1> QED
  BY <1>1 DEF BundledProgram

LEMMA SourceIsBundled ==
    ASSUME Sourced, Readable("source-bundle.json")
    PROVE  \E p \in Programs : TheSource = SourceBundle(p)
<1>1. "source-bundle.json" \in Built /\ "source-bundle.json" # "pages/index.html"
  BY DEF Built, Projects
<1>2. PICK p \in Programs : TheSource = Whole("source-bundle.json", p)
  BY <1>1, FromProgram DEF TheSource
<1> QED
  BY <1>2, ProjectContents

\* The server's artifact, accepted, is that of the program in the source bundle.
LEMMA ServerTellsProgram ==
    ASSUME Sourced, NEW p \in Programs, TheSource = SourceBundle(p), ServerRuntimeOk
    PROVE  TheServer = ServerRuntime(p) /\ "server" \in p.kinds
<1>1. /\ "server/app.orv-runtime.json" \in Built /\ "server/app.orv-runtime.json" # "pages/index.html"
      /\ "server/app.orv-runtime.json" \in Servers
  BY DEF Built, Servers
<1>2. PICK q \in Programs : /\ "server/app.orv-runtime.json" \in Kit(q, TRUE)
                            /\ TheServer = Whole("server/app.orv-runtime.json", q)
  BY <1>1, FromProgram DEF TheServer, ServerRuntimeOk
<1>3. TheServer = ServerRuntime(q)
  BY <1>2, ServerContents
<1>4. TheServer.src = q.src /\ TheServer.files = q.files
  BY <1>3 DEF ServerRuntime
<1>5. [src |-> q.src, files |-> q.files] = [src |-> p.src, files |-> p.files]
  BY <1>4 DEF ServerRuntimeOk, SourceContract, SourceBundle
<1>6. q = p
  BY <1>5, ProgramsAssumption
<1>7. "server" \in q.kinds
  BY <1>1, <1>2, Sorts DEF Kit, Clients
<1> QED
  BY <1>3, <1>6, <1>7

\* ... and the files that are compared with it are of that program.
LEMMA ServerFilesTell ==
    ASSUME NEW p, TheServer = ServerRuntime(p)
    PROVE  /\ ServerLaunch(TheServer) = ServerLaunch(p) /\ NativePlan(TheServer) = NativePlan(p)
           /\ RuntimeImage(TheServer) = RuntimeImage(p) /\ LauncherSource(TheServer) = LauncherSource(p)
           /\ RoutesSource(TheServer) = RoutesSource(p) /\ HandlersSource(TheServer) = HandlersSource(p)
           /\ DeployRoutes(TheServer) = DeployRoutes(p) /\ DeployContainer(TheServer) = DeployContainer(p)
           /\ DeployDockerfile(TheServer) = DeployDockerfile(p)
           /\ DbAdapters(TheServer) = DbAdapters(p) /\ CommerceAdapters(TheServer) = CommerceAdapters(p)
           /\ DeployServer(TheServer) = DeployServer(p)
           /\ \A client : Preflight(TheServer, client) = Preflight(p, client)
           /\ TheServer.listen = p.listen /\ TheServer.stores = p.stores
           /\ TheServer.files = p.files /\ TheServer.routes = p.routes
<1>1. /\ TheServer.listen = p.listen /\ TheServer.stores = p.stores /\ TheServer.routes = p.routes
      /\ TheServer.features = p.features /\ TheServer.files = p.files
  BY DEF ServerRuntime
<1> QED
  BY <1>1 DEF ServerLaunch, NativePlan, RuntimeImage, LauncherSource, RoutesSource, HandlersSource,
              DeployRoutes, DeployContainer, DeployDockerfile, DbAdapters, CommerceAdapters, DeployServer,
              Preflight

LEMMA ServerAccepted ==
    ASSUME Sourced
    PROVE  ServerOfOneBuild
<1> SUFFICES ASSUME Verified, Has("server")
             PROVE  \A f \in Range(ServerFiles) : out[f] = Content(f, BundledProgram)
  BY DEF ServerOfOneBuild
<1>1. Readable("source-bundle.json") /\ BundleTargetsOk
  BY SequenceRanges DEF Verified, Projects
<1>2. PICK p \in Programs : TheSource = SourceBundle(p)
  BY <1>1, SourceIsBundled
<1>3. BundledProgram = p
  BY <1>2, BundleTellsProgram
<1>4. /\ ServerRuntimeOk /\ LauncherOk /\ NativePlanOk /\ RuntimeImageOk /\ NativeDockerfileOk
      /\ LauncherSourceOk /\ RoutesSourceOk /\ RouterSourceOk /\ HandlersSourceOk /\ PackageOk
  BY <1>1 DEF BundleTargetsOk
<1>5. TheServer = ServerRuntime(p)
  BY <1>2, <1>4, ServerTellsProgram
<1>6. /\ out["server/app.orv-runtime.json"] = ServerRuntime(p)
      /\ out["server/launch.json"] = ServerLaunch(p)
      /\ out["server/native-server.json"] = NativePlan(p)
      /\ out["server/runtime-image.json"] = RuntimeImage(p)
      /\ out["server/native/Dockerfile"] = Fixed
      /\ out["server/native/main.rs"] = LauncherSource(p)
      /\ out["server/native/routes.rs"] = RoutesSource(p)
      /\ out["server/native/router.rs"] = Fixed
      /\ out["server/native/handlers.rs"] = HandlersSource(p)
      /\ out["server/native/Cargo.toml"] = Fixed
  BY <1>4, <1>5, ServerFilesTell
     DEF TheServer, LauncherOk, NativePlanOk, RuntimeImageOk, NativeDockerfileOk, LauncherSourceOk,
         RoutesSourceOk, RouterSourceOk, HandlersSourceOk, PackageOk, Holds
<1>7. \A f \in Servers : out[f] = Whole(f, p)
  BY <1>6, ServerContents DEF Servers
<1>8. \A f \in Servers : Whole(f, p) = Content(f, p)
  <2>1. \A f \in Servers : f \notin {"client/manifest.json", "deploy/manifest.json"}
    BY Sorts DEF Clients
  <2> QED
    BY <2>1 DEF Whole
<1> QED
  BY <1>3, <1>7, <1>8, SequenceRanges

LEMMA ClientAccepted ==
    ASSUME Sourced
    PROVE  ClientOfOneBuild
<1> SUFFICES ASSUME Verified, Has("client")
             PROVE  \A f \in Range(ClientFiles) : out[f] = Content(f, BundledProgram)
  BY DEF ClientOfOneBuild
<1>1. Readable("source-bundle.json") /\ ClientTargetsOk
  BY SequenceRanges DEF Verified, Projects, BundleTargetsOk
<1>2. PICK p \in Programs : TheSource = SourceBundle(p)
  BY <1>1, SourceIsBundled
<1>3. BundledProgram = p /\ TheSource.src = p.src
  BY <1>2, BundleTellsProgram DEF SourceBundle
<1>4. ClientManifestOk /\ ReactivePlanOk /\ ClientPageOk /\ ClientJsOk /\ ClientWasmOk
  BY <1>1 DEF ClientTargetsOk
<1>5. /\ {"client/manifest.json", "client/app.wasm", "client/app.js", "client/reactive-plan.json"} \subseteq Built
      /\ "pages/index.html" \notin {"client/manifest.json", "client/app.wasm", "client/app.js", "client/reactive-plan.json"}
      /\ "client/manifest.json" \in Clients
  BY DEF Built, Clients
<1>6. PICK q \in Programs : /\ "client/manifest.json" \in Kit(q, TRUE)
                            /\ out["client/manifest.json"] = Whole("client/manifest.json", q)
  BY <1>4, <1>5, FromProgram DEF ClientManifestOk
<1>7. out["client/manifest.json"].src = q.src
  BY <1>6, ClientContents
<1>8. q = p
  <2>1. out["client/manifest.json"].src = TheSource.src
    BY <1>4 DEF ClientManifestOk, ManifestSourceOk
  <2>2. q.src = p.src
    BY <1>3, <1>7, <2>1
  <2> QED
    BY <2>2, ProgramsAssumption
<1>9. "client" \in p.kinds
  BY <1>5, <1>6, <1>8, Sorts DEF Kit
<1>10. /\ out["client/manifest.json"].wasm = ClientWasm(p)
       /\ out["client/manifest.json"].loader = ClientJs(p)
       /\ out["client/manifest.json"].plan = ReactivePlan(p)
  BY <1>6, <1>8, ClientContents
<1>11. /\ out["client/app.wasm"] = ClientWasm(p) /\ out["client/app.js"] = ClientJs(p)
       /\ out["client/reactive-plan.json"] = ReactivePlan(p)
       /\ out["pages/index.html"] = PageShell
  BY <1>4, <1>10 DEF ClientManifestOk, ManifestWasmHashOk, ManifestHashesOk, ClientPageOk, Holds
<1>12. \A f \in Clients : out[f] = Whole(f, p)
  BY <1>6, <1>8, <1>9, <1>11, ClientContents DEF Clients
<1>13. \A f \in Clients : Whole(f, p) = Content(f, p)
  <2> SUFFICES ASSUME NEW f \in Clients
               PROVE  Content(f, p) = Whole(f, p)
    OBVIOUS
  <2>1. {"client/app.wasm", "client/app.js", "client/reactive-plan.json"} \subseteq Clients
    BY DEF Clients
  <2>2. f # "deploy/manifest.json"
    BY Sorts
  <2> QED
    BY <1>12, <2>1, <2>2, WrittenWhole
<1> QED
  BY <1>3, <1>12, <1>13, SequenceRanges

LEMMA DeployAccepted ==
    ASSUME Sourced
    PROVE  DeployOfOneBuild
<1> SUFFICES ASSUME Verified, There("deploy/manifest.json"), TheDeploy.server # NoTarget, NEW p, p = BundledProgram
             PROVE  /\ \A f \in {"deploy/server.sh", "deploy/routes.json", "deploy/container.json", "deploy/Dockerfile",
                                 "deploy/db-adapters.json", "deploy/commerce-adapters.json"} :
                          out[f] = Content(f, p)
                    /\ \A f \in {"deploy/compose.yaml", "deploy/env.example"} :
                          /\ p.listen # NoPort => out[f].listen = p.listen
                          /\ p.stores \subseteq out[f].stores
                    /\ out["deploy/preflight.json"] = Preflight(p, TheDeploy.client)
                    /\ out["deploy/benchmark-evidence.json"].preflight = out["deploy/preflight.json"]
                    /\ TheDeploy.server = DeployServer(p)
  BY DEF DeployOfOneBuild
<1>1. Readable("source-bundle.json") /\ DeployServerOk
  BY SequenceRanges DEF Verified, Projects, DeployOk
<1>2. PICK q \in Programs : TheSource = SourceBundle(q)
  BY <1>1, SourceIsBundled
<1>3. p = q
  BY <1>2, BundleTellsProgram
<1>4. /\ EntrypointOk /\ ServerRuntimeOk /\ DeployRoutesOk
      /\ ContainerOk /\ ComposeOk /\ EnvOk /\ DbAdaptersOk /\ CommerceAdaptersOk
      /\ PreflightOk /\ EvidenceOk /\ TheDeploy.server = DeployServer(TheServer)
  BY <1>1 DEF DeployServerOk
<1>5. TheServer = ServerRuntime(p)
  BY <1>2, <1>3, <1>4, ServerTellsProgram
<1>6. /\ out["deploy/server.sh"] = Fixed /\ out["deploy/routes.json"] = DeployRoutes(p)
      /\ out["deploy/container.json"] = DeployContainer(p) /\ out["deploy/Dockerfile"] = DeployDockerfile(p)
      /\ out["deploy/db-adapters.json"] = DbAdapters(p)
      /\ out["deploy/commerce-adapters.json"] = CommerceAdapters(p)
  BY <1>4, <1>5, ServerFilesTell
     DEF EntrypointOk, DeployRoutesOk, ContainerOk, DbAdaptersOk, CommerceAdaptersOk, Holds
<1>7. \A f \in {"deploy/server.sh", "deploy/routes.json", "deploy/container.json", "deploy/Dockerfile",
                "deploy/db-adapters.json", "deploy/commerce-adapters.json"} : Content(f, p) = Whole(f, p)
  BY DEF Whole
<1>8. \A f \in {"deploy/compose.yaml", "deploy/env.example"} :
         /\ p.listen # NoPort => out[f].listen = p.listen
         /\ p.stores \subseteq out[f].stores
  BY <1>4, <1>5, ServerFilesTell DEF ComposeOk, EnvOk, Provides
<1>9. /\ out["deploy/preflight.json"] = Preflight(p, TheDeploy.client)
      /\ out["deploy/benchmark-evidence.json"].preflight = out["deploy/preflight.json"]
      /\ TheDeploy.server = DeployServer(p)
  BY <1>4, <1>5, ServerFilesTell DEF PreflightOk, EvidenceOk, Holds
<1> QED
  BY <1>6, <1>7, <1>8, <1>9, DeployContents

LEMMA AlwaysSourced ==
    Spec => []Sourced
<1>1. Sourced /\ [Next]_vars => Sourced'
  BY NextSourced
<1> QED
  BY <1>1, InitSourced, PTL DEF Spec

(* Whatever builds were run, cut short or refused in a directory, and with  *)
(* whatever edits between them: what orv verify-build accepts there are the *)
(* server, client and deploy files of one program (verify_build_dir).       *)
THEOREM VerifiedIsOneBuild ==
    Spec => []AcceptedIsOneBuild
<1>1. Sourced => AcceptedIsOneBuild
  BY ServerAccepted, ClientAccepted, DeployAccepted DEF AcceptedIsOneBuild
<1> QED
  BY <1>1, AlwaysSourced, PTL

-----------------------------------------------------------------------------
(* A build that was not cut short is accepted.                             *)

IsContent(c) == c = [i \in DOMAIN c |-> c[i]]

\* What stands for no file and for a torn one is not the content of any.
MarkersAssumption == ~IsContent(NoFile) /\ ~IsContent(Torn)

LEMMA WholeIsContent ==
    ASSUME MarkersAssumption, NEW p, NEW f \in Built
    PROVE  Whole(f, p) \notin {NoFile, Torn}
<1>1. \A c : IsContent(c) => c \notin {NoFile, Torn}
  BY DEF MarkersAssumption
<1>2. IsContent(Fixed) /\ IsContent(PageShell)
  BY DEF IsContent, Fixed, PageShell
<1>3. CASE f \in Projects
  <2>1. /\ IsContent(BuildManifest(p)) /\ IsContent(BundlePlan(p)) /\ IsContent(OriginMap(p))
        /\ IsContent(ProjectGraph(p)) /\ IsContent(SourceBundle(p))
    BY DEF IsContent, BuildManifest, BundlePlan, OriginMap, ProjectGraph, SourceBundle
  <2> QED
    BY <1>1, <1>3, <2>1, ProjectContents DEF Projects
<1>4. CASE f \in Servers
  <2>1. /\ IsContent(ServerRuntime(p)) /\ IsContent(ServerLaunch(p)) /\ IsContent(NativePlan(p))
        /\ IsContent(RuntimeImage(p)) /\ IsContent(LauncherSource(p)) /\ IsContent(RoutesSource(p))
        /\ IsContent(HandlersSource(p))
    BY DEF IsContent, ServerRuntime, ServerLaunch, NativePlan, RuntimeImage, LauncherSource, RoutesSource,
           HandlersSource
  <2> QED
    BY <1>1, <1>2, <1>4, <2>1, ServerContents DEF Servers
<1>5. CASE f \in Clients
  <2>1. /\ IsContent(ClientWasm(p)) /\ IsContent(ClientJs(p)) /\ IsContent(ReactivePlan(p))
        /\ IsContent(StaticPage(p)) /\ IsContent(Whole("client/manifest.json", p))
    BY ClientContents DEF IsContent, ClientWasm, ClientJs, ReactivePlan, StaticPage
  <2> QED
    BY <1>1, <1>2, <1>5, <2>1, ClientContents DEF Clients
<1>6. CASE f \in Deploys
  <2>1. /\ IsContent(DeployRoutes(p)) /\ IsContent(DeployContainer(p)) /\ IsContent(DeployDockerfile(p))
        /\ IsContent(DeployCompose(p)) /\ IsContent(DeployEnv(p)) /\ IsContent(DbAdapters(p))
        /\ IsContent(CommerceAdapters(p)) /\ IsContent(SmokeTest(p)) /\ IsContent(Runbook(p))
        /\ IsContent(Preflight(p, ClientView(p))) /\ IsContent(BenchmarkEvidence(p, ClientView(p)))
    BY DEF IsContent, DeployRoutes, DeployContainer, DeployDockerfile, DeployCompose, DeployEnv, DbAdapters,
           CommerceAdapters, SmokeTest, Runbook, Preflight, BenchmarkEvidence
  <2> QED
    BY <1>1, <1>2, <1>6, <2>1, DeployContents DEF Deploys
<1>7. CASE f = "deploy/manifest.json"
  <2>1. IsContent(Whole(f, p))
    BY <1>7, DeployContents DEF IsContent
  <2> QED
    BY <1>1, <2>1
<1> QED
  BY <1>3, <1>4, <1>5, <1>6, <1>7 DEF Built

BuildOk ==
    /\ \A f \in Range(ProjectFiles) : Readable(f)
    /\ ProjectGraphOk /\ BundleTargetsOk /\ ManifestArtifactsThere /\ DeployOk

LEMMA WholeIsAccepted ==
    ASSUME MarkersAssumption, NEW p \in Programs, NEW prod \in BOOLEAN, Startable(p, prod),
           \A f \in Kit(p, prod) : out[f] = Whole(f, p),
           prod \/ ~There("deploy/manifest.json")
    PROVE  BuildOk
<1>1. \A f \in Kit(p, prod) : out[f] = Whole(f, p) /\ Readable(f) /\ There(f)
  BY WholeIsContent, KitIsBuilt DEF Readable, There
<1>2. \A f \in Projects : out[f] = Whole(f, p) /\ Readable(f)
  BY <1>1 DEF Kit
<1>3. /\ out["build-manifest.json"] = BuildManifest(p) /\ out["bundle-plan.json"] = BundlePlan(p)
      /\ out["origin-map.json"] = OriginMap(p) /\ out["project-graph.json"] = ProjectGraph(p)
      /\ TheSource = SourceBundle(p)
  BY <1>2, ProjectContents DEF Projects, TheSource
<1>4. /\ out["build-manifest.json"].kinds = p.kinds /\ (\A k : Has(k) <=> k \in p.kinds)
      /\ TheOrigins = p.origins /\ TheSource.src = p.src /\ TheSource.files = p.files
  BY <1>3 DEF BuildManifest, BundlePlan, OriginMap, SourceBundle, Has, TheOrigins
<1>5. /\ Names(p.routes) \subseteq p.origins /\ p.stores \subseteq p.origins
      /\ "page" \in p.kinds => "server" \notin p.kinds /\ "client" \notin p.kinds
  BY ProgramsAssumption
<1>6. ProjectGraphOk
  BY <1>2, <1>3, <1>4 DEF ProjectGraphOk, ProjectGraph, Projects
<1>7. ManifestArtifactsThere
  BY <1>1, <1>2, <1>4, SequenceRanges DEF ManifestArtifactsThere, Kit, Projects
<1>8. ASSUME "server" \in p.kinds
      PROVE  /\ TheServer = ServerRuntime(p)
             /\ ServerRuntimeOk /\ LauncherOk /\ NativePlanOk /\ RuntimeImageOk /\ NativeDockerfileOk
             /\ LauncherSourceOk /\ RoutesSourceOk /\ RouterSourceOk /\ HandlersSourceOk /\ PackageOk
  <2>1. \A f \in Servers : out[f] = Whole(f, p) /\ Readable(f)
    BY <1>1, <1>8 DEF Kit
  <2>2. /\ TheServer = ServerRuntime(p) /\ Readable("server/app.orv-runtime.json")
        /\ out["server/launch.json"] = ServerLaunch(p) /\ Readable("server/launch.json")
        /\ out["server/native-server.json"] = NativePlan(p)
        /\ out["server/runtime-image.json"] = RuntimeImage(p)
        /\ out["server/native/Dockerfile"] = Fixed
        /\ out["server/native/main.rs"] = LauncherSource(p)
        /\ out["server/native/routes.rs"] = RoutesSource(p)
        /\ out["server/native/router.rs"] = Fixed
        /\ out["server/native/handlers.rs"] = HandlersSource(p)
        /\ out["server/native/Cargo.toml"] = Fixed
    BY <2>1, ServerContents DEF Servers, TheServer
  <2>3. LauncherSourceOk /\ RoutesSourceOk /\ RouterSourceOk /\ HandlersSourceOk /\ PackageOk
    BY <2>2, ServerFilesTell DEF LauncherSourceOk, RoutesSourceOk, RouterSourceOk, HandlersSourceOk, PackageOk, Holds
  <2>4. LauncherOk /\ NativePlanOk /\ RuntimeImageOk /\ NativeDockerfileOk
    BY <2>2, <2>3, ServerFilesTell DEF LauncherOk, NativePlanOk, RuntimeImageOk, NativeDockerfileOk, Holds
  <2>5. OriginContract
    BY <1>4, <1>5, <2>2, ServerFilesTell DEF OriginContract
  <2>6. SourceContract
    <3>1. TheServer.src = p.src /\ TheServer.files = p.files
      BY <2>2 DEF ServerRuntime
    <3> QED
      BY <1>3, <3>1 DEF SourceContract, SourceBundle
  <2> QED
    BY <2>2, <2>3, <2>4, <2>5, <2>6 DEF ServerRuntimeOk
<1>9. ASSUME "client" \in p.kinds
      PROVE  /\ ClientManifestOk /\ ReactivePlanOk /\ ClientPageOk /\ ClientJsOk /\ ClientWasmOk
             /\ out["client/manifest.json"].view = p.view
  <2>1. \A f \in Clients : out[f] = Whole(f, p) /\ Readable(f) /\ There(f)
    BY <1>1, <1>9 DEF Kit
  <2>2. /\ out["client/app.wasm"] = ClientWasm(p) /\ Readable("client/app.wasm")
        /\ out["client/app.js"] = ClientJs(p) /\ Readable("client/app.js")
        /\ out["pages/index.html"] = PageShell
        /\ out["client/reactive-plan.json"] = ReactivePlan(p) /\ Readable("client/reactive-plan.json")
        /\ out["client/manifest.json"] = Whole("client/manifest.json", p) /\ Readable("client/manifest.json")
    BY <1>9, <2>1, ClientContents DEF Clients
  <2>3. /\ out["client/manifest.json"].src = p.src /\ out["client/manifest.json"].view = p.view
        /\ out["client/manifest.json"].wasm = out["client/app.wasm"]
        /\ out["client/manifest.json"].loader = out["client/app.js"]
        /\ out["client/manifest.json"].plan = out["client/reactive-plan.json"]
    BY <2>2, ClientContents
  <2>4. /\ out["client/app.wasm"].src = p.src /\ out["client/app.wasm"].view = p.view
        /\ out["client/reactive-plan.json"].src = p.src /\ out["client/reactive-plan.json"].view = p.view
    BY <2>2 DEF ClientWasm, ReactivePlan
  <2>5. ReactivePlanOk /\ ClientPageOk /\ ClientJsOk /\ ClientWasmOk
    BY <1>4, <2>2, <2>4 DEF ReactivePlanOk, ClientPageOk, ClientJsOk, ClientWasmOk, Holds
  <2>6. ClientManifestOk
    BY <1>4, <2>1, <2>2, <2>3, <2>4, <2>5, SequenceRanges
       DEF ClientManifestOk, ManifestSourceOk, ManifestHashesOk, ManifestCapabilitiesOk, ManifestWasmHashOk,
           ManifestRenderOk
  <2> QED
    BY <2>3, <2>5, <2>6
<1>10. "page" \in p.kinds => StaticPageOk
  BY <1>1 DEF StaticPageOk, Kit
<1>11. BundleTargetsOk
  BY <1>4, <1>8, <1>9, <1>10 DEF BundleTargetsOk, ClientTargetsOk
<1>12. CASE ~prod
  BY <1>2, <1>6, <1>7, <1>11, <1>12, SequenceRanges DEF BuildOk, DeployOk
<1>13. CASE prod
  <2>1. TheDeploy = Whole("deploy/manifest.json", p) /\ Readable("deploy/manifest.json")
    BY <1>1, <1>13 DEF TheDeploy, Kit
  <2>2. /\ TheDeploy.server = IF "server" \in p.kinds THEN DeployServer(p) ELSE NoTarget
        /\ TheDeploy.static = ("page" \in p.kinds) /\ TheDeploy.client = ClientView(p)
    BY <2>1, DeployContents
  <2>3. ASSUME "server" \in p.kinds PROVE DeployServerOk
    <3>1. \A f \in Deploys : out[f] = Whole(f, p) /\ Readable(f)
      BY <1>1, <1>13, <2>3 DEF Kit
    <3>2. /\ out["deploy/server.sh"] = Fixed /\ out["deploy/routes.json"] = DeployRoutes(p)
          /\ out["deploy/container.json"] = DeployContainer(p) /\ out["deploy/Dockerfile"] = DeployDockerfile(p)
          /\ out["deploy/compose.yaml"] = DeployCompose(p) /\ Readable("deploy/compose.yaml")
          /\ out["deploy/env.example"] = DeployEnv(p) /\ Readable("deploy/env.example")
          /\ out["deploy/db-adapters.json"] = DbAdapters(p)
          /\ out["deploy/commerce-adapters.json"] = CommerceAdapters(p)
          /\ out["deploy/smoke-test.sh"] = SmokeTest(p) /\ Readable("deploy/smoke-test.sh")
          /\ out["deploy/preflight.json"] = Preflight(p, ClientView(p))
          /\ out["deploy/benchmark-evidence.json"] = BenchmarkEvidence(p, ClientView(p))
          /\ Readable("deploy/benchmark-evidence.json")
          /\ out["deploy/README.md"] = Runbook(p) /\ Readable("deploy/README.md")
      BY <3>1, DeployContents DEF Deploys
    <3>3. PortGiven(TheServer)
      BY <1>8, <1>13, <2>3, ServerFilesTell DEF Startable, PortGiven
    <3>4. EntrypointOk /\ DeployRoutesOk /\ ContainerOk
      BY <1>8, <2>3, <3>2, ServerFilesTell DEF EntrypointOk, DeployRoutesOk, ContainerOk, Holds
    <3>5. ComposeOk /\ EnvOk
      BY <1>8, <2>3, <3>2, ServerFilesTell DEF ComposeOk, EnvOk, Provides, DeployCompose, DeployEnv
    <3>6. DbAdaptersOk /\ CommerceAdaptersOk
      BY <1>4, <1>5, <1>8, <2>3, <3>2, ServerFilesTell DEF DbAdaptersOk, CommerceAdaptersOk, AdapterOriginsOk, Holds
    <3>7. SmokeTestOk
      BY <1>4, <1>8, <2>2, <2>3, <3>2, ServerFilesTell DEF SmokeTestOk, SmokeTest
    <3>8. PreflightOk /\ EvidenceOk
      BY <1>8, <2>2, <2>3, <3>2, ServerFilesTell DEF PreflightOk, EvidenceOk, BenchmarkEvidence, Holds
    <3>9. RunbookOk
      BY <1>8, <2>2, <2>3, <3>2, ServerFilesTell DEF RunbookOk, Runbook
    <3> QED
      BY <1>8, <2>2, <2>3, <3>3, <3>4, <3>5, <3>6, <3>7, <3>8, <3>9, ServerFilesTell DEF DeployServerOk
  <2>4. ASSUME "server" \notin p.kinds PROVE DeployServerOk
    BY <2>2, <2>4 DEF DeployServerOk
  <2>5. DeployStaticOk
    BY <1>4, <1>10, <2>2 DEF DeployStaticOk
  <2>6. DeployClientOk
    BY <1>9, <2>2 DEF DeployClientOk, ClientView
  <2> QED
    BY <1>2, <1>6, <1>7, <1>11, <2>1, <2>3, <2>4, <2>5, <2>6, SequenceRanges DEF BuildOk, DeployOk
<1> QED
  BY <1>12, <1>13

(* orv verify-build never refuses what orv build has just written: a build  *)
(* that ends well is accepted, in a directory without dev files, and one    *)
(* without --prod in a directory without deploy files (verify_build_dir).   *)
THEOREM WholeBuildsAreAccepted ==
    ASSUME MarkersAssumption
    PROVE  Spec => []WholeBuildAccepted
<1>1. Sourced => WholeBuildAccepted
  <2> SUFFICES ASSUME Sourced, built.program # NoProgram,
                      ~There("dev/session.json"), ~There("dev/watch.json"), ~There("dev/transport.json"),
                      ~There("dev/server.json"), ~There("dev/events.json"),
                      built.prod \/ ~There("deploy/manifest.json")
               PROVE  Verified
    BY DEF WholeBuildAccepted
  <2>1. BuildOk
    BY WholeIsAccepted DEF Sourced, Ended
  <2>2. SessionOk /\ TransportOk /\ HmrServerOk /\ WatchOk /\ EventsOk
    BY DEF SessionOk, TransportOk, HmrServerOk, WatchOk, EventsOk
  <2> QED
    BY <2>1, <2>2 DEF BuildOk, Verified
<1> QED
  BY <1>1, AlwaysSourced, PTL

-----------------------------------------------------------------------------
(* The directory of a loop that sleeps.                                    *)

ThereOrLeft(f) == There(f) \/ f \in Range(left)

\* From the verification on, the build stays as it was verified, and the files of
\* the session and of the loop find beside them what they are verified with, or
\* will once those still to be written are.
Settled ==
    at \in AfterVerify =>
        /\ BuildOk /\ SessionOk /\ WatchOk /\ EventsOk /\ HmrServerOk
        /\ InOrder(left)
        /\ cmd.command.hmr => ThereOrLeft("dev/session.json")
        /\ "dev/transport.json" \in Range(left) =>
             cmd.command.hmr /\ "dev/hmr-client.js" \in Range(left)
        /\ There("dev/transport.json") =>
             /\ There("dev/session.json") /\ Readable("dev/transport.json")
             /\ Readable("dev/hmr-client.js") \/ "dev/hmr-client.js" \in Range(left)
        /\ "dev/events.json" \in Range(left) => events # <<>>
        /\ "dev/server.json" \in Range(left) =>
             There("dev/session.json") /\ ThereOrLeft("dev/events.json")

\* What is verified of a build reads no dev file.
LEMMA BuildOkSame ==
    ASSUME \A f \in Built : out'[f] = out[f], BuildOk
    PROVE  BuildOk'
<1>1. \A f \in Projects \cup Servers \cup Clients \cup Deploys \cup {"deploy/manifest.json"} :
        out'[f] = out[f] /\ There(f)' = There(f) /\ Readable(f)' = Readable(f)
  BY DEF Built, There, Readable
<1>2. /\ \A f \in Range(ProjectFiles) : f \in Projects
      /\ \A f \in Range(ServerFiles) : f \in Servers
      /\ \A f \in Range(ClientFiles) : f \in Clients
  BY SequenceRanges
<1>3. /\ out'["build-manifest.json"] = out["build-manifest.json"]
      /\ out'["bundle-plan.json"] = out["bundle-plan.json"]
      /\ out'["project-graph.json"] = out["project-graph.json"]
      /\ TheOrigins' = TheOrigins /\ TheSource' = TheSource
      /\ Readable("build-manifest.json")' = Readable("build-manifest.json")
      /\ Readable("project-graph.json")' = Readable("project-graph.json")
      /\ \A k : Has(k)' = Has(k)
  BY <1>1 DEF Projects, TheOrigins, TheSource, Has
<1>4. (\A f \in Range(ProjectFiles) : Readable(f))' /\ ProjectGraphOk'
  BY <1>1, <1>2, <1>3 DEF BuildOk, ProjectGraphOk
<1>5. ManifestArtifactsThere'
  <2>1. There("pages/index.html")' = There("pages/index.html")
    BY <1>1 DEF Clients
  <2> QED
    BY <1>1, <1>2, <1>3, <2>1 DEF BuildOk, ManifestArtifactsThere
<1>6. /\ TheServer' = TheServer
      /\ ServerRuntimeOk' = ServerRuntimeOk /\ LauncherOk' = LauncherOk /\ NativePlanOk' = NativePlanOk
      /\ RuntimeImageOk' = RuntimeImageOk /\ NativeDockerfileOk' = NativeDockerfileOk
      /\ LauncherSourceOk' = LauncherSourceOk /\ RoutesSourceOk' = RoutesSourceOk
      /\ RouterSourceOk' = RouterSourceOk /\ HandlersSourceOk' = HandlersSourceOk /\ PackageOk' = PackageOk
  <2>1. /\ out'["server/app.orv-runtime.json"] = out["server/app.orv-runtime.json"]
        /\ out'["server/launch.json"] = out["server/launch.json"]
        /\ out'["server/native-server.json"] = out["server/native-server.json"]
        /\ out'["server/runtime-image.json"] = out["server/runtime-image.json"]
        /\ out'["server/native/Dockerfile"] = out["server/native/Dockerfile"]
        /\ out'["server/native/main.rs"] = out["server/native/main.rs"]
        /\ out'["server/native/routes.rs"] = out["server/native/routes.rs"]
        /\ out'["server/native/router.rs"] = out["server/native/router.rs"]
        /\ out'["server/native/handlers.rs"] = out["server/native/handlers.rs"]
        /\ out'["server/native/Cargo.toml"] = out["server/native/Cargo.toml"]
        /\ Readable("server/app.orv-runtime.json")' = Readable("server/app.orv-runtime.json")
        /\ Readable("server/launch.json")' = Readable("server/launch.json")
    BY <1>1 DEF Servers
  <2>2. TheServer' = TheServer
    BY <2>1 DEF TheServer
  <2>3. /\ OriginContract' = OriginContract /\ SourceContract' = SourceContract
        /\ LauncherOk' = LauncherOk
        /\ RuntimeImageOk' = RuntimeImageOk /\ NativeDockerfileOk' = NativeDockerfileOk
        /\ LauncherSourceOk' = LauncherSourceOk /\ RoutesSourceOk' = RoutesSourceOk
        /\ RouterSourceOk' = RouterSourceOk /\ HandlersSourceOk' = HandlersSourceOk /\ PackageOk' = PackageOk
    BY <1>3, <2>1, <2>2 DEF OriginContract, SourceContract, LauncherOk, RuntimeImageOk,
       NativeDockerfileOk, LauncherSourceOk, RoutesSourceOk, RouterSourceOk, HandlersSourceOk, PackageOk, Holds,
       ServerLaunch, NativePlan, RuntimeImage, LauncherSource, RoutesSource, HandlersSource, Names
  <2>4. ServerRuntimeOk' = ServerRuntimeOk
    BY <2>1, <2>3 DEF ServerRuntimeOk
  <2>5. NativePlanOk' = NativePlanOk
    BY <2>1, <2>2, <2>3 DEF NativePlanOk, Holds, NativePlan
  <2> QED
    BY <2>2, <2>3, <2>4, <2>5
<1>7. /\ StaticPageOk' = StaticPageOk /\ ClientManifestOk' = ClientManifestOk
      /\ ReactivePlanOk' = ReactivePlanOk
      /\ ClientPageOk' = ClientPageOk /\ ClientJsOk' = ClientJsOk /\ ClientWasmOk' = ClientWasmOk
      /\ out'["client/manifest.json"] = out["client/manifest.json"]
  <2>1. /\ \A f \in Clients : out'[f] = out[f] /\ There(f)' = There(f) /\ Readable(f)' = Readable(f)
        /\ Clients = {"client/app.wasm", "client/app.js", "pages/index.html", "client/reactive-plan.json",
                      "client/manifest.json"}
    BY <1>1 DEF Clients
  <2>2. StaticPageOk' = StaticPageOk /\ ClientPageOk' = ClientPageOk /\ ClientJsOk' = ClientJsOk
    BY <2>1 DEF StaticPageOk, ClientPageOk, ClientJsOk, Holds, PageShell
  <2>3. ClientWasmOk' = ClientWasmOk /\ ReactivePlanOk' = ReactivePlanOk
    BY <1>3, <2>1 DEF ClientWasmOk, ReactivePlanOk
  <2>4. ClientManifestOk' = ClientManifestOk
    BY <1>2, <1>3, <2>1, <2>3 DEF ClientManifestOk, ManifestSourceOk, ManifestHashesOk,
       ManifestCapabilitiesOk, ManifestWasmHashOk, ManifestRenderOk
  <2> QED
    BY <2>1, <2>2, <2>3, <2>4
<1>8. BundleTargetsOk'
  BY <1>3, <1>6, <1>7 DEF BuildOk, BundleTargetsOk, ClientTargetsOk
<1>9. DeployOk'
  <2>1. /\ TheDeploy' = TheDeploy
        /\ There("deploy/manifest.json")' = There("deploy/manifest.json")
        /\ Readable("deploy/manifest.json")' = Readable("deploy/manifest.json")
    BY <1>1 DEF TheDeploy
  <2>2. \A f \in Deploys : out'[f] = out[f] /\ Readable(f)' = Readable(f)
    BY <1>1
  <2>3. PortGiven(TheServer)' = PortGiven(TheServer) /\ DeployServer(TheServer)' = DeployServer(TheServer)
    BY <1>6 DEF PortGiven, DeployServer
  <2>4. /\ EntrypointOk' = EntrypointOk /\ DeployRoutesOk' = DeployRoutesOk /\ ContainerOk' = ContainerOk
        /\ ComposeOk' = ComposeOk /\ EnvOk' = EnvOk
        /\ DbAdaptersOk' = DbAdaptersOk /\ CommerceAdaptersOk' = CommerceAdaptersOk
    <3>1. /\ EntrypointOk' = EntrypointOk /\ DeployRoutesOk' = DeployRoutesOk /\ ContainerOk' = ContainerOk
      BY <1>6, <2>2 DEF Deploys, EntrypointOk, DeployRoutesOk, ContainerOk, Holds, Fixed, DeployRoutes,
         DeployContainer, DeployDockerfile
    <3>2. ComposeOk' = ComposeOk /\ EnvOk' = EnvOk
      BY <1>6, <2>2 DEF Deploys, ComposeOk, EnvOk, Provides
    <3>3. DbAdaptersOk' = DbAdaptersOk /\ CommerceAdaptersOk' = CommerceAdaptersOk
      BY <1>3, <1>6, <2>2 DEF Deploys, DbAdaptersOk, CommerceAdaptersOk, AdapterOriginsOk, Holds, DbAdapters,
         CommerceAdapters
    <3> QED
      BY <3>1, <3>2, <3>3
  <2>5. /\ SmokeTestOk' = SmokeTestOk /\ PreflightOk' = PreflightOk /\ EvidenceOk' = EvidenceOk
        /\ RunbookOk' = RunbookOk
    <3>1. SmokeTestOk' = SmokeTestOk
      BY <1>3, <1>6, <2>1, <2>2 DEF Deploys, SmokeTestOk, Names
    <3>2. PreflightOk' = PreflightOk /\ EvidenceOk' = EvidenceOk
      BY <1>6, <2>1, <2>2 DEF Deploys, PreflightOk, EvidenceOk, Holds, Preflight
    <3>3. RunbookOk' = RunbookOk
      BY <1>6, <2>1, <2>2 DEF Deploys, RunbookOk, Names
    <3> QED
      BY <3>1, <3>2, <3>3
  <2>6. DeployServerOk' = DeployServerOk
    BY <1>6, <2>1, <2>3, <2>4, <2>5 DEF DeployServerOk, NoTarget
  <2>7. DeployStaticOk' = DeployStaticOk
    BY <1>3, <1>7, <2>1 DEF DeployStaticOk
  <2>8. DeployClientOk' = DeployClientOk
    BY <1>7, <2>1 DEF DeployClientOk
  <2> QED
    BY <2>1, <2>6, <2>7, <2>8 DEF BuildOk, DeployOk
<1> QED
  BY <1>4, <1>5, <1>8, <1>9 DEF BuildOk

LEMMA DevContents ==
    ASSUME MarkersAssumption, NEW f \in Devs
    PROVE  /\ Now(f) = DevContent(f)
           /\ DevContent(f) \notin {NoFile, Torn}
<1>1. Now(f) = DevContent(f)
  BY SequenceRanges DEF Now
<1>2. \A c : IsContent(c) => c \notin {NoFile, Torn}
  BY DEF MarkersAssumption
<1>3. /\ IsContent(Watched) /\ IsContent(WatchFile(Watched)) /\ IsContent([events |-> events])
      /\ IsContent(Fixed)
  BY DEF IsContent, Watched, WatchFile, Fixed
<1>4. DevContent(f) \in {Watched, WatchFile(Watched), [events |-> events], Fixed}
  BY DEF DevContent
<1> QED
  BY <1>1, <1>2, <1>3, <1>4

\* A file of the session or of the loop is verified with those written before it.
LEMMA WriteSettled ==
    ASSUME MarkersAssumption, Sourced, Settled, Write, at \in AfterVerify
    PROVE  Settled'
<1>1. left # <<>> /\ left' = Tail(left) /\ at' = at /\ cmd' = cmd /\ events' = events
  BY DEF Write
<1>2. left \in Seq(Files) /\ DOMAIN out = Files /\ Range(left) \subseteq Devs
  BY DEF Sourced, Shape
<1>3. PICK f \in Devs : f = Head(left)
  BY <1>1, <1>2, FirstAndRest
<1>4. /\ BuildOk /\ SessionOk /\ WatchOk /\ EventsOk /\ HmrServerOk /\ InOrder(left)
      /\ cmd.command.hmr => ThereOrLeft("dev/session.json")
      /\ "dev/transport.json" \in Range(left) => cmd.command.hmr /\ "dev/hmr-client.js" \in Range(left)
      /\ There("dev/transport.json") =>
             /\ There("dev/session.json") /\ Readable("dev/transport.json")
             /\ Readable("dev/hmr-client.js") \/ "dev/hmr-client.js" \in Range(left)
      /\ "dev/events.json" \in Range(left) => events # <<>>
      /\ "dev/server.json" \in Range(left) => There("dev/session.json") /\ ThereOrLeft("dev/events.json")
  BY DEF Settled
<1>5. /\ f \in Devs /\ f \in Files /\ f \in Range(left) /\ Range(left) = {f} \cup Range(left')
      /\ InOrder(left') /\ \A x \in Range(left) : x \notin Needs(f)
  BY <1>1, <1>2, <1>3, <1>4, SequenceRanges, FirstAndRest
<1>6. DevContent(f) \notin {NoFile, Torn} /\ out'[f] = DevContent(f)
      /\ \A g \in Files : g # f => out'[g] = out[g]
  BY <1>2, <1>3, <1>5, DevContents DEF Write
<1>7. \A g \in Built : out'[g] = out[g]
  BY <1>5, <1>6, BuiltNotDev, SequenceRanges
<1>8. BuildOk'
  BY <1>4, <1>7, BuildOkSame
<1>9. /\ Devs \subseteq Files
      /\ There(f)' /\ Readable(f)'
      /\ \A g \in Devs : There(g) => There(g)'
      /\ \A g \in Devs : Readable(g) => Readable(g)'
      /\ \A g \in Devs : g # f => There(g)' = There(g) /\ out'[g] = out[g]
      /\ \A g \in Devs : ThereOrLeft(g) => ThereOrLeft(g)'
      /\ \A g \in Devs : g \in Range(left) => g = f \/ g \in Range(left')
  <2>1. Devs \subseteq Files /\ There(f)' /\ Readable(f)'
    BY <1>6, SequenceRanges DEF There, Readable
  <2>2. \A g \in Devs : g # f => out'[g] = out[g] /\ There(g)' = There(g) /\ Readable(g)' = Readable(g)
    BY <1>6, <2>1 DEF There, Readable
  <2>3. \A g \in Devs : g \in Range(left) => g = f \/ g \in Range(left')
    BY <1>5
  <2>4. \A g \in Devs : ThereOrLeft(g) => ThereOrLeft(g)'
    BY <2>1, <2>2, <2>3 DEF ThereOrLeft
  <2> QED
    BY <2>1, <2>2, <2>3, <2>4
<1>10. {"dev/session.json", "dev/transport.json", "dev/hmr-client.js", "dev/watch.json", "dev/events.json",
       "dev/server.json"} = Devs
  BY DEF Devs
<1>11. /\ TheSource' = TheSource /\ out'["bundle-plan.json"] = out["bundle-plan.json"]
       /\ Has("client")' = Has("client")
       /\ [src |-> TheSource.src, files |-> TheSource.files] = TheSource
  <2>1. Readable("source-bundle.json")
    BY <1>4, SequenceRanges DEF BuildOk, Projects
  <2>2. PICK p \in Programs : TheSource = SourceBundle(p)
    BY <2>1, SourceIsBundled
  <2>3. TheSource.src = p.src /\ TheSource.files = p.files
    BY <2>2 DEF SourceBundle
  <2>4. [src |-> TheSource.src, files |-> TheSource.files] = TheSource
    BY <2>2, <2>3 DEF SourceBundle
  <2>5. "source-bundle.json" \in Built /\ "bundle-plan.json" \in Built
    BY DEF Built, Projects
  <2> QED
    BY <1>7, <2>4, <2>5 DEF TheSource, Has
<1>12. SessionOk'
  <2>1. CASE f = "dev/session.json"
    <3>1. out'["dev/session.json"] = Watched
      BY <1>6, <2>1 DEF DevContent
    <3>2. /\ out'["dev/session.json"].src = TheSource.src /\ out'["dev/session.json"].files = TheSource.files
          /\ out'["dev/session.json"].kinds = out["bundle-plan.json"].kinds
      BY <3>1 DEF Watched
    <3>3. WatchSetOk(out["dev/session.json"])'
      BY <1>11, <3>2 DEF WatchSetOk
    <3>4. (Has("client") <=> "client" \in out["dev/session.json"].kinds)'
      BY <1>11, <3>2 DEF Has
    <3> QED
      BY <1>9, <2>1, <3>3, <3>4 DEF SessionOk
  <2>2. CASE f # "dev/session.json"
    <3>1. /\ There("dev/session.json")' = There("dev/session.json")
          /\ out'["dev/session.json"] = out["dev/session.json"]
      BY <1>9, <1>10, <2>2
    <3> QED
      BY <1>4, <1>11, <3>1 DEF SessionOk, WatchSetOk, Readable
  <2> QED
    BY <2>1, <2>2
<1>13. WatchOk'
  <2>1. CASE f = "dev/watch.json"
    <3>1. out'["dev/watch.json"] = WatchFile(Watched)
      BY <1>6, <2>1 DEF DevContent
    <3>2. /\ out'["dev/watch.json"].src = TheSource.src /\ out'["dev/watch.json"].files = TheSource.files
          /\ out'["dev/watch.json"].kinds = out["bundle-plan.json"].kinds
      BY <3>1 DEF Watched, WatchFile
    <3>3. WatchSetOk(out["dev/watch.json"])'
      BY <1>11, <3>2 DEF WatchSetOk
    <3>4. (Has("client") <=> "client" \in out["dev/watch.json"].kinds)'
      BY <1>11, <3>2 DEF Has
    <3> QED
      BY <1>9, <2>1, <3>3, <3>4 DEF WatchOk
  <2>2. CASE f # "dev/watch.json"
    <3>1. /\ There("dev/watch.json")' = There("dev/watch.json")
          /\ out'["dev/watch.json"] = out["dev/watch.json"]
      BY <1>9, <1>10, <2>2
    <3> QED
      BY <1>4, <1>11, <3>1 DEF WatchOk, WatchSetOk, Readable
  <2> QED
    BY <2>1, <2>2
<1>14. EventsOk'
  <2>1. CASE f = "dev/events.json"
    <3>1. out'["dev/events.json"].events = events /\ events # <<>>
      BY <1>4, <1>5, <1>6, <2>1 DEF DevContent
    <3> QED
      BY <1>9, <2>1, <3>1 DEF EventsOk
  <2>2. CASE f # "dev/events.json"
    <3>1. /\ There("dev/events.json")' = There("dev/events.json")
          /\ out'["dev/events.json"] = out["dev/events.json"]
      BY <1>9, <1>10, <2>2
    <3> QED
      BY <1>4, <3>1 DEF EventsOk, Readable
  <2> QED
    BY <2>1, <2>2
<1>15. HmrServerOk'
  <2>1. CASE f = "dev/server.json"
    <3>1. There("dev/session.json") /\ ThereOrLeft("dev/events.json")
      BY <1>4, <1>5, <2>1
    <3>2. "dev/events.json" \notin Range(left)
      BY <1>5, <2>1, NeedsOf
    <3>3. There("dev/session.json")' /\ There("dev/events.json")'
      BY <1>9, <1>10, <3>1, <3>2 DEF ThereOrLeft
    <3> QED
      BY <1>9, <2>1, <3>3 DEF HmrServerOk
  <2>2. CASE f # "dev/server.json"
    <3>1. There("dev/server.json")' = There("dev/server.json")
      BY <1>9, <1>10, <2>2
    <3> QED
      BY <1>4, <1>9, <1>10, <3>1 DEF HmrServerOk
  <2> QED
    BY <2>1, <2>2
<1>16. cmd'.command.hmr => ThereOrLeft("dev/session.json")'
  BY <1>1, <1>4, <1>9, <1>10
<1>17. "dev/transport.json" \in Range(left') => cmd'.command.hmr /\ "dev/hmr-client.js" \in Range(left')
  <2> SUFFICES ASSUME "dev/transport.json" \in Range(left')
               PROVE  cmd'.command.hmr /\ "dev/hmr-client.js" \in Range(left')
    OBVIOUS
  <2>1. "dev/transport.json" \in Range(left)
    BY <1>5
  <2>2. f # "dev/hmr-client.js"
    BY <1>5, <2>1, NeedsOf
  <2> QED
    BY <1>1, <1>4, <1>9, <1>10, <2>1, <2>2
<1>18. There("dev/transport.json")' =>
             /\ There("dev/session.json")' /\ Readable("dev/transport.json")'
             /\ Readable("dev/hmr-client.js")' \/ "dev/hmr-client.js" \in Range(left')
  <2>1. CASE f = "dev/transport.json"
    <3>1. /\ cmd.command.hmr /\ "dev/hmr-client.js" \in Range(left)
          /\ "dev/session.json" \notin Range(left)
      BY <1>4, <1>5, <2>1, NeedsOf
    <3>2. There("dev/session.json")
      BY <1>4, <3>1 DEF ThereOrLeft
    <3>3. "dev/hmr-client.js" \in Range(left')
      BY <1>5, <2>1, <3>1
    <3> QED
      BY <1>9, <1>10, <2>1, <3>2, <3>3
  <2>2. CASE f # "dev/transport.json"
    <3>1. There("dev/transport.json")' = There("dev/transport.json")
      BY <1>9, <1>10, <2>2
    <3> QED
      BY <1>4, <1>9, <1>10, <3>1
  <2> QED
    BY <2>1, <2>2
<1>19. "dev/events.json" \in Range(left') => events' # <<>>
  BY <1>1, <1>4, <1>5
<1>20. "dev/server.json" \in Range(left') => There("dev/session.json")' /\ ThereOrLeft("dev/events.json")'
  BY <1>4, <1>5, <1>9, <1>10
<1> QED
  BY <1>5, <1>8, <1>12, <1>13, <1>14, <1>15, <1>16, <1>17, <1>18, <1>19, <1>20 DEF Settled

\* Nothing is written, and what was to be written still is, or there was nothing.
LEMMA QuietSettled ==
    ASSUME Settled, out' = out, cmd' = cmd, left' = left, at \in AfterVerify,
           Range(left) = {} \/ events' = events
    PROVE  Settled'
<1>1. BuildOk'
  BY BuildOkSame DEF Settled
<1>2. SessionOk' /\ WatchOk' /\ EventsOk' /\ HmrServerOk'
  BY DEF Settled, SessionOk, WatchOk, EventsOk, HmrServerOk, WatchSetOk, TheSource, Has, There, Readable
<1>3. InOrder(left')
  BY DEF Settled
<1>4. \A f : /\ ThereOrLeft(f)' = ThereOrLeft(f) /\ There(f)' = There(f) /\ Readable(f)' = Readable(f)
  BY DEF ThereOrLeft, There, Readable
<1>5. "dev/events.json" \in Range(left') => events' # <<>>
  BY DEF Settled
<1> QED
  BY <1>1, <1>2, <1>3, <1>4, <1>5 DEF Settled

\* The verification that a session begins with.
LEMMA VerifySettled ==
    ASSUME Sourced, Verify
    PROVE  Settled'
<1> DEFINE h == IF cmd.command.hmr THEN <<"dev/session.json", "dev/transport.json", "dev/hmr-client.js">>
                                   ELSE <<>>
           w == IF cmd.command.watch THEN <<"dev/watch.json">> ELSE <<>>
<1>1. CASE Verified
  <2>1. at' = "session" /\ left' = h \o w /\ cmd' = cmd /\ out' = out
    BY <1>1 DEF Verify
  <2>2. /\ h \in Seq(Devs) /\ InOrder(h)
        /\ Range(h) = {x \in {"dev/session.json", "dev/transport.json", "dev/hmr-client.js"} : cmd.command.hmr}
    <3>1. CASE cmd.command.hmr
      <4>1. /\ h \in Seq(Devs) /\ Len(h) = 3 /\ h[1] = "dev/session.json" /\ h[2] = "dev/transport.json"
            /\ h[3] = "dev/hmr-client.js"
            /\ Range(h) = {"dev/session.json", "dev/transport.json", "dev/hmr-client.js"}
        BY <3>1 DEF Devs, Range
      <4> HIDE DEF h
      <4>2. Needs(h[1]) = {} /\ Needs(h[2]) = {h[1]} /\ Needs(h[3]) = {h[2]}
        BY <4>1, NeedsOf
      <4>3. InOrder(h)
        BY <4>1, <4>2 DEF InOrder
      <4> QED
        BY <3>1, <4>1, <4>3
    <3>2. CASE ~cmd.command.hmr
      BY <3>2 DEF InOrder, Range
    <3> QED
      BY <3>1, <3>2
  <2>3. w \in Seq(Devs) /\ InOrder(w) /\ Range(w) \subseteq {"dev/watch.json"}
    <3>1. <<"dev/watch.json">> \in Seq(Devs) /\ Range(<<"dev/watch.json">>) = {"dev/watch.json"}
      BY DEF Devs, Range
    <3>2. <<>> \in Seq(Devs) /\ Range(<<>>) = {}
      BY DEF Range
    <3>3. w \in Seq(Devs) /\ Range(w) \subseteq {"dev/watch.json"}
      BY <3>1, <3>2
    <3> HIDE DEF w
    <3>4. InOrder(w)
      BY <3>3, NeedsOf, IndependentInOrder
    <3> QED
      BY <3>3, <3>4
  <2> HIDE DEF h, w
  <2>4. Range(left') = Range(h) \cup Range(w)
    BY <2>1, <2>2, <2>3, RangeConcatenation
  <2>5. \A x \in Range(h) : "dev/watch.json" \notin Needs(x)
    BY <2>2, NeedsOf
  <2>6. InOrder(left')
    BY <2>1, <2>2, <2>3, <2>5, ConcatInOrder
  <2>7. BuildOk /\ SessionOk /\ WatchOk /\ EventsOk /\ HmrServerOk /\ TransportOk
    BY <1>1 DEF Verified, BuildOk
  <2>8. BuildOk'
    BY <2>1, <2>7, BuildOkSame
  <2>9. SessionOk' /\ WatchOk' /\ EventsOk' /\ HmrServerOk'
    BY <2>1, <2>7 DEF SessionOk, WatchOk, EventsOk, HmrServerOk, WatchSetOk, TheSource, Has, There, Readable
  <2>10. There("dev/transport.json")' =>
           There("dev/session.json")' /\ Readable("dev/transport.json")' /\ Readable("dev/hmr-client.js")'
    BY <2>1, <2>7 DEF TransportOk, There, Readable
  <2>11. /\ cmd'.command.hmr => "dev/session.json" \in Range(left')
         /\ "dev/transport.json" \in Range(left') =>
              cmd'.command.hmr /\ "dev/hmr-client.js" \in Range(left')
         /\ "dev/events.json" \notin Range(left') /\ "dev/server.json" \notin Range(left')
    BY <2>1, <2>2, <2>3, <2>4
  <2> QED
    BY <2>6, <2>8, <2>9, <2>10, <2>11 DEF Settled, ThereOrLeft
<1>2. CASE ~Verified
  BY <1>2 DEF Verify, End, Settled, AfterVerify
<1> QED
  BY <1>1, <1>2

\* The loop writes the server's file beside a session: --serve is for --hmr.
LEMMA EventsSettled ==
    ASSUME Sourced, Settled, at \in {"sign", "sleep"}, out' = out, cmd' = cmd, NEW e, WriteEvents(e)
    PROVE  Settled'
<1> DEFINE s == <<"dev/events.json">>
           t == IF cmd.command.serve /\ events = <<>> THEN <<"dev/server.json">> ELSE <<>>
<1>1. left = <<>> /\ Range(left) = {} /\ at \in AfterVerify /\ at # "idle" /\ cmd.command \in Commands
  BY ShortSequences DEF Sourced, Shape, AfterVerify
<1>2. left' = s \o t /\ events' = <<e>>
  BY DEF WriteEvents
<1>3. s \in Seq(Devs) /\ Range(s) = {"dev/events.json"}
  BY DEF Devs, Range
<1>4. t \in Seq(Devs) /\ Range(t) = {x \in {"dev/server.json"} : cmd.command.serve /\ events = <<>>}
  <2>1. <<"dev/server.json">> \in Seq(Devs) /\ Range(<<"dev/server.json">>) = {"dev/server.json"}
    BY DEF Devs, Range
  <2>2. <<>> \in Seq(Devs) /\ Range(<<>>) = {}
    BY DEF Range
  <2> QED
    BY <2>1, <2>2
<1> HIDE DEF s, t
<1>5. InOrder(s) /\ InOrder(t) /\ \A x \in Range(s) : \A y \in Range(t) : y \notin Needs(x)
  <2>1. Needs("dev/events.json") = {} /\ "dev/server.json" \notin Needs("dev/server.json")
    BY NeedsOf
  <2>2. InOrder(s)
    BY <1>3, <2>1, IndependentInOrder
  <2>3. InOrder(t)
    BY <1>4, <2>1, IndependentInOrder
  <2> QED
    BY <1>3, <2>1, <2>2, <2>3
<1>6. InOrder(left') /\ Range(left') = Range(s) \cup Range(t)
  BY <1>2, <1>3, <1>4, <1>5, ConcatInOrder, RangeConcatenation
<1>7. BuildOk'
  BY <1>1, BuildOkSame DEF Settled
<1>8. SessionOk' /\ WatchOk' /\ EventsOk' /\ HmrServerOk'
  BY <1>1 DEF Settled, SessionOk, WatchOk, EventsOk, HmrServerOk, WatchSetOk, TheSource, Has, There, Readable
<1>9. cmd.command.hmr => There("dev/session.json")
  BY <1>1 DEF Settled, ThereOrLeft
<1>10. cmd.command.serve => There("dev/session.json")
  BY <1>1, <1>9, CommandsAssumption
<1>11. \A f : There(f)' = There(f) /\ Readable(f)' = Readable(f)
  BY DEF There, Readable
<1>12. There("dev/transport.json") =>
         There("dev/session.json") /\ Readable("dev/transport.json") /\ Readable("dev/hmr-client.js")
  BY <1>1 DEF Settled
<1>13. events' # <<>>
  BY <1>2
<1>14. /\ "dev/events.json" \in Range(left') /\ "dev/transport.json" \notin Range(left')
       /\ "dev/server.json" \in Range(left') => There("dev/session.json")
  BY <1>3, <1>4, <1>6, <1>10
<1> QED
  BY <1>6, <1>7, <1>8, <1>9, <1>11, <1>12, <1>13, <1>14 DEF Settled, ThereOrLeft

LEMMA NextSettled ==
    ASSUME MarkersAssumption, Sourced, Settled, [Next]_vars
    PROVE  Settled'
<1>1. /\ at \in {"idle", "load", "write", "verify"} \cup AfterVerify
      /\ at \notin {"write", "session", "events"} => left = <<>>
      /\ Range(<<>>) = {}
  BY ShortSequences DEF Sourced, Shape
<1>2. End => Settled'
  BY DEF End, Settled, AfterVerify
<1>3. CASE Load
  BY <1>2, <1>3 DEF Load, Settled, AfterVerify
<1>4. CASE Write
  BY <1>4, WriteSettled DEF Write, Settled
<1>5. CASE EndBuild
  BY <1>2, <1>5 DEF EndBuild, Settled, AfterVerify
<1>6. CASE Verify
  BY <1>6, VerifySettled
<1>7. CASE EndSession
  BY <1>7, QuietSettled DEF EndSession, AfterVerify
<1>8. CASE Run
  BY <1>1, <1>2, <1>8, QuietSettled DEF Run, AfterVerify
<1>9. CASE Sign
  <2>1. CASE End
    BY <1>2, <2>1
  <2>2. CASE WriteEvents([action |-> "build-verify-run", signature |-> Signature]) /\ cmd' = cmd
    BY <1>9, <2>2, EventsSettled DEF Sign
  <2> QED
    BY <1>9, <2>1, <2>2 DEF Sign
<1>10. CASE EndIteration
  BY <1>1, <1>2, <1>10, QuietSettled DEF EndIteration, AfterVerify
<1>11. CASE Poll
  <2>1. CASE End
    BY <1>2, <2>1
  <2>2. CASE WriteEvents([action |-> "skip"]) /\ cmd' = cmd
    BY <1>11, <2>2, EventsSettled DEF Poll
  <2>3. CASE at' = "load"
    BY <2>3 DEF Settled, AfterVerify
  <2> QED
    BY <1>11, <2>1, <2>2, <2>3 DEF Poll
<1>12. CASE Abort
  BY <1>2, <1>12 DEF Abort
<1>13. ASSUME NEW p \in Sources, Edit(p)
       PROVE  Settled'
  <2>1. out' = out /\ at' = at /\ cmd' = cmd /\ left' = left /\ events' = events
    BY <1>13 DEF Edit
  <2> QED
    BY <2>1, QuietSettled DEF Settled
<1>14. ASSUME NEW c \in Commands, Begin(c)
       PROVE  Settled'
  BY <1>14 DEF Begin, Settled, AfterVerify
<1>15. CASE UNCHANGED vars
  <2>1. out' = out /\ at' = at /\ cmd' = cmd /\ left' = left /\ events' = events
    BY <1>15 DEF vars
  <2> QED
    BY <2>1, QuietSettled DEF Settled
<1> QED
  BY <1>3, <1>4, <1>5, <1>6, <1>7, <1>8, <1>9, <1>10, <1>11, <1>12, <1>13, <1>14, <1>15 DEF Next, Step

(* Whenever the watch loop sleeps, its directory verifies, the dev files    *)
(* included, whatever commands left in it before and whatever is edited     *)
(* meanwhile (write_dev_hmr_session, write_dev_watch_session, the events    *)
(* and the HMR server's file of the loop, verify_build_dir).                *)
THEOREM SleepingLoopIsVerified ==
    ASSUME MarkersAssumption
    PROVE  Spec => []SleepingDirVerifies
<1>1. Init => Settled
  BY DEF Init, Settled, AfterVerify
<1>2. Sourced /\ Settled /\ [Next]_vars => Settled'
  BY NextSettled
<1>3. Sourced /\ Settled => SleepingDirVerifies
  <2> SUFFICES ASSUME Sourced, Settled, at = "sleep"
               PROVE  Verified
    BY DEF SleepingDirVerifies
  <2>1. Range(left) = {}
    BY ShortSequences DEF Sourced, Shape
  <2>2. TransportOk
    BY <2>1 DEF Settled, TransportOk, AfterVerify
  <2> QED
    BY <2>2 DEF Settled, Verified, BuildOk, AfterVerify
<1> QED
  BY <1>1, <1>2, <1>3, AlwaysSourced, PTL DEF Spec
=============================================================================
