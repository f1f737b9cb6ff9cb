---------------------------- MODULE OrvArtifacts ----------------------------
(***************************************************************************)
(* The files of an output directory: what `orv build` writes into each,    *)
(* and what `orv verify-build` demands of it (orv-cli/build_deploy.rs,     *)
(* orv-compiler).                                                          *)
(*                                                                         *)
(* A program is a record of what files of a build repeat of it.  A file is *)
(* the record of what it repeats: two builds write the same file when they *)
(* agree on that.  Files are written in place, so a build cut short leaves *)
(* Torn, which no parser takes and no comparison accepts.                  *)
(***************************************************************************)
EXTENDS Naturals, Sequences, SequencesExt

CONSTANTS
  Programs,  \* the sources a project has over time, as records (see below)
  Broken,    \* source that does not parse, resolve or lower
  NoFile, Torn,
  NoView,    \* no page for the browser
  NoPort     \* no @listen

\* kinds: what there is to build; src: a hash of the sources, files: their paths;
\* routes: pairs of a route's name and answer; listen: the port; features: of
\* the runtime; origins: names in the origin map, of routes and of connect calls;
\* stores: what deploys must provide (volumes, variables); view: the page.
Facets == {"kinds", "src", "files", "routes", "listen", "features", "origins", "stores", "view"}

Names(routes) == {r[1] : r \in routes}

ASSUME ProgramsAssumption ==
  \A p \in Programs :
    /\ DOMAIN p = Facets
    /\ p.kinds \subseteq {"server", "page", "client"}
    /\ ~({"page", "client"} \subseteq p.kinds)
    /\ ("page" \in p.kinds) => ("server" \notin p.kinds)
    /\ Names(p.routes) \cup p.stores \subseteq p.origins
    /\ ("server" \notin p.kinds) => (p.routes = {} /\ p.listen = NoPort /\ p.stores = {})
    /\ \A q \in Programs : p.src = q.src => p = q

VARIABLE out  \* the content of each file of the output directory

ClientView(p) == IF "client" \in p.kinds THEN p.view ELSE NoView

-----------------------------------------------------------------------------
(* What a build writes.                                                    *)

BuildManifest(p) == [kinds |-> p.kinds]
BundlePlan(p)    == [kinds |-> p.kinds, features |-> p.features]
OriginMap(p)     == [origins |-> p.origins]
ProjectGraph(p)  == [origins |-> p.origins, files |-> p.files]
SourceBundle(p)  == [src |-> p.src, files |-> p.files]

ServerRuntime(p) ==
  [src |-> p.src, files |-> p.files, routes |-> p.routes, listen |-> p.listen, features |-> p.features,
   stores |-> p.stores]
ServerLaunch(p)  == [routes |-> p.routes, listen |-> p.listen]
NativePlan(p)    == [routes |-> p.routes, listen |-> p.listen, features |-> p.features]
RuntimeImage(p)  == [features |-> p.features]
LauncherSource(a) == [listen |-> a.listen]
RoutesSource(a)   == [names |-> Names(a.routes)]
HandlersSource(a) == [routes |-> a.routes]
Fixed             == [fixed |-> TRUE]  \* files that do not depend on the program

StaticPage(p)    == [view |-> p.view]
PageShell        == [shell |-> TRUE]
ClientWasm(p)    == [src |-> p.src, view |-> p.view]
ClientJs(p)      == [src |-> p.src, view |-> p.view]
ReactivePlan(p)  == [src |-> p.src, view |-> p.view]

\* The hashes are those of the files that are there when the manifest is written.
ClientManifest(p) ==
  [src |-> p.src, view |-> p.view, wasm |-> out["client/app.wasm"], loader |-> out["client/app.js"],
   plan |-> out["client/reactive-plan.json"]]

\* deploy_routes, container, ports and Dockerfile, compose, env and the adapters.
DeployRoutes(a)    == [routes |-> a.routes]
DeployContainer(a) == [listen |-> a.listen, stores |-> a.stores]
DeployDockerfile(a) == [listen |-> a.listen]
DeployCompose(a)   == [listen |-> a.listen, stores |-> a.stores]
DeployEnv(a)       == [listen |-> a.listen, stores |-> a.stores]
DbAdapters(a)      == [stores |-> {s \in a.stores : s[1] = "db"}]
CommerceAdapters(a) == [stores |-> {s \in a.stores : s[1] = "commerce"}]

SmokeTest(p) ==
  [listen |-> p.listen, names |-> Names(p.routes), origins |-> p.origins, files |-> p.files,
   stores |-> p.stores, client |-> ClientView(p)]
Preflight(a, client) ==
  [features |-> a.features, listen |-> a.listen, routes |-> a.routes, stores |-> a.stores, client |-> client]
\* Evidence of the benchmark: bound to the preflight, and not recorded yet.
BenchmarkEvidence(a, client) == [preflight |-> Preflight(a, client), recorded |-> FALSE]
Runbook(p) ==
  [listen |-> p.listen, names |-> Names(p.routes), stores |-> p.stores, client |-> ClientView(p)]

DeployServer(a) == [routes |-> a.routes, listen |-> a.listen, features |-> a.features, stores |-> a.stores]
NoTarget        == [none |-> TRUE]
DeployManifest(p) ==
  [server |-> IF "server" \in p.kinds THEN DeployServer(p) ELSE NoTarget,
   static |-> "page" \in p.kinds,
   client |-> IF "client" \in p.kinds THEN out["client/manifest.json"].view ELSE NoView]

Content(f, p) ==
  CASE f = "build-manifest.json"         -> BuildManifest(p)
    [] f = "bundle-plan.json"            -> BundlePlan(p)
    [] f = "origin-map.json"             -> OriginMap(p)
    [] f = "project-graph.json"          -> ProjectGraph(p)
    [] f = "source-bundle.json"          -> SourceBundle(p)
    [] f = "server/app.orv-runtime.json" -> ServerRuntime(p)
    [] f = "server/launch.json"          -> ServerLaunch(p)
    [] f = "server/native-server.json"   -> NativePlan(p)
    [] f = "server/runtime-image.json"   -> RuntimeImage(p)
    [] f = "server/native/main.rs"       -> LauncherSource(p)
    [] f = "server/native/routes.rs"     -> RoutesSource(p)
    [] f = "server/native/handlers.rs"   -> HandlersSource(p)
    [] f = "pages/index.html"            -> IF "client" \in p.kinds THEN PageShell ELSE StaticPage(p)
    [] f = "client/app.wasm"             -> ClientWasm(p)
    [] f = "client/app.js"               -> ClientJs(p)
    [] f = "client/reactive-plan.json"   -> ReactivePlan(p)
    [] f = "client/manifest.json"        -> ClientManifest(p)
    [] f = "deploy/routes.json"          -> DeployRoutes(p)
    [] f = "deploy/container.json"       -> DeployContainer(p)
    [] f = "deploy/Dockerfile"           -> DeployDockerfile(p)
    [] f = "deploy/compose.yaml"         -> DeployCompose(p)
    [] f = "deploy/env.example"          -> DeployEnv(p)
    [] f = "deploy/db-adapters.json"     -> DbAdapters(p)
    [] f = "deploy/commerce-adapters.json"  -> CommerceAdapters(p)
    [] f = "deploy/smoke-test.sh"        -> SmokeTest(p)
    [] f = "deploy/preflight.json"       -> Preflight(p, ClientView(p))
    [] f = "deploy/benchmark-evidence.json" -> BenchmarkEvidence(p, ClientView(p))
    [] f = "deploy/README.md"            -> Runbook(p)
    [] f = "deploy/manifest.json"        -> DeployManifest(p)
    [] OTHER                             -> Fixed

-----------------------------------------------------------------------------
(* The files of a build, in the order they are written.                    *)

ProjectFiles == <<"build-manifest.json", "bundle-plan.json", "origin-map.json", "project-graph.json",
                  "source-bundle.json">>
ServerFiles  == <<"server/app.orv-runtime.json", "server/launch.json", "server/native-server.json",
                  "server/runtime-image.json", "server/native/Dockerfile", "server/native/main.rs",
                  "server/native/routes.rs", "server/native/router.rs", "server/native/handlers.rs",
                  "server/native/Cargo.toml">>
ClientFiles  == <<"client/app.wasm", "client/app.js", "pages/index.html", "client/reactive-plan.json",
                  "client/manifest.json">>
DeployServerFiles ==
  <<"deploy/server.sh", "deploy/routes.json", "deploy/container.json", "deploy/Dockerfile",
    "deploy/compose.yaml", "deploy/env.example", "deploy/db-adapters.json",
    "deploy/commerce-adapters.json", "deploy/smoke-test.sh", "deploy/preflight.json",
    "deploy/benchmark-evidence.json", "deploy/README.md">>

\* The deploy manifest is written only when the program has a server.
Bug_DeployFiles(p) ==
  IF "server" \in p.kinds THEN Append(DeployServerFiles, "deploy/manifest.json") ELSE <<>>

\* write_prod_deploy_artifacts
DeployFiles(p) ==
  (IF "server" \in p.kinds THEN DeployServerFiles ELSE <<>>) \o <<"deploy/manifest.json">>

\* cmd_build_with_profile, once the program is loaded and accepted
BuildFiles(p, prod) ==
  ProjectFiles
  \o (IF "server" \in p.kinds THEN ServerFiles ELSE <<>>)
  \o (IF "page"   \in p.kinds THEN <<"pages/index.html">> ELSE <<>>)
  \o (IF "client" \in p.kinds THEN ClientFiles ELSE <<>>)
  \o (IF prod THEN DeployFiles(p) ELSE <<>>)

DevFiles  == <<"dev/session.json", "dev/transport.json", "dev/hmr-client.js", "dev/watch.json",
               "dev/events.json", "dev/server.json">>

Files == (UNION {Range(s) : s \in {ProjectFiles, ServerFiles, ClientFiles, DeployServerFiles, DevFiles}})
         \cup {"deploy/manifest.json"}

-----------------------------------------------------------------------------
(* orv verify-build                                                        *)

There(f)    == out[f] # NoFile
Readable(f) == out[f] \notin {NoFile, Torn}
Holds(f, content) == out[f] = content

TheServer == out["server/app.orv-runtime.json"]
TheSource == out["source-bundle.json"]
TheOrigins == out["origin-map.json"].origins
Has(kind)  == kind \in out["bundle-plan.json"].kinds

\* verify_manifest_artifacts: only whether the files are there.
ManifestArtifactsThere ==
  /\ Readable("build-manifest.json")
  /\ LET kinds == out["build-manifest.json"].kinds
     IN  /\ "server" \in kinds => \A f \in Range(ServerFiles) : There(f)
         /\ "client" \in kinds => \A f \in Range(ClientFiles) : There(f)
         /\ "page" \in kinds => There("pages/index.html")

ProjectGraphOk ==
  /\ Readable("project-graph.json")
  /\ out["project-graph.json"] = [origins |-> TheOrigins, files |-> TheSource.files]

\* verify_server_runtime_origin_contract
OriginContract == Names(TheServer.routes) \subseteq TheOrigins

\* verify_server_runtime_source_bundle_contract
SourceContract == [src |-> TheServer.src, files |-> TheServer.files] = TheSource

ServerRuntimeOk == Readable("server/app.orv-runtime.json") /\ OriginContract /\ SourceContract

LauncherOk ==
  /\ Readable("server/launch.json") /\ Readable("server/app.orv-runtime.json")
  /\ Holds("server/launch.json", ServerLaunch(TheServer))

LauncherSourceOk == Holds("server/native/main.rs", LauncherSource(TheServer))
RoutesSourceOk   == Holds("server/native/routes.rs", RoutesSource(TheServer))
RouterSourceOk   == Holds("server/native/router.rs", Fixed)

\* The file is there.
Bug_HandlersSourceThere == There("server/native/handlers.rs")

HandlersSourceOk == Holds("server/native/handlers.rs", HandlersSource(TheServer))
PackageOk        == Holds("server/native/Cargo.toml", Fixed)
NativeDockerfileOk == Holds("server/native/Dockerfile", Fixed)
RuntimeImageOk   == Holds("server/runtime-image.json", RuntimeImage(TheServer))

NativePlanOk ==
  /\ LauncherSourceOk /\ RoutesSourceOk /\ RouterSourceOk /\ HandlersSourceOk /\ PackageOk
  /\ Readable("server/launch.json")
  /\ Holds("server/native-server.json", NativePlan(TheServer))

\* verify_static_page_target: html of any program, and of any length
StaticPageOk == Readable("pages/index.html")

ClientPageOk == Holds("pages/index.html", PageShell)
ClientJsOk   == Readable("client/app.js")
ClientWasmOk == Readable("client/app.wasm") /\ out["client/app.wasm"].src = TheSource.src
ReactivePlanOk ==
  /\ Readable("client/reactive-plan.json")
  /\ out["client/reactive-plan.json"].src = TheSource.src

ManifestSourceOk == out["client/manifest.json"].src = TheSource.src
ManifestHashesOk ==
  /\ out["client/manifest.json"].loader = out["client/app.js"]
  /\ out["client/manifest.json"].plan = out["client/reactive-plan.json"]
ManifestCapabilitiesOk == out["client/manifest.json"].view = out["client/reactive-plan.json"].view
ManifestWasmHashOk   == out["client/manifest.json"].wasm = out["client/app.wasm"]
ManifestRenderOk     == out["client/manifest.json"].view = out["client/app.wasm"].view

ClientManifestOk ==
  /\ Readable("client/manifest.json")
  /\ \A f \in Range(ClientFiles) : There(f)
  /\ ManifestSourceOk /\ ManifestHashesOk
  /\ ReactivePlanOk /\ ManifestCapabilitiesOk
  /\ ManifestWasmHashOk
  /\ Readable("client/app.wasm") /\ ManifestRenderOk

ClientTargetsOk == ClientManifestOk /\ ReactivePlanOk /\ ClientPageOk /\ ClientJsOk /\ ClientWasmOk

BundleTargetsOk ==
  /\ Has("server") =>
       /\ ServerRuntimeOk /\ LauncherOk /\ NativePlanOk /\ RuntimeImageOk /\ NativeDockerfileOk
       /\ LauncherSourceOk /\ RoutesSourceOk /\ RouterSourceOk /\ HandlersSourceOk /\ PackageOk
  /\ Has("page") => StaticPageOk
  /\ Has("client") => ClientTargetsOk

-----------------------------------------------------------------------------
(* The deploy files, when there is a deploy manifest.                      *)

TheDeploy == out["deploy/manifest.json"]

\* validate_prod_server_listen
PortGiven(a) == a.listen # 0

EntrypointOk == Holds("deploy/server.sh", Fixed)
DeployRoutesOk == Holds("deploy/routes.json", DeployRoutes(TheServer))
ContainerOk ==
  /\ Holds("deploy/container.json", DeployContainer(TheServer))
  /\ Holds("deploy/Dockerfile", DeployDockerfile(TheServer))

\* The lines of the server's port, variables and volumes are among those there.
Provides(f) ==
  /\ Readable(f)
  /\ TheServer.listen # NoPort => out[f].listen = TheServer.listen
  /\ TheServer.stores \subseteq out[f].stores
ComposeOk == Provides("deploy/compose.yaml")
EnvOk     == Provides("deploy/env.example")

\* The adapters' source_origin_ids are calls of the origin map.
AdapterOriginsOk == TheServer.stores \subseteq TheOrigins
DbAdaptersOk == Holds("deploy/db-adapters.json", DbAdapters(TheServer)) /\ AdapterOriginsOk
CommerceAdaptersOk == Holds("deploy/commerce-adapters.json", CommerceAdapters(TheServer)) /\ AdapterOriginsOk

\* The script names every route, and counts what the graph, the bundle and the
\* origin map have.
SmokeTestOk ==
  /\ Readable("deploy/smoke-test.sh")
  /\ LET smoke == out["deploy/smoke-test.sh"]
     IN  /\ Names(TheServer.routes) \subseteq smoke.names
         /\ smoke.listen = TheServer.listen
         /\ smoke.origins = TheOrigins
         /\ smoke.files = TheServer.files
         /\ TheServer.stores \subseteq smoke.stores
         /\ TheDeploy.client # NoView => smoke.client = TheDeploy.client

PreflightOk == Holds("deploy/preflight.json", Preflight(TheServer, TheDeploy.client))
EvidenceOk ==
  /\ Readable("deploy/benchmark-evidence.json")
  /\ out["deploy/benchmark-evidence.json"].preflight = Preflight(TheServer, TheDeploy.client)
RunbookOk ==
  /\ Readable("deploy/README.md")
  /\ LET runbook == out["deploy/README.md"]
     IN  /\ Names(TheServer.routes) \subseteq runbook.names
         /\ TheServer.stores \subseteq runbook.stores
         /\ TheServer.listen # NoPort => runbook.listen = TheServer.listen
         /\ TheDeploy.client # NoView => runbook.client = TheDeploy.client

\* verify_deploy_server_target
DeployServerOk ==
  TheDeploy.server # NoTarget =>
    /\ EntrypointOk
    /\ ServerRuntimeOk /\ PortGiven(TheServer)
    /\ DeployRoutesOk
    /\ NativePlanOk /\ RuntimeImageOk /\ RoutesSourceOk /\ RouterSourceOk /\ HandlersSourceOk
    /\ ContainerOk /\ ComposeOk /\ EnvOk /\ DbAdaptersOk /\ CommerceAdaptersOk
    /\ SmokeTestOk /\ PreflightOk /\ EvidenceOk /\ RunbookOk
    /\ TheDeploy.server = DeployServer(TheServer)

DeployStaticOk == (TheDeploy.static <=> Has("page")) /\ (TheDeploy.static => StaticPageOk)

DeployClientOk ==
  TheDeploy.client # NoView =>
    /\ ClientManifestOk /\ ReactivePlanOk
    /\ TheDeploy.client = out["client/manifest.json"].view
    /\ ClientPageOk /\ ClientJsOk /\ ClientWasmOk

DeployOk ==
  There("deploy/manifest.json") =>
    Readable("deploy/manifest.json") /\ DeployServerOk /\ DeployStaticOk /\ DeployClientOk

-----------------------------------------------------------------------------
(* The dev files, each when it is there.                                   *)

\* verify_dev_watch_set: the sources and the targets of the build are watched.
WatchSetOk(s) ==
  /\ [src |-> s.src, files |-> s.files] = TheSource
  /\ out["bundle-plan.json"].kinds \subseteq s.kinds

SessionOk ==
  There("dev/session.json") =>
    /\ Readable("dev/session.json")
    /\ WatchSetOk(out["dev/session.json"])
    /\ Has("client") <=> "client" \in out["dev/session.json"].kinds
TransportOk ==
  There("dev/transport.json") =>
    There("dev/session.json") /\ Readable("dev/transport.json") /\ Readable("dev/hmr-client.js")
HmrServerOk ==
  There("dev/server.json") =>
    There("dev/session.json") /\ There("dev/events.json") /\ Readable("dev/server.json")
WatchOk ==
  There("dev/watch.json") =>
    /\ Readable("dev/watch.json")
    /\ WatchSetOk(out["dev/watch.json"])
    /\ out["dev/watch.json"].hmr => (Has("client") <=> "client" \in out["dev/watch.json"].kinds)
EventsOk ==
  There("dev/events.json") => Readable("dev/events.json") /\ out["dev/events.json"].events # <<>>

\* verify_build_dir
Verified ==
  /\ \A f \in Range(ProjectFiles) : Readable(f)
  /\ ProjectGraphOk
  /\ BundleTargetsOk
  /\ ManifestArtifactsThere
  /\ DeployOk
  /\ SessionOk /\ TransportOk /\ HmrServerOk /\ WatchOk /\ EventsOk
==============================================================================
