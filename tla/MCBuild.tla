------------------------------ MODULE MCBuild ------------------------------
(* Instance of OrvBuild for TLC: an API with a database, the same with      *)
(* another answer, a shop with a page that runs in the browser and payments, *)
(* a server on a test port, and two pages without a server, of which one     *)
(* runs in the browser.                                                      *)
EXTENDS OrvBuild

get  == <<"route", "GET /">>
post == <<"route", "POST /">>
db  == <<"db", "wal">>
pay == <<"commerce", "pay">>

api(src, answer) ==
  [kinds |-> {"server"}, src |-> src, files |-> {"main"}, routes |-> {<<get, answer>>}, listen |-> 80,
   features |-> {"http"}, origins |-> {get, db}, stores |-> {db}, view |-> NoView]
shop ==
  [kinds |-> {"server", "client"}, src |-> "shop", files |-> {"main", "cart"},
   routes |-> {<<get, "list">>, <<post, "sold">>}, listen |-> 80, features |-> {"http", "html"},
   origins |-> {get, post, db, pay}, stores |-> {db, pay}, view |-> "cart"]
page(src, view, kind) ==
  [kinds |-> {kind}, src |-> src, files |-> {"main"}, routes |-> {}, listen |-> NoPort,
   features |-> {"html"}, origins |-> {}, stores |-> {}, view |-> view]
trial == [api("trial", "hi") EXCEPT !.listen = 0]

BuildPrograms == {api("api1", "hi"), api("api2", "hello"), shop, page("home", "home", "page")}
DevPrograms   == {page("home", "home", "page"), page("app", "app", "client"), trial}
AllPrograms   == BuildPrograms \cup DevPrograms

command(dev, hmr, watch, loop, serve, limited) ==
  [dev |-> dev, prod |-> FALSE, hmr |-> hmr, watch |-> watch, loop |-> loop, serve |-> serve, limited |-> limited]
build    == command(FALSE, FALSE, FALSE, FALSE, FALSE, FALSE)
AllCommands ==
  {build, [build EXCEPT !.prod = TRUE], command(TRUE, FALSE, TRUE, TRUE, FALSE, TRUE), command(TRUE, TRUE, TRUE, TRUE, TRUE, FALSE)}
=============================================================================
