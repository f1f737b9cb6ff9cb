------------------------------- MODULE MCLsp --------------------------------
(* Instance of OrvLsp for TLC: the entry main.orv, a module lib that may be   *)
(* lib.orv or lib/mod.orv, a cycle of main and lib, and a module that is not  *)
(* there when lib/mod.orv is not.                                             *)
EXTENDS OrvLsp, TLC

Files == {"main", "lib", "libmod"}
Names == {"lib", "main", "libmod"}
Where == [m \in Names |-> CASE m = "main" -> <<"main">>
                            [] m = "lib" -> <<"lib", "libmod">>
                            [] m = "libmod" -> <<"libmod">>]
text(version, imports) == [version |-> version, imports |-> imports]
SomeTexts ==
  [p \in Files |-> CASE p = "main" -> {text(1, <<>>), text(3, <<"libmod", "lib">>)}
                     [] p = "lib" -> {text(2, <<"main">>), text(3, <<"libmod">>)}
                     [] p = "libmod" -> {text(1, <<>>), text(2, <<"lib">>)}]
==============================================================================
