------------------------------ MODULE MCInterp ------------------------------
(***************************************************************************)
(* Instances of OrvInterp for TLC: a client that has nothing and one that  *)
(* has everything.                                                         *)
(***************************************************************************)
EXTENDS OrvInterp

Client(has) == [session |-> has, role |-> has, token |-> has, valid |-> has]
TwoClients  == {Client(FALSE), Client(TRUE)}

AllStatements ==
  {"write", "respond", "policy", "return", "loop", "throw", "after", "if", "try",
   "call", "domain", "html", "unsafe", "transaction", "job", "cron"}
==============================================================================
