------------------------------ MODULE MCMigrate ------------------------------
(* Instance of OrvMigrate for TLC: a field renamed (dropped and added), a    *)
(* type changed, a struct added and dropped again.                           *)
EXTENDS OrvMigrate

user(fields) == [t \in {"User"} |-> fields]
FourVersions ==
  {user([f \in {"mail"} |-> "int"]), user([f \in {"mail"} |-> "string"]), user([f \in {"name"} |-> "string"]),
   [t \in {"User", "Note"} |-> [f \in {"name"} |-> "string"]]}
UserAndNote == {"User", "Note"}
==============================================================================
