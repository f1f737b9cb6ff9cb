----------------------------- MODULE OrvMigrate -----------------------------
(***************************************************************************)
(* `orv db apply | migrate | rollback | backup | restore` (orv-cli/db.rs)  *)
(* and the schema diff they use (orv-cli/main.rs).  A command is a process *)
(* that replaces several JSON files one after the other, each atomically   *)
(* (a temporary file, then a rename); it may be killed, or fail to write,  *)
(* between any two of them.  One command runs at a time.                   *)
(*                                                                         *)
(* A schema gives each of its structs the types of its fields.  The data   *)
(* file gives each of its tables the fields of its rows and whether a      *)
(* field still holds what the program stored; all rows of a table have the *)
(* same fields, and a table may have no row.                               *)
(***************************************************************************)
EXTENDS Naturals, Sequences, SequencesExt

CONSTANTS
  Versions,   \* the schemas the project's source has over time
  Tables,     \* the structs named by some version
  NoFile,     \* the file does not exist
  NoRows,     \* a table without rows
  MaxCommands,\* bound: commands started
  MaxAborts   \* bound: commands that are killed or fail

ASSUME VersionsAssumption ==
  /\ \A v \in Versions : DOMAIN v \subseteq Tables
  /\ NoFile \notin Versions

VARIABLES
  schema, schemaRb,  \* the schema file and its .rollback
  data, dataRb,      \* the data file and its .rollback
  history,           \* the actions of each entry of the history file
  backup,            \* the file written by db backup
  cmd,               \* the command under way: its name and the writes left
  started, aborts,   \* bounds: commands started, commands cut short
  before,            \* schema and data when the last migrate or restore began,
                     \* and whether the data is to be kept
  only               \* what was not done so far: aborts, commands on one file, ...

vars == <<schema, schemaRb, data, dataRb, history, backup, cmd, started, aborts, before, only>>
files == <<schema, schemaRb, data, dataRb, history, backup>>

Idle == [name |-> "none", writes |-> <<>>]

-----------------------------------------------------------------------------
(* Diffs and migrated data.                                                *)

\* empty_db_schema_snapshot, for a schema file that is not there.
SchemaOf(file) == IF file = NoFile THEN [t \in {} |-> <<>>] ELSE file

Fields(s, t) == DOMAIN s[t]

\* The tables of a data file that have rows.
Rows(d) == {t \in DOMAIN d : d[t] # NoRows}

\* db_schema_diff_actions and diff_schema_fields, as the set of actions: no two
\* of them are about the same field, so their order does not matter.
Diff(old, new) ==
  LET Action(kind, t, fields) == [kind |-> kind, table |-> t, fields |-> fields]
      OfBoth(t) ==
        {Action("add_field", t, {f}) : f \in Fields(new, t) \ Fields(old, t)}
        \cup {Action("drop_field", t, {f}) : f \in Fields(old, t) \ Fields(new, t)}
        \cup {Action("change_field", t, {f}) :
                 f \in {g \in Fields(new, t) \cap Fields(old, t) : new[t][g] # old[t][g]}}
  IN  {Action("create_struct", t, Fields(new, t)) : t \in DOMAIN new \ DOMAIN old}
      \cup {Action("drop_struct", t, {}) : t \in DOMAIN old \ DOMAIN new}
      \cup UNION {OfBoth(t) : t \in DOMAIN old \cap DOMAIN new}

\* The fields that actions of this kind name, and whether there is such an action.
Of(actions, kind, t)  == UNION {a.fields : a \in {b \in actions : b.kind = kind /\ b.table = t}}
Has(actions, kind, t) == \E a \in actions : a.kind = kind /\ a.table = t

\* Fields of dropped structs are dropped, fields are never.
Bug_FieldsNotDropped(d, actions) ==
  LET kept == {t \in DOMAIN d : ~Has(actions, "drop_struct", t)}
      made == {t \in Tables : Has(actions, "create_struct", t)}
  IN  [t \in kept \cup made |->
         IF t \notin DOMAIN d \/ d[t] = NoRows THEN NoRows
         ELSE [f \in DOMAIN d[t] \cup Of(actions, "add_field", t) |->
                 IF f \in DOMAIN d[t] THEN d[t][f] ELSE "null"]]

\* migrated_db_data_snapshot
Migrated(d, actions) ==
  LET kept == {t \in DOMAIN d : ~Has(actions, "drop_struct", t)}
      made == {t \in Tables : Has(actions, "create_struct", t)}
  IN  [t \in kept \cup made |->
         IF t \notin DOMAIN d \/ d[t] = NoRows THEN NoRows
         ELSE [f \in (DOMAIN d[t] \cup Of(actions, "add_field", t)) \ Of(actions, "drop_field", t) |->
                 IF f \in DOMAIN d[t] THEN d[t][f] ELSE "null"]]

-----------------------------------------------------------------------------
(* Commands: the files are read and the writes planned at the start.       *)

Write(file, value) == [file |-> file, value |-> value]
Optional(present, writes) == IF present THEN writes ELSE <<>>

\* The backups are taken after the files they protect were replaced.
Bug_BackupAfterWrite(v, withData, withHistory, actions) ==
  <<Write("schema", v)>>
    \o Optional(schema # NoFile, <<Write("schemaRb", schema)>>)
    \o Optional(withData, <<Write("data", Migrated(data, actions)), Write("dataRb", data)>>)
    \o Optional(withHistory, <<Write("history", Append(history, actions))>>)

\* The history keeps the last entry only.
Bug_HistoryOverwritten(v, withData, withHistory, actions) ==
  Optional(schema # NoFile, <<Write("schemaRb", schema)>>)
    \o Optional(withData, <<Write("dataRb", data)>>)
    \o <<Write("schema", v)>>
    \o Optional(withData, <<Write("data", Migrated(data, actions))>>)
    \o Optional(withHistory, <<Write("history", <<actions>>)>>)

\* cmd_db_apply_with_data after its reads, append_db_history
MigrateWrites(v, withData, withHistory, actions) ==
  Optional(schema # NoFile, <<Write("schemaRb", schema)>>)
    \o Optional(withData, <<Write("dataRb", data)>>)
    \o <<Write("schema", v)>>
    \o Optional(withData, <<Write("data", Migrated(data, actions))>>)
    \o Optional(withHistory, <<Write("history", Append(history, actions))>>)

\* The data is put back first and the schema's backup is left in place.
Bug_SchemaNotRolledBack(withData) ==
  Optional(withData, <<Write("data", dataRb), Write("dataRb", NoFile)>>)

\* cmd_db_rollback_with_data after its reads
RollbackWrites(withData) ==
  <<Write("schema", schemaRb), Write("schemaRb", NoFile)>>
    \o Optional(withData, <<Write("data", dataRb), Write("dataRb", NoFile)>>)

Start(name, writes) ==
  /\ cmd.name = "none" /\ started < MaxCommands
  /\ started' = started + 1
  /\ cmd' = [name |-> name, writes |-> writes]
  /\ UNCHANGED <<files, aborts>>

\* db apply, db migrate; without --data the data file is left alone.
Migrate(v, withData, withHistory) ==
  /\ withData => data # NoFile
  /\ Start("migrate", MigrateWrites(v, withData, withHistory, Diff(SchemaOf(schema), v)))
  /\ before' = [schema |-> schema, data |-> data, kept |-> withData]
  /\ only' = only \ ((IF withData THEN {} ELSE {"paired"}) \cup (IF withHistory THEN {} ELSE {"history"}))

Rollback(withData) ==
  /\ schemaRb # NoFile /\ (withData => dataRb # NoFile)
  /\ Start("rollback", RollbackWrites(withData))
  /\ only' = only \ ((IF withData THEN {} ELSE {"paired"}) \cup {"forward"})
  /\ before' = [before EXCEPT !.kept = FALSE]

Backup == /\ data # NoFile
          /\ Start("backup", <<Write("backup", data)>>)
          /\ UNCHANGED <<before, only>>

\* cmd_db_restore: the hash recorded with the backup is not looked at.
Restore == /\ backup # NoFile
           /\ Start("restore", Optional(data # NoFile, <<Write("dataRb", data)>>) \o <<Write("data", backup)>>)
           /\ before' = [schema |-> schema, data |-> data, kept |-> data # NoFile]
           /\ only' = only \ {"migrations"}

\* One write_json_atomic or remove_file.
WriteNext ==
  /\ cmd.writes # <<>>
  /\ LET w == Head(cmd.writes)
         Put(name, old) == IF w.file = name THEN w.value ELSE old
     IN  /\ schema' = Put("schema", schema) /\ schemaRb' = Put("schemaRb", schemaRb)
         /\ data' = Put("data", data) /\ dataRb' = Put("dataRb", dataRb)
         /\ history' = Put("history", history) /\ backup' = Put("backup", backup)
  /\ cmd' = [cmd EXCEPT !.writes = Tail(@)]
  /\ UNCHANGED <<started, aborts, before, only>>

Finish ==
  /\ cmd.name # "none" /\ cmd.writes = <<>>
  /\ cmd' = Idle
  /\ UNCHANGED <<files, started, aborts, before, only>>

\* The process is killed, or a write fails and the command ends with the error.
Abort ==
  /\ cmd.writes # <<>> /\ aborts < MaxAborts
  /\ cmd' = Idle
  /\ aborts' = aborts + 1
  /\ only' = only \ {"whole"}
  /\ UNCHANGED <<files, started, before>>

\* The program, of the version applied, runs and saves its first rows of t.
Fill(t) ==
  /\ cmd.name = "none" /\ schema # NoFile
  /\ t \in DOMAIN schema \ Rows(data)
  /\ data' = [u \in DOMAIN data \cup {t} |->
                IF u = t THEN [f \in Fields(schema, t) |-> "kept"] ELSE data[u]]
  /\ before' = [before EXCEPT !.kept = FALSE]
  /\ UNCHANGED <<schema, schemaRb, dataRb, history, backup, cmd, started, aborts, only>>

Init ==
  /\ schema = NoFile /\ schemaRb = NoFile
  /\ data = [t \in {} |-> NoRows] /\ dataRb = NoFile
  /\ history = <<>> /\ backup = NoFile
  /\ cmd = Idle /\ started = 0 /\ aborts = 0
  /\ before = [schema |-> NoFile, data |-> data, kept |-> FALSE]
  /\ only = {"paired", "history", "forward", "migrations", "whole"}

Next ==
  \/ \E v \in Versions, withData, withHistory \in BOOLEAN : Migrate(v, withData, withHistory)
  \/ \E withData \in BOOLEAN : Rollback(withData)
  \/ Backup \/ Restore
  \/ WriteNext \/ Finish \/ Abort
  \/ \E t \in Tables : Fill(t)

Spec == Init /\ [][Next]_vars

-----------------------------------------------------------------------------
(* Properties.                                                             *)

\* Where every migrate and rollback was given the data file, and none was cut
\* short, the rows have exactly the fields of the schema, whatever was created,
\* dropped, renamed, rolled back or migrated again.
SchemaDataAgree ==
  cmd.name = "none" /\ {"paired", "migrations", "whole"} \subseteq only /\ schema # NoFile =>
    \A t \in Rows(data) : t \in DOMAIN schema /\ DOMAIN data[t] = Fields(schema, t)

\* A migrate or restore can be cut short at any write: until the next command,
\* or until the program saves new rows, the data it started from is there, as the
\* data file or as its .rollback.
DataBeforeSurvives == before.kept => before.data \in {data, dataRb}

\* A rollback after a migrate puts back both files as they were before it,
\* unless a restore came in between and took the place of the data's backup.
RollbackUndoes ==
  [][cmd.name = "rollback" /\ cmd' = Idle /\ {"paired", "migrations", "whole"} \subseteq only' =>
       schema = before.schema /\ data = before.data]_vars

\* What the actions of one entry make of the fields of the structs so far.
Made(s, actions) ==
  [t \in {u \in DOMAIN s : ~Has(actions, "drop_struct", u)}
         \cup {u \in Tables : Has(actions, "create_struct", u)} |->
     IF Has(actions, "create_struct", t) THEN Of(actions, "create_struct", t)
     ELSE (s[t] \cup Of(actions, "add_field", t)) \ Of(actions, "drop_field", t)]

\* The schema that the actions of the history lead to, which db squash records.
Replayed(entries) ==
  LET fields[i \in 0 .. Len(entries)] ==
        IF i = 0 THEN [t \in {} |-> {}] ELSE Made(fields[i - 1], entries[i])
  IN  fields[Len(entries)]

\* Where every migrate recorded its history, none was cut short and nothing was
\* rolled back, the actions of the history, put together by db squash, lead
\* from nothing to the schema applied.
SquashTellsSchema ==
  cmd.name = "none" /\ {"history", "forward", "whole"} \subseteq only /\ schema # NoFile =>
    Replayed(history) = [t \in DOMAIN schema |-> Fields(schema, t)]
=============================================================================
