------------------------------ MODULE OrvSqlite -------------------------------
(***************************************************************************)
(* One runtime database handle backed by a SQLite file (load_sqlite,       *)
(* replace_sqlite_snapshot and the *_logged methods of                     *)
(* crates/orv-runtime/src/db.rs).  Here the tables change first, and then  *)
(* the whole of them replaces the content of the file, in one SQLite       *)
(* transaction: a sync that fails leaves the file as it was and the tables *)
(* changed.                                                                *)
(*                                                                         *)
(* @db.load and @db.wal replace the handle itself, its path to the file    *)
(* included: from then on the program works on tables that reach another   *)
(* file or none, and this file stays as it is until the program starts     *)
(* anew or a failing transaction puts the old handle back.                 *)
(***************************************************************************)
EXTENDS OrvTables, Sequences, FiniteSetsExt

CONSTANTS
    Ops,         \* the @db operations the program uses
    SyncErrors,  \* may a sync fail (the file is locked, the disk is full)?
    NoDb,        \* no savepoint
    MaxId,       \* bound: ids given out in a table
    MaxDepth     \* bound: nested transactions

\* save and checkpoint write other files, and change nothing of the handle.
OpNames == {"create", "update", "delete", "upsert", "transaction", "savepoint",
            "load", "wal"}

ASSUME SqliteAssumption ==
    /\ Ops \subseteq OpNames
    /\ SyncErrors \in BOOLEAN
    /\ NoDb \notin Db
    /\ MaxId \in Nat /\ MaxDepth \in Nat

VARIABLES
    mem,       \* the handle's tables
    attached,  \* does the handle hold the path to the file?
    store,     \* the content of the file
    pc,        \* closed, idle, or the tables changed and about to sync
    stack,     \* the copies of the handle taken by the open transactions
    savept,    \* the program's savepoint
    promise,   \* history: the tables of the last operation that was synced
    behind     \* history: does the program see what no sync has carried?

handle == <<mem, attached>>
vars   == <<handle, store, pc, stack, savept, promise, behind>>

Init ==
    /\ mem = EmptyDb
    /\ attached = FALSE
    /\ store = EmptyDb
    /\ pc = "closed"
    /\ stack = <<>>
    /\ savept = NoDb
    /\ promise = EmptyDb
    /\ behind = FALSE

\* Mutant of Synced: the rows of before are not deleted first.
Bug_RowsNotDeleted(old, db) ==
    [t \in Tables |->
        [next_id |-> db[t].next_id,
         rows |-> JsonDb(db)[t].rows
                  \cup {r \in old[t].rows : \A s \in db[t].rows : s.id # r.id}]]

\* What the file holds after a sync, whatever it held before.
Synced(old, db) == JsonDb(db)

\* Mutant of Loaded: the counter is taken from the rows alone.
Bug_CounterFromRows(db) ==
    [t \in Tables |-> [db[t] EXCEPT !.next_id = Max({0} \cup {r.id : r \in db[t].rows})]]

\* load_sqlite: the counter is the stored one, or the largest row id.
Loaded(db) ==
    [t \in Tables |-> [db[t] EXCEPT !.next_id = Max({@} \cup {r.id : r \in db[t].rows})]]

(***************************************************************************)
(* Mutations: applied, then synced if the handle is on the file.           *)
(***************************************************************************)
ChangeTables(db) ==
    /\ pc = "idle"
    /\ mem' = db
    /\ pc' = IF attached THEN "applied" ELSE pc
    /\ UNCHANGED <<attached, store, stack, savept, promise, behind>>

Mutate(r) == ChangeTables(Apply(mem, r))

CanCreate(t) == mem[t].next_id < MaxId

CreateOp == /\ "create" \in Ops
            /\ \E t \in Tables, v \in Vals : CanCreate(t) /\ Mutate(CreateRec(t, v))

UpdateOp == /\ "update" \in Ops
            /\ \E t \in Tables, f \in ProgramFilters, v \in Vals : Mutate(UpdateRec(t, f, v))

DeleteOp == /\ "delete" \in Ops
            /\ \E t \in Tables, f \in ProgramFilters : Mutate(DeleteRec(t, f))

UpsertOp == /\ "upsert" \in Ops
            /\ \E t \in Tables, f \in ProgramFilters, v \in Vals :
                  CanCreate(t) /\ Mutate(UpsertRec(mem, t, f, v))

Sync ==
    /\ pc = "applied"
    /\ store' = Synced(store, mem)
    /\ pc' = "idle"
    /\ promise' = JsonDb(mem)
    /\ behind' = FALSE
    /\ UNCHANGED <<handle, stack, savept>>

\* The operation returns an error, but the tables keep its effect.
SyncFails ==
    /\ SyncErrors
    /\ pc = "applied"
    /\ pc' = "idle"
    /\ behind' = TRUE
    /\ UNCHANGED <<handle, store, stack, savept, promise>>

SavepointOp ==
    /\ "savepoint" \in Ops
    /\ pc = "idle"
    /\ savept' = mem
    /\ UNCHANGED <<handle, store, pc, stack, promise, behind>>

\* Mutant of RollbackOp: the restored tables are not synced.
Bug_RollbackNotSynced ==
    /\ savept # NoDb
    /\ pc = "idle"
    /\ mem' = savept
    /\ promise' = IF attached THEN JsonDb(savept) ELSE promise
    /\ UNCHANGED <<attached, store, pc, stack, savept, behind>>

\* The tables are restored into the handle of now, whichever they were taken
\* from.
RollbackOp == savept # NoDb /\ ChangeTables(savept)

(***************************************************************************)
(* Transactions: every mutation of the body is synced as it is made; the   *)
(* undo of a failed body puts back the whole handle, its path to the file  *)
(* included, and syncs nothing.                                            *)
(***************************************************************************)
BeginTransaction ==
    /\ "transaction" \in Ops
    /\ pc = "idle"
    /\ Len(stack) < MaxDepth
    /\ stack' = Append(stack, [tables |-> mem, attached |-> attached])
    /\ UNCHANGED <<handle, store, pc, savept, promise, behind>>

Top  == stack[Len(stack)]
Rest == SubSeq(stack, 1, Len(stack) - 1)

CommitTransaction ==
    /\ pc = "idle"
    /\ stack # <<>>
    /\ stack' = Rest
    /\ UNCHANGED <<handle, store, pc, savept, promise, behind>>

AbortTransaction ==
    /\ pc = "idle"
    /\ stack # <<>>
    /\ mem' = Top.tables
    /\ attached' = Top.attached
    /\ stack' = Rest
    /\ behind' = (behind \/ Top.tables # mem)
    /\ UNCHANGED <<store, pc, savept, promise>>

(***************************************************************************)
(* Other handles: load takes its tables from a snapshot file, wal from a   *)
(* log, as any program may have left them, and neither keeps the path to   *)
(* the file.                                                               *)
(***************************************************************************)
Images ==
    {db \in [Tables -> [next_id : 0 .. MaxId, rows : SUBSET [id : 1 .. MaxId, val : Vals]]] :
        (\A t \in Tables : WellNumbered(db[t])) /\ JsonDb(db) = db}

ReplaceHandle ==
    /\ Ops \cap {"load", "wal"} # {}
    /\ pc = "idle"
    /\ mem' \in Images
    /\ attached' = FALSE
    /\ behind' = TRUE
    /\ UNCHANGED <<store, pc, stack, savept, promise>>

(***************************************************************************)
(* Starts and ends.                                                        *)
(***************************************************************************)
Open ==
    /\ pc = "closed"
    /\ mem' = Loaded(store)
    /\ attached' = TRUE
    /\ pc' = "idle"
    /\ behind' = FALSE
    /\ UNCHANGED <<store, stack, savept, promise>>

\* The end of the process at any step, a crash or an orderly stop.  SQLite keeps
\* the file's content from before or after a commit, never between.
Crash ==
    /\ pc # "closed"
    /\ mem' = EmptyDb
    /\ attached' = FALSE
    /\ pc' = "closed"
    /\ stack' = <<>>
    /\ savept' = NoDb
    /\ UNCHANGED <<store, promise, behind>>

Next ==
    \/ CreateOp \/ UpdateOp \/ DeleteOp \/ UpsertOp
    \/ Sync \/ SyncFails
    \/ SavepointOp \/ RollbackOp
    \/ BeginTransaction \/ CommitTransaction \/ AbortTransaction
    \/ ReplaceHandle
    \/ Open \/ Crash

Spec == Init /\ [][Next]_vars

------------------------------------------------------------------------------
TypeOK ==
    /\ mem \in Db /\ store \in Db
    /\ attached \in BOOLEAN
    /\ pc \in {"closed", "idle", "applied"}
    /\ stack \in Seq([tables : Db, attached : BOOLEAN])
    /\ savept \in Db \cup {NoDb}
    /\ promise \in Db
    /\ behind \in BOOLEAN

\* The primary key of orv_rows is (table, id): with two rows of one id every
\* sync would fail from then on (replace_sqlite_snapshot, sqlite_row_id).
RowsWellNumbered ==
    \A db \in {mem, store} : \A t \in Tables : WellNumbered(db[t])

\* At every instant, a restart would show the tables of the last operation that
\* was synced: whatever failed since, is under way, was undone or came after a
\* load or a wal, acknowledged there or not, left no trace in the file
\* (create_logged and its kin, restore_savepoint, eval_db_transaction,
\* load_sqlite).
StoreKeepsPromise == JsonDb(Loaded(store)) = promise

(***************************************************************************)
(* The handle implements the durable database as long as the file is not   *)
(* behind: what it shows changes when the file does.                       *)
(***************************************************************************)
Durable == INSTANCE DurableDb WITH
    visible <- IF pc = "idle" THEN JsonDb(mem) ELSE Loaded(store),
    up      <- pc # "closed",
    marks   <- {JsonDb(stack[i].tables) : i \in DOMAIN stack}
               \cup {JsonDb(db) : db \in {savept} \ {NoDb}}

\* What the program sees survives a crash, and a crash completes at most the
\* mutation under way, with two exceptions.  A failed sync or a failed
\* transaction leaves something in the tables alone, until the next sync that
\* goes through; and load and wal take the handle off the file, so that all later
\* mutations, acknowledged or not, miss it until the next start, or the first
\* sync after a failed transaction put the handle back (create_logged and its
\* kin, restore_savepoint, eval_db_transaction, restore_json).
ImplementsDurableDb ==
    [][~behind /\ ~behind' => Durable!Next \/ UNCHANGED Durable!vars]_vars
==============================================================================
