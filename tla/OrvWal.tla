-------------------------------- MODULE OrvWal --------------------------------
(***************************************************************************)
(* One runtime database handle backed by a JSONL write-ahead log           *)
(* (crates/orv-runtime/src/db.rs, and the @db methods and @db.transaction  *)
(* of crates/orv-runtime/src/interp.rs).  The interpreter is single        *)
(* threaded, so the methods of one program run one after the other; what   *)
(* cuts in is the end of the process or of the machine, at any step of an  *)
(* append, and a write that fails.                                         *)
(*                                                                         *)
(* The log file is kept at the grain its reader sees: complete lines, each *)
(* a record or Garbled (text no parser accepts), and an unterminated tail. *)
(***************************************************************************)
EXTENDS OrvTables, Sequences

CONSTANTS
    Ops,          \* the @db operations the program uses
    NoTail,       \* the file is empty or ends with a newline
    Torn,         \* a strict prefix of one record: a parse error at end of file
    Garbled,      \* text the replay refuses wherever it stands
    TornForms,    \* what a record cut short can be: a cut inside a UTF-8
                  \* character is Garbled (read_to_string refuses the file)
    WriteErrors,  \* may a write, a sync or a rename fail and return an error?
    NoDb,         \* no savepoint, or no readable snapshot file
    MaxLog,       \* bound: records in the log
    MaxId,        \* bound: ids given out in a table
    MaxDepth,     \* bound: nested transactions
    MaxFaults     \* bound: crashes and failed writes; orderly stops are free

OpNames == {"create", "update", "delete", "upsert", "checkpoint", "transaction",
            "savepoint", "save", "load", "wal"}

ASSUME WalAssumption ==
    /\ Ops \subseteq OpNames
    /\ TornForms \subseteq {Torn, Garbled}
    /\ NoTail # Torn /\ NoTail # Garbled /\ Torn # Garbled
    /\ NoTail \notin Recs /\ Torn \notin Recs /\ Garbled \notin Recs
    /\ NoDb \notin Db
    /\ WriteErrors \in BOOLEAN
    /\ MaxLog \in Nat /\ MaxId \in Nat /\ MaxDepth \in Nat /\ MaxFaults \in Nat

VARIABLES
    mem,      \* the handle's tables
    logging,  \* the handle has a wal_path
    file,     \* the log file as the process sees it
    pc,       \* what the process is doing
    app,      \* the append under way: its record, the file before its first byte
    load,     \* the replay under way: lines replayed, tables so far, and
              \* whether a running program asked for it
    stack,    \* the snapshots taken by the open transactions
    savept,   \* the program's savepoint
    snap,     \* the JSON snapshot file of save and load
    promise,  \* history: the states a recovery may show
    faults,   \* history: crashes and failed writes so far
    harm      \* history: what has befallen the log since it was last replaced:
              \* a cut inside a character, an append behind an unfinished line

handle == <<mem, logging>>
disk   == <<file, snap>>
vars   == <<mem, logging, file, pc, app, load, stack, savept, snap, promise, faults, harm>>

Lines  == Recs \cup {Garbled}
Files  == [lines : Seq(Lines), tail : Recs \cup {NoTail, Torn, Garbled}]
NoFile == [lines |-> <<>>, tail |-> NoTail]   \* a missing file replays as an empty one
NoApp  == [rec |-> CheckpointRec(EmptyDb), before |-> NoFile]
NoLoad == [pos |-> 0, db |-> EmptyDb, live |-> FALSE]

Init ==
    /\ mem = EmptyDb
    /\ logging = FALSE
    /\ file = NoFile
    /\ pc = "down"
    /\ app = NoApp
    /\ load = NoLoad
    /\ stack = <<>>
    /\ savept = NoDb
    /\ snap = NoDb
    /\ promise = [op |-> {EmptyDb}, txn |-> {EmptyDb}]
    /\ faults = 0
    /\ harm = {}

(***************************************************************************)
(* History.  promise.op: what must survive if every acknowledged operation *)
(* does, with both outcomes while one is under way.  promise.txn: the same *)
(* when a transaction is one operation, undone until its body ends.        *)
(***************************************************************************)
Promise(dbs) ==
    promise' = [op  |-> dbs,
                txn |-> IF stack' = <<>> THEN dbs ELSE promise.txn]

\* An operation that returned an error may or may not survive, until the next
\* one is acknowledged.
InDoubt == IF WriteErrors THEN promise.op ELSE {}

(***************************************************************************)
(* The file.  Bytes are appended where the file ends, terminated or not,   *)
(* so a record written behind a torn one shares its line.                  *)
(***************************************************************************)
Glue(tail, text) ==
    IF tail = NoTail THEN {text}
    ELSE IF tail = Torn THEN {Torn, Garbled}   \* the parse may fail at the end or before it
    ELSE {Garbled}

Written(f, text) == {[f EXCEPT !.tail = t] : t \in Glue(f.tail, text)}

Terminated(f) ==
    [lines |-> Append(f.lines, IF f.tail = Torn THEN Garbled ELSE f.tail),
     tail  |-> NoTail]

\* Mutant of Compacted: the log is truncated before its checkpoint is written.
Bug_TruncatedLog(db) == NoFile

Compacted(db) == [lines |-> <<CheckpointRec(JsonDb(db))>>, tail |-> NoTail]

\* What an append cut short leaves: nothing, a prefix, the record without its
\* newline, and, once the newline is out, the complete line.
Whole == {app.before, file} \cup Written(app.before, JsonRec(app.rec))

CutShort ==
    \/ file' \in Whole /\ harm' = harm
    \/ \E form \in TornForms :
          /\ file' \in Written(app.before, form)
          /\ harm' = IF form = Garbled THEN harm \cup {"character"} ELSE harm

(***************************************************************************)
(* append_wal_record: the record, its newline, sync_data.  Only then is    *)
(* the mutation applied to the tables and its result returned.             *)
(***************************************************************************)
WriteRecord(r) ==
    /\ Len(file.lines) < MaxLog
    /\ file' \in Written(file, JsonRec(r))
    /\ app' = [rec |-> r, before |-> file]
    /\ pc' = "written"
    /\ harm' = IF file.tail = NoTail THEN harm ELSE harm \cup {"behind"}
    /\ UNCHANGED <<mem, logging, load, stack, savept, snap, faults>>
    /\ Promise({JsonDb(mem), JsonDb(Apply(mem, r))}
               \cup InDoubt \cup {Apply(db, JsonRec(r)) : db \in InDoubt})

WriteNewline ==
    /\ pc = "written"
    /\ file' = Terminated(file)
    /\ pc' = "ended"
    /\ UNCHANGED <<mem, logging, app, load, stack, savept, snap, promise, faults, harm>>

SyncAndApply ==
    /\ pc = "ended"
    /\ mem' = Apply(mem, app.rec)
    /\ pc' = "idle"
    /\ app' = NoApp
    /\ UNCHANGED <<logging, file, load, stack, savept, snap, faults, harm>>
    /\ Promise({JsonDb(mem')})

\* A failing write or sync returns an error: the tables keep their state, the
\* file keeps whatever was written.
AppendFails ==
    /\ WriteErrors
    /\ faults < MaxFaults
    /\ pc \in {"written", "ended"}
    /\ CutShort
    /\ pc' = "idle"
    /\ app' = NoApp
    /\ faults' = faults + 1
    /\ UNCHANGED <<mem, logging, load, stack, savept, snap, promise>>

ApplyUnlogged(r) ==
    /\ mem' = Apply(mem, r)
    /\ UNCHANGED <<logging, file, pc, app, load, stack, savept, snap, faults, harm>>
    /\ Promise({JsonDb(mem')})

Mutate(r) ==
    /\ pc = "idle"
    /\ \/ logging /\ WriteRecord(r)
       \/ ~logging /\ ApplyUnlogged(r)

CanCreate(t) == mem[t].next_id < MaxId

CreateOp == /\ "create" \in Ops
            /\ \E t \in Tables, v \in Vals : CanCreate(t) /\ Mutate(CreateRec(t, v))

UpdateOp == /\ "update" \in Ops
            /\ \E t \in Tables, f \in ProgramFilters, v \in Vals : Mutate(UpdateRec(t, f, v))

DeleteOp == /\ "delete" \in Ops
            /\ \E t \in Tables, f \in ProgramFilters : Mutate(DeleteRec(t, f))

UpsertOp == /\ "upsert" \in Ops
            /\ \E t \in Tables, f \in ProgramFilters, v \in Vals :
                  CanCreate(t) /\ Mutate(UpsertRec(mem, t, f, v))

(***************************************************************************)
(* Compaction: the snapshot goes to a temporary file, synced, then renamed *)
(* over the log.  A crash leaves the old file or the new one: we take the  *)
(* file system to make the rename durable, the code never syncs the        *)
(* directory.                                                              *)
(***************************************************************************)
Replace(db) == file' = Compacted(db) /\ harm' = {}

\* Mutant of CompactAfterRestore: a rollback is forgotten by the log.
Bug_RollbackInMemory(db, enabled) ==
    UNCHANGED <<file, faults, harm>> /\ Promise({JsonDb(db)})

\* Compaction after a rollback: the tables are restored first, and stay so
\* when the compaction fails.
CompactAfterRestore(db, enabled) ==
    \/ /\ enabled /\ Replace(db)
       /\ UNCHANGED faults
       /\ Promise({JsonDb(db)})
    \/ /\ ~enabled
       /\ UNCHANGED <<file, faults, harm>>
       /\ Promise({JsonDb(db)})
    \/ /\ enabled /\ WriteErrors
       /\ faults < MaxFaults /\ faults' = faults + 1
       /\ UNCHANGED <<file, harm>>
       /\ Promise({JsonDb(db)} \cup promise.op)

CheckpointOp ==
    /\ "checkpoint" \in Ops
    /\ pc = "idle"
    /\ logging
    /\ Replace(mem)
    /\ UNCHANGED <<handle, pc, app, load, stack, savept, snap, promise, faults>>

SavepointOp ==
    /\ "savepoint" \in Ops
    /\ pc = "idle"
    /\ savept' = mem
    /\ UNCHANGED <<handle, disk, pc, app, load, stack, promise, faults, harm>>

RollbackOp ==
    /\ pc = "idle"
    /\ savept # NoDb
    /\ mem' = savept
    /\ UNCHANGED <<logging, pc, app, load, stack, savept, snap>>
    /\ CompactAfterRestore(savept, logging)

(***************************************************************************)
(* @db.transaction keeps a copy of the whole handle, evaluates its body,   *)
(* and puts the copy back if the body fails.  Nothing of it is logged: the *)
(* body's mutations are records like any other.                            *)
(***************************************************************************)
BeginTransaction ==
    /\ "transaction" \in Ops
    /\ pc = "idle"
    /\ Len(stack) < MaxDepth
    /\ stack' = Append(stack, [tables |-> mem, logging |-> logging])
    /\ promise' = IF stack = <<>> THEN [promise EXCEPT !.txn = {JsonDb(mem)}] ELSE promise
    /\ UNCHANGED <<handle, disk, pc, app, load, savept, faults, harm>>

Top  == stack[Len(stack)]
Rest == SubSeq(stack, 1, Len(stack) - 1)

CommitTransaction ==
    /\ pc = "idle"
    /\ stack # <<>>
    /\ stack' = Rest
    /\ promise' = IF Rest = <<>> THEN [promise EXCEPT !.txn = promise.op] ELSE promise
    /\ UNCHANGED <<handle, disk, pc, app, load, savept, faults, harm>>

AbortTransaction ==
    /\ pc = "idle"
    /\ stack # <<>>
    /\ mem' = Top.tables
    /\ logging' = Top.logging
    /\ stack' = Rest
    /\ UNCHANGED <<pc, app, load, savept, snap>>
    /\ CompactAfterRestore(Top.tables, Top.logging)

(***************************************************************************)
(* Snapshots.  save writes the file in place, so it has no content worth   *)
(* reading between the truncation and the last byte.  load replaces the    *)
(* whole handle: restore_json leaves it without a wal_path.                *)
(***************************************************************************)
BeginSave ==
    /\ "save" \in Ops
    /\ pc = "idle"
    /\ snap' = NoDb
    /\ pc' = "saving"
    /\ UNCHANGED <<handle, file, app, load, stack, savept, promise, faults, harm>>

EndSave ==
    /\ pc = "saving"
    /\ snap' = JsonDb(mem)
    /\ pc' = "idle"
    /\ UNCHANGED <<handle, file, app, load, stack, savept, promise, faults, harm>>

LoadOp ==
    /\ "load" \in Ops
    /\ pc = "idle"
    /\ snap # NoDb
    /\ mem' = snap
    /\ logging' = FALSE
    /\ promise' = [promise EXCEPT !.op = promise.op \cup {snap}]
    /\ UNCHANGED <<disk, pc, app, load, stack, savept, faults, harm>>

(***************************************************************************)
(* @db.wal and @db.connect "file://..": read the file, replay it line by   *)
(* line into an empty database, and only then replace the handle.  A last  *)
(* line without newline that ends too early is ignored; any other line     *)
(* that does not parse is an error: a starting program ends with it, a     *)
(* running one (db.wal inside a try) keeps the handle it had.              *)
(***************************************************************************)
OpenLog ==
    /\ \/ pc = "down"
       \/ pc = "idle" /\ "wal" \in Ops
    /\ pc' = "replaying"
    /\ load' = [NoLoad EXCEPT !.live = pc = "idle"]
    /\ UNCHANGED <<handle, disk, app, stack, savept, promise, faults, harm>>

ReplayLine ==
    /\ pc = "replaying"
    /\ load.pos < Len(file.lines)
    /\ LET line == file.lines[load.pos + 1]
       IN  /\ line # Garbled
           /\ load' = [load EXCEPT !.pos = @ + 1, !.db = Apply(@, line)]
    /\ UNCHANGED <<handle, disk, pc, app, stack, savept, promise, faults, harm>>

\* Mutant of ReplayEnd: only a file that ends with a newline is complete.
Bug_NewlineRequired ==
    /\ pc = "replaying"
    /\ load.pos = Len(file.lines)
    /\ file.tail = NoTail
    /\ mem' = load.db
    /\ logging' = TRUE
    /\ pc' = "idle"
    /\ load' = NoLoad
    /\ UNCHANGED <<disk, app, stack, savept, promise, faults, harm>>

ReplayEnd ==
    /\ pc = "replaying"
    /\ load.pos = Len(file.lines)
    /\ file.tail # Garbled
    /\ mem' = IF file.tail \in {NoTail, Torn} THEN load.db ELSE Apply(load.db, file.tail)
    /\ logging' = TRUE
    /\ pc' = "idle"
    /\ load' = NoLoad
    /\ UNCHANGED <<disk, app, stack, savept, promise, faults, harm>>

\* Mutant of RefuseLog: a torn last line is an error like any other.
Bug_TornTailRefused ==
    /\ pc = "replaying"
    /\ load.pos = Len(file.lines)
    /\ file.tail \in {Torn, Garbled}
    /\ pc' = IF load.live THEN "idle" ELSE "refused"
    /\ load' = NoLoad
    /\ UNCHANGED <<handle, disk, app, stack, savept, promise, faults, harm>>

RefuseLog ==
    /\ pc = "replaying"
    /\ \/ load.pos < Len(file.lines) /\ file.lines[load.pos + 1] = Garbled
       \/ load.pos = Len(file.lines) /\ file.tail = Garbled
    /\ pc' = IF load.live THEN "idle" ELSE "refused"
    /\ load' = NoLoad
    /\ UNCHANGED <<handle, disk, app, stack, savept, promise, faults, harm>>

(***************************************************************************)
(* The end of the process: memory is gone.  Stop is an end between two     *)
(* operations, orderly or not: a server is stopped and started at will and *)
(* nothing of the log changes, so it is no fault.  Crash cuts a replay, a  *)
(* save or an append: the file is what the interrupted append left of it.  *)
(***************************************************************************)
Gone ==
    /\ mem' = EmptyDb
    /\ logging' = FALSE
    /\ pc' = "down"
    /\ app' = NoApp
    /\ load' = NoLoad
    /\ stack' = <<>>
    /\ savept' = NoDb
    /\ UNCHANGED <<snap, promise>>

Stop ==
    /\ pc = "idle"
    /\ Gone
    /\ UNCHANGED <<file, faults, harm>>

Crash ==
    /\ pc \in {"replaying", "written", "ended", "saving"}
    /\ faults < MaxFaults
    /\ IF pc \in {"written", "ended"} THEN CutShort ELSE UNCHANGED <<file, harm>>
    /\ Gone
    /\ faults' = faults + 1

Recover == OpenLog \/ ReplayLine \/ ReplayEnd \/ RefuseLog

Next ==
    \/ CreateOp \/ UpdateOp \/ DeleteOp \/ UpsertOp
    \/ WriteNewline \/ SyncAndApply \/ AppendFails
    \/ CheckpointOp \/ SavepointOp \/ RollbackOp
    \/ BeginTransaction \/ CommitTransaction \/ AbortTransaction
    \/ BeginSave \/ EndSave \/ LoadOp
    \/ Recover
    \/ Stop \/ Crash

Spec == Init /\ [][Next]_vars

\* A program that starts opens its log, and the replay is a loop over the lines.
FairSpec == Spec /\ WF_vars(pc = "down" /\ OpenLog)
                 /\ WF_vars(ReplayLine \/ ReplayEnd \/ RefuseLog)

------------------------------------------------------------------------------
TypeOK ==
    /\ mem \in Db
    /\ logging \in BOOLEAN
    /\ file \in Files
    /\ pc \in {"down", "replaying", "idle", "written", "ended", "saving", "refused"}
    /\ app \in [rec : Recs, before : Files]
    /\ load \in [pos : Nat, db : Db, live : BOOLEAN]
    /\ stack \in Seq([tables : Db, logging : BOOLEAN])
    /\ savept \in Db \cup {NoDb}
    /\ snap \in Db \cup {NoDb}
    /\ promise \in [op : SUBSET Db, txn : SUBSET Db]
    /\ faults \in 0..MaxFaults
    /\ harm \subseteq {"character", "behind"}

\* Ids are given out once: in every copy of the tables the program or the disk
\* holds, no two rows of a table share an id and none is above the counter the
\* next create starts from (create, restore_json, eval_db_transaction).
RowsWellNumbered ==
    \A db \in {mem, load.db} \cup ({savept, snap} \ {NoDb}) \cup {stack[i].tables : i \in DOMAIN stack} :
        \A t \in Tables : WellNumbered(db[t])

\* Every acknowledged operation survives: the tables the program works with,
\* after a recovery as before the crash, are those of its last acknowledged
\* operation, or of the one the crash cut short (create_logged, load_wal).
RecoveryKeepsPromise == pc = "idle" => JsonDb(mem) \in promise.op

\* A start or a @db.wal refuses the log only when an append was cut inside a
\* character since the log was last compacted, or a record was appended behind
\* the line a crash or a failed write had left unfinished (load_wal_records,
\* append_wal_record).  Neither takes more than one fault: the code repairs no
\* tail before it appends, and a stop and a start in between change nothing.
RefusedOnlyIfHarmed == [][RefuseLog => harm # {}]_vars

\* A transaction a crash cuts short leaves nothing behind: the recovery that
\* follows shows the tables of before it, or all of it.
TransactionsAtomic ==
    [][pc = "replaying" /\ pc' = "idle" /\ stack' = <<>> => JsonDb(mem') \in promise.txn]_vars

\* A start always gets through the replay of a log nothing has harmed, torn
\* last line or not, and serves the program; one of a harmed log may end the
\* program each time (load_wal_records).
Reopens == pc = "replaying" /\ harm = {} ~> pc = "idle"
==============================================================================
