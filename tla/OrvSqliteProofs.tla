---------------------------- MODULE OrvSqliteProofs ----------------------------
(***************************************************************************)
(* What holds of OrvSqlite for every set of tables and values, every       *)
(* program and every number of crashes and failed syncs.                   *)
(***************************************************************************)
EXTENDS OrvSqlite, OrvTablesProofs, SequenceTheorems

USE DEF Row, Table, Db

(***************************************************************************)
(* Loading a file whose tables are well numbered gives these tables: the   *)
(* largest id is no larger than the counter.                               *)
(***************************************************************************)
LEMMA MaxIs ==
    ASSUME NEW S \in SUBSET Nat, NEW n \in S, \A i \in S : n >= i
    PROVE  Max(S) = n
<1>1. \E x \in S : \A y \in S : x >= y
  OBVIOUS
<1>2. Max(S) \in S /\ \A y \in S : Max(S) >= y
  BY <1>1 DEF Max
<1>3. Max(S) >= n /\ n >= Max(S) /\ Max(S) \in Nat /\ n \in Nat
  BY <1>2
<1> QED
  BY <1>3

LEMMA LoadedNumbered ==
    ASSUME NEW db \in Db, DbNumbered(db)
    PROVE  Loaded(db) = db
<1>1. ASSUME NEW t \in Tables
      PROVE  [db[t] EXCEPT !.next_id = Max({@} \cup {r.id : r \in db[t].rows})] = db[t]
  <2> DEFINE n   == db[t].next_id
             ids == {n} \cup {r.id : r \in db[t].rows}
  <2>1. db[t] \in Table /\ n \in Nat /\ ids \subseteq Nat
    OBVIOUS
  <2>2. n \in ids /\ \A i \in ids : n >= i
    BY <2>1 DEF DbNumbered, WellNumbered
  <2> HIDE DEF n, ids
  <2>3. Max(ids) = n
    BY <2>1, <2>2, MaxIs
  <2> QED
    BY <2>1, <2>3 DEF n, ids
<1> QED
  BY <1>1 DEF Loaded


(***************************************************************************)
(* The invariant.  Every copy of the tables is well numbered, so reading   *)
(* the file changes nothing, and it holds the JSON image that is promised. *)
(***************************************************************************)
AllNumbered ==
    /\ DbNumbered(mem) /\ DbNumbered(store)
    /\ savept # NoDb => DbNumbered(savept)
    /\ \A i \in 1 .. Len(stack) : DbNumbered(stack[i].tables)

FileIsImage == JsonDb(store) = store /\ store = promise

Stored ==
    /\ TypeOK
    /\ AllNumbered
    /\ FileIsImage

\* Each of the four methods applies one mutation record of the program.
LEMMA ProgramChange ==
    ASSUME CreateOp \/ UpdateOp \/ DeleteOp \/ UpsertOp
    PROVE  \E r \in ProgramRecords : ChangeTables(Apply(mem, r))
<1>0. ASSUME NEW t \in Tables, NEW f \in ProgramFilters, NEW v \in Vals
      PROVE  /\ CreateRec(t, v) \in ProgramRecords
             /\ UpdateRec(t, f, v) \in ProgramRecords
             /\ DeleteRec(t, f) \in ProgramRecords
             /\ UpsertRec(mem, t, f, v) \in ProgramRecords
  BY DEF ProgramRecords, MutationRecs, CreateRec, UpdateRec, DeleteRec, UpsertRec, ProgramFilters
<1>1. CASE CreateOp
  <2>1. \A t \in Tables, v \in Vals : CreateRec(t, v) \in ProgramRecords
    BY DEF ProgramRecords, MutationRecs, CreateRec
  <2> QED
    BY <1>1, <2>1 DEF CreateOp, Mutate
<1>2. CASE UpdateOp
  BY <1>0, <1>2 DEF UpdateOp, Mutate
<1>3. CASE DeleteOp
  <2>1. \A t \in Tables, f \in ProgramFilters : DeleteRec(t, f) \in ProgramRecords
    BY DEF ProgramRecords, MutationRecs, DeleteRec, ProgramFilters
  <2> QED
    BY <1>3, <2>1 DEF DeleteOp, Mutate
<1>4. CASE UpsertOp
  BY <1>0, <1>4 DEF UpsertOp, Mutate
<1> QED
  BY <1>1, <1>2, <1>3, <1>4

\* The tables are replaced by others that are as good.
LEMMA ChangeStored ==
    ASSUME Stored, NEW db \in Db, DbNumbered(db), ChangeTables(db)
    PROVE  Stored'
BY DEF Stored, TypeOK, AllNumbered, FileIsImage, ChangeTables

LEMMA ProgramRecordsApply ==
    ASSUME NEW db \in Db, NEW r \in ProgramRecords
    PROVE  /\ r \in Recs /\ JsonRec(r) \in Recs /\ Apply(db, r) \in Db
           /\ DbNumbered(db) => DbNumbered(Apply(db, r))
<1>1. r \in MutationRecs
  BY DEF ProgramRecords
<1> QED
  BY <1>1, MutationRecsNumbered, ApplyType, ApplyNumbered, JsonRecType

\* What is taken off the stack of open transactions.
Copies == [tables : Db, attached : BOOLEAN]

LEMMA StackTypes ==
    ASSUME stack \in Seq(Copies), stack # <<>>
    PROVE  /\ Top \in Copies /\ Rest \in Seq(Copies) /\ Len(stack) \in 1 .. Len(stack) /\ Top = stack[Len(stack)]
           /\ \A i \in 1 .. Len(Rest) : i \in 1 .. Len(stack) /\ Rest[i] = stack[i]
<1> DEFINE n == Len(stack) - 1
<1>1. Len(stack) \in Nat \ {0} /\ n \in Nat /\ n + 1 = Len(stack)
  BY EmptySeq, LenProperties
<1>2. \A i \in 1 .. Len(stack) : stack[i] \in Copies
  BY ElementOfSeq
<1>3. \A i \in 1 .. n : stack[i] \in Copies
  BY <1>1, <1>2
<1> HIDE DEF n
<1>4. /\ SubSeq(stack, 1, n) \in Seq(Copies)
      /\ Len(SubSeq(stack, 1, n)) = IF 1 <= n THEN n - 1 + 1 ELSE 0
      /\ \A i \in 1 .. (n - 1 + 1) : SubSeq(stack, 1, n)[i] = stack[1 + i - 1]
  BY <1>1, <1>3, SubSeqProperties
<1>5. Rest = SubSeq(stack, 1, n)
  BY DEF Rest, n
<1>6. Rest \in Seq(Copies) /\ Len(Rest) = n /\ \A i \in 1 .. n : Rest[i] = stack[i]
  BY <1>1, <1>4, <1>5
<1> QED
  BY <1>1, <1>2, <1>6 DEF Top

LEMMA InitStored == Init => Stored
<1> SUFFICES ASSUME Init PROVE Stored
  OBVIOUS
<1>1. JsonDb(EmptyDb) = EmptyDb
  BY DEF JsonDb, JsonTable, EmptyDb
<1>2. stack \in Seq(Copies) /\ Len(stack) = 0
  BY EmptySeq DEF Init
<1>3. EmptyDb \in Db /\ DbNumbered(EmptyDb)
  BY EmptyDbType, EmptyDbNumbered
<1>4. TypeOK
  <2>1. mem \in Db /\ store \in Db /\ promise \in Db /\ attached \in BOOLEAN
    BY <1>3 DEF Init
  <2>2. pc \in {"closed", "idle", "applied"} /\ savept \in Db \cup {NoDb} /\ behind \in BOOLEAN
    BY DEF Init
  <2> QED
    BY <1>2, <2>1, <2>2 DEF TypeOK, Copies
<1>5. AllNumbered /\ FileIsImage
  BY <1>1, <1>2, <1>3 DEF Init, AllNumbered, FileIsImage
<1> QED
  BY <1>4, <1>5 DEF Stored

LEMMA NextStored == ASSUME Stored, [Next]_vars PROVE Stored'
<1> USE DEF Stored
<1>t. TypeOK /\ mem \in Db /\ store \in Db /\ stack \in Seq(Copies) /\ promise \in Db
      /\ attached \in BOOLEAN /\ DbNumbered(mem) /\ DbNumbered(store)
  BY DEF TypeOK, AllNumbered, Copies
<1>1. CASE CreateOp \/ UpdateOp \/ DeleteOp \/ UpsertOp
  BY <1>1, <1>t, ProgramChange, ProgramRecordsApply, ChangeStored
<1>2. CASE Sync
  <2>1. store' = JsonDb(mem) /\ promise' = JsonDb(mem) /\ JsonDb(mem) \in Db
    BY <1>2, <1>t, JsonDbType DEF Sync, Synced
  <2>2. DbNumbered(store') /\ JsonDb(store') = store'
    BY <1>t, <2>1, JsonDbNumbered, JsonIdempotent
  <2> QED
    BY <1>2, <2>1, <2>2 DEF Sync, handle, TypeOK, AllNumbered, FileIsImage
<1>3. CASE SyncFails
  BY <1>3 DEF SyncFails, handle, TypeOK, AllNumbered, FileIsImage
<1>4. CASE SavepointOp
  BY <1>4 DEF SavepointOp, handle, TypeOK, AllNumbered, FileIsImage
<1>5. CASE RollbackOp
  <2>1. savept \in Db /\ DbNumbered(savept)
    BY <1>5 DEF RollbackOp, TypeOK, AllNumbered
  <2> QED
    BY <1>5, <2>1, ChangeStored DEF RollbackOp
<1>6. CASE BeginTransaction
  <2>1. stack' \in Seq(Copies) /\ \A i \in 1 .. Len(stack') : DbNumbered(stack'[i].tables)
    <3> DEFINE c == [tables |-> mem, attached |-> attached]
    <3>1. c \in Copies /\ c.tables = mem /\ stack' = Append(stack, c)
      BY <1>6, <1>t DEF BeginTransaction, Copies
    <3> HIDE DEF c
    <3> QED
      BY <1>t, <3>1, AppendProperties DEF AllNumbered
  <2> QED
    BY <1>6, <2>1 DEF BeginTransaction, handle, Copies, TypeOK, AllNumbered, FileIsImage
<1>7. CASE CommitTransaction
  <2>1. stack' \in Seq(Copies) /\ \A i \in 1 .. Len(stack') : DbNumbered(stack'[i].tables)
    BY <1>7, <1>t, StackTypes DEF CommitTransaction, AllNumbered
  <2> QED
    BY <1>7, <2>1 DEF CommitTransaction, handle, Copies, TypeOK, AllNumbered, FileIsImage
<1>8. CASE AbortTransaction
  <2>1. stack' \in Seq(Copies) /\ \A i \in 1 .. Len(stack') : DbNumbered(stack'[i].tables)
    BY <1>8, <1>t, StackTypes DEF AbortTransaction, AllNumbered
  <2>2. mem' = Top.tables /\ Top \in Copies /\ DbNumbered(Top.tables)
    BY <1>8, <1>t, StackTypes DEF AbortTransaction, AllNumbered
  <2>3. mem' \in Db /\ attached' \in BOOLEAN /\ behind' \in BOOLEAN
    BY <1>8, <2>2 DEF AbortTransaction, Copies, TypeOK
  <2> QED
    BY <1>8, <2>1, <2>2, <2>3 DEF AbortTransaction, Copies, TypeOK, AllNumbered, FileIsImage
<1>9. CASE Open
  <2>1. mem' = store
    BY <1>9, <1>t, LoadedNumbered DEF Open, FileIsImage
  <2> QED
    BY <1>9, <1>t, <2>1 DEF Open, TypeOK, AllNumbered, FileIsImage
<1>10. CASE Crash
  <2>1. stack' \in Seq(Copies) /\ Len(stack') = 0
    BY <1>10, EmptySeq DEF Crash
  <2>2. mem' = EmptyDb /\ savept' = NoDb /\ attached' = FALSE /\ pc' = "closed" /\ UNCHANGED <<store, promise, behind>>
    BY <1>10 DEF Crash
  <2>3. TypeOK'
    BY <2>1, <2>2, EmptyDbType DEF TypeOK, Copies
  <2>4. AllNumbered' /\ FileIsImage'
    BY <2>1, <2>2, EmptyDbNumbered DEF AllNumbered, FileIsImage
  <2> QED
    BY <2>3, <2>4
<1>11. CASE ReplaceHandle
  <2>1. mem' \in Db /\ DbNumbered(mem')
    BY <1>11 DEF ReplaceHandle, Images, DbNumbered
  <2> QED
    BY <1>11, <2>1 DEF ReplaceHandle, TypeOK, AllNumbered, FileIsImage
<1>12. CASE UNCHANGED vars
  BY <1>12 DEF vars, handle, TypeOK, AllNumbered, FileIsImage
<1> QED
  BY <1>1, <1>2, <1>3, <1>4, <1>5, <1>6, <1>7, <1>8, <1>9, <1>10, <1>11, <1>12 DEF Next

LEMMA SpecStored == Spec => []Stored
BY InitStored, NextStored, PTL DEF Spec

(* No mutation, rollback, failed transaction, failed sync or crash makes    *)
(* two rows of a table share an id, in the tables or in the file: no sync   *)
(* ever meets its primary key (replace_sqlite_snapshot).                    *)
THEOREM RowsStayNumbered == Spec => []RowsWellNumbered
<1>1. Stored => RowsWellNumbered
  BY DEF Stored, AllNumbered, DbNumbered, RowsWellNumbered
<1> QED
  BY <1>1, SpecStored, PTL

(* A restart shows the tables of the last synced operation, however often   *)
(* syncs fail, transactions are undone, other handles are loaded and the    *)
(* process dies (create_logged and its kin, load_sqlite, restore_json).     *)
THEOREM TheStoreKeepsItsPromise == Spec => []StoreKeepsPromise
<1>1. Stored => StoreKeepsPromise
  BY LoadedNumbered DEF Stored, TypeOK, AllNumbered, FileIsImage, StoreKeepsPromise
<1> QED
  BY <1>1, SpecStored, PTL

(***************************************************************************)
(* The refinement.  Unless the file is behind, an idle handle shows what   *)
(* it holds, and one that is about to sync shows it but for one mutation   *)
(* or one rollback.  A handle off the file, and one that a transaction     *)
(* would put back off the file, is behind.                                 *)
(***************************************************************************)
IdleIsStored == pc = "idle" /\ ~behind => JsonDb(mem) = store

AppliedIsNext ==
    pc = "applied" /\ ~behind =>
        \/ \E r \in ProgramRecords : JsonDb(mem) = Apply(store, JsonRec(r))
        \/ savept # NoDb /\ mem = savept

OffIsBehind ==
    /\ pc # "closed" /\ ~attached => behind
    /\ pc = "closed" => stack = <<>>
    /\ pc = "applied" => attached
    /\ \A i \in 1 .. Len(stack) : ~stack[i].attached =>
          ~attached /\ \A j \in i .. Len(stack) : ~stack[j].attached

Following ==
    /\ Stored
    /\ OffIsBehind
    /\ IdleIsStored
    /\ AppliedIsNext

LEMMA InitFollowing == Init => Following
<1> SUFFICES ASSUME Init PROVE Following
  OBVIOUS
<1>1. Len(stack) = 0
  BY EmptySeq DEF Init
<1> QED
  BY <1>1, InitStored DEF Init, Following, OffIsBehind, IdleIsStored, AppliedIsNext

LEMMA NextOffIsBehind ==
    ASSUME Stored, OffIsBehind, [Next]_vars
    PROVE  OffIsBehind'
<1>t. stack \in Seq(Copies) /\ attached \in BOOLEAN /\ behind \in BOOLEAN /\ Len(stack) \in Nat
  BY LenProperties DEF Stored, TypeOK, Copies
<1>1. CASE CreateOp \/ UpdateOp \/ DeleteOp \/ UpsertOp \/ RollbackOp
  <2>1. \E db : ChangeTables(db)
    BY <1>1, ProgramChange DEF RollbackOp
  <2> QED
    BY <2>1 DEF ChangeTables, OffIsBehind
<1>2. CASE Sync
  BY <1>2 DEF Sync, handle, OffIsBehind
<1>3. CASE SyncFails \/ SavepointOp
  BY <1>3 DEF SyncFails, SavepointOp, handle, OffIsBehind
<1>4. CASE BeginTransaction
  <2> DEFINE c == [tables |-> mem, attached |-> attached]
  <2>1. c \in Copies /\ c.attached = attached /\ stack' = Append(stack, c)
    BY <1>4, <1>t DEF BeginTransaction, Copies, Stored, TypeOK
  <2> HIDE DEF c
  <2>2. /\ Len(stack') = Len(stack) + 1 /\ stack'[Len(stack')] = c
        /\ \A i \in 1 .. Len(stack) : stack'[i] = stack[i]
    BY <1>t, <2>1, AppendProperties
  <2>3. UNCHANGED <<pc, attached, behind>> /\ pc = "idle"
    BY <1>4 DEF BeginTransaction, handle
  <2>4. ASSUME NEW i \in 1 .. Len(stack'), ~stack'[i].attached
        PROVE  ~attached' /\ \A j \in i .. Len(stack') : ~stack'[j].attached
    <3>1. CASE i = Len(stack')
      BY <1>t, <2>1, <2>2, <2>3, <2>4, <3>1
    <3>2. CASE i # Len(stack')
      <4>1. i \in 1 .. Len(stack) /\ ~stack[i].attached
        BY <1>t, <2>2, <2>4, <3>2
      <4>2. ~attached /\ \A j \in i .. Len(stack) : ~stack[j].attached
        BY <4>1 DEF OffIsBehind
      <4> QED
        BY <1>t, <2>1, <2>2, <2>3, <4>1, <4>2
    <3> QED
      BY <3>1, <3>2
  <2> QED
    BY <2>3, <2>4 DEF OffIsBehind
<1>5. CASE CommitTransaction \/ AbortTransaction
  <2>1. /\ stack' = Rest /\ stack # <<>> /\ pc = "idle" /\ pc' = "idle"
        /\ \/ attached' = attached /\ behind' = behind
           \/ attached' = Top.attached /\ (behind => behind')
    <3>1. CASE CommitTransaction
      BY <3>1 DEF CommitTransaction, handle
    <3>2. CASE AbortTransaction
      BY <1>t, <3>2 DEF AbortTransaction
    <3> QED
      BY <1>5, <3>1, <3>2
  <2>2. /\ Top = stack[Len(stack)] /\ Len(stack) \in 1 .. Len(stack) /\ Rest \in Seq(Copies)
        /\ \A i \in 1 .. Len(Rest) : i \in 1 .. Len(stack) /\ Rest[i] = stack[i]
    BY <1>t, <2>1, StackTypes
  <2>3. Len(Rest) \in Nat
    BY <2>2, LenProperties
  <2>4. ~Top.attached => ~attached
    BY <2>2 DEF OffIsBehind
  <2>5. pc' # "closed" /\ ~attached' => behind'
    BY <2>1, <2>4 DEF OffIsBehind
  <2>6. ASSUME NEW i \in 1 .. Len(Rest), ~Rest[i].attached
        PROVE  ~attached' /\ \A j \in i .. Len(Rest) : ~Rest[j].attached
    <3>1. i \in 1 .. Len(stack) /\ ~stack[i].attached
      BY <2>2, <2>6
    <3>2. ~attached /\ \A j \in i .. Len(stack) : ~stack[j].attached
      BY <3>1 DEF OffIsBehind
    <3>3. Len(stack) \in i .. Len(stack) /\ \A j \in i .. Len(Rest) : j \in 1 .. Len(Rest) /\ j \in i .. Len(stack)
      BY <1>t, <2>2, <2>3, <3>1
    <3>4. ~Top.attached
      BY <2>2, <3>2, <3>3
    <3> QED
      BY <2>1, <2>2, <3>2, <3>3, <3>4
  <2> QED
    BY <2>1, <2>5, <2>6 DEF OffIsBehind
<1>6. CASE ReplaceHandle
  <2>1. UNCHANGED <<stack, pc>> /\ pc = "idle" /\ attached' = FALSE /\ behind' = TRUE
    BY <1>6 DEF ReplaceHandle
  <2> QED
    BY <2>1 DEF OffIsBehind
<1>7. CASE Open
  <2>1. stack' = stack /\ stack = <<>> /\ Len(stack) = 0 /\ attached' = TRUE /\ pc' = "idle"
    BY <1>7, EmptySeq DEF Open, OffIsBehind
  <2> QED
    BY <2>1 DEF OffIsBehind
<1>8. CASE Crash
  <2>1. stack' = <<>> /\ Len(stack') = 0 /\ pc' = "closed"
    BY <1>8, EmptySeq DEF Crash
  <2> QED
    BY <2>1 DEF OffIsBehind
<1>9. CASE UNCHANGED vars
  BY <1>9 DEF vars, handle, OffIsBehind
<1> QED
  BY <1>1, <1>2, <1>3, <1>4, <1>5, <1>6, <1>7, <1>8, <1>9 DEF Next

LEMMA NextFollowing ==
    ASSUME FiltersSurviveJson, Following, [Next]_vars
    PROVE  Following'
<1> USE DEF Following
<1>t. /\ Stored' /\ OffIsBehind' /\ mem \in Db /\ store \in Db
      /\ JsonDb(store) = store /\ DbNumbered(store)
  BY NextStored, NextOffIsBehind DEF Stored, TypeOK, AllNumbered, FileIsImage
<1>1. CASE CreateOp \/ UpdateOp \/ DeleteOp \/ UpsertOp
  <2>1. PICK r \in ProgramRecords : ChangeTables(Apply(mem, r))
    BY <1>1, ProgramChange
  <2>2. /\ pc = "idle" /\ pc' = (IF attached THEN "applied" ELSE pc) /\ mem' = Apply(mem, r)
        /\ store' = store /\ behind' = behind
    BY <2>1 DEF ChangeTables
  <2>3. JsonDb(mem') = Apply(JsonDb(mem), JsonRec(r))
    BY <1>t, <2>2, ApplyImage
  <2>4. ~attached => behind
    BY <2>2 DEF OffIsBehind
  <2> QED
    BY <1>t, <2>2, <2>3, <2>4 DEF IdleIsStored, AppliedIsNext
<1>2. CASE Sync
  BY <1>2, <1>t DEF Sync, Synced, handle, IdleIsStored, AppliedIsNext
<1>3. CASE SyncFails
  BY <1>3, <1>t DEF SyncFails, IdleIsStored, AppliedIsNext
<1>4. CASE SavepointOp
  BY <1>4, <1>t DEF SavepointOp, handle, IdleIsStored, AppliedIsNext
<1>5. CASE RollbackOp
  BY <1>5, <1>t DEF RollbackOp, ChangeTables, OffIsBehind, IdleIsStored, AppliedIsNext
<1>6. CASE BeginTransaction \/ CommitTransaction
  BY <1>6, <1>t DEF BeginTransaction, CommitTransaction, handle, IdleIsStored, AppliedIsNext
<1>7. CASE AbortTransaction
  BY <1>7, <1>t DEF AbortTransaction, IdleIsStored, AppliedIsNext
<1>8. CASE Open
  BY <1>8, <1>t, LoadedNumbered DEF Open, IdleIsStored, AppliedIsNext
<1>9. CASE Crash
  BY <1>9, <1>t DEF Crash, IdleIsStored, AppliedIsNext
<1>10. CASE ReplaceHandle
  BY <1>10, <1>t DEF ReplaceHandle, IdleIsStored, AppliedIsNext
<1>11. CASE UNCHANGED vars
  BY <1>11, <1>t DEF vars, handle, IdleIsStored, AppliedIsNext
<1> QED
  BY <1>1, <1>2, <1>3, <1>4, <1>5, <1>6, <1>7, <1>8, <1>9, <1>10, <1>11 DEF Next

\* A mutation means the same in the abstract database.
LEMMA SameApply ==
    /\ \A db, r : Durable!Apply(db, r) = Apply(db, r)
    /\ \A r : r.op \in {"create", "update", "delete"} => Durable!JsonRec(r) = JsonRec(r)
    /\ Durable!MutationRecs = MutationRecs
<1>1. \A db, r : Durable!Apply(db, r) = Apply(db, r)
  BY DEF Durable!Apply, Durable!Create, Durable!Update, Durable!Delete, Durable!Matches, Durable!ValuesEq,
         Apply, Create, Update, Delete, Matches, ValuesEq
<1>2. \A r : r.op \in {"create", "update", "delete"} => Durable!JsonRec(r) = JsonRec(r)
  BY DEF Durable!JsonRec, Durable!CreateRec, Durable!UpdateRec, Durable!DeleteRec, Durable!JsonFilter,
         JsonRec, CreateRec, UpdateRec, DeleteRec, JsonFilter
<1>3. Durable!MutationRecs = MutationRecs
  BY DEF Durable!MutationRecs, Durable!Filters, MutationRecs, Filters
<1> QED
  BY <1>1, <1>2, <1>3

\* What the handle shows, and what it can go back to.
View  == IF pc = "idle" THEN JsonDb(mem) ELSE Loaded(store)
Marks == {JsonDb(stack[i].tables) : i \in DOMAIN stack} \cup {JsonDb(db) : db \in {savept} \ {NoDb}}

\* The steps of the durable database, in terms of what the handle shows.
LEMMA AbstractSteps ==
    /\ pc # "closed" /\ pc' # "closed" /\ View' = View /\ Marks' \in SUBSET (Marks \cup {View})
          => Durable!Next
    /\ pc # "closed" /\ pc' # "closed" /\ View' \in Marks /\ Marks' = Marks
          => Durable!Next
    /\ pc # "closed" /\ pc' # "closed" /\ Marks' = Marks
       /\ (\E r \in ProgramRecords : View' = Apply(View, JsonRec(r)))
          => Durable!Next
    /\ pc = "closed" /\ pc' # "closed" /\ View' = View /\ Marks' = Marks => Durable!Next
    /\ pc # "closed" /\ pc' = "closed" /\ View' = View /\ Marks' \in SUBSET Marks => Durable!Next
<1> USE DEF View, Marks
<1>1. pc # "closed" /\ pc' # "closed" /\ View' = View /\ Marks' \in SUBSET (Marks \cup {View})
         => Durable!Mark
  BY DEF Durable!Mark
<1>2. pc # "closed" /\ pc' # "closed" /\ View' \in Marks /\ Marks' = Marks
         => Durable!Restore
  BY DEF Durable!Restore
<1>3. pc # "closed" /\ pc' # "closed" /\ Marks' = Marks
      /\ (\E r \in ProgramRecords : View' = Apply(View, JsonRec(r)))
         => Durable!Change
  <2> HIDE DEF View, Marks
  <2> SUFFICES ASSUME pc # "closed", pc' # "closed", Marks' = Marks,
                      NEW r \in ProgramRecords, View' = Apply(View, JsonRec(r))
               PROVE  Durable!Change
    OBVIOUS
  <2>1. r.op \in {"create", "update", "delete"} /\ r \in MutationRecs
    BY DEF ProgramRecords, MutationRecs
  <2>2. Durable!JsonRec(r) \in Durable!JsonMutations
    BY <2>1, SameApply DEF Durable!JsonMutations
  <2>3. View' = Durable!Apply(View, Durable!JsonRec(r))
    BY <2>1, SameApply
  <2> QED
    BY <2>2, <2>3 DEF Durable!Change, View, Marks
<1>4. pc = "closed" /\ pc' # "closed" /\ View' = View /\ Marks' = Marks => Durable!Start
  BY DEF Durable!Start
<1>5. pc # "closed" /\ pc' = "closed" /\ View' = View /\ Marks' \in SUBSET Marks => Durable!Stop
  BY DEF Durable!Stop
<1> HIDE DEF View, Marks
<1> QED
  BY <1>1, <1>2, <1>3, <1>4, <1>5 DEF Durable!Next

LEMMA ViewIsStored == ASSUME Following, ~behind PROVE View = store
<1>1. store \in Db /\ DbNumbered(store)
  BY DEF Following, Stored, TypeOK, AllNumbered
<1> QED
  BY <1>1, LoadedNumbered DEF Following, IdleIsStored, View

LEMMA StepImplements ==
    ASSUME FiltersSurviveJson, Following, Next, ~behind, ~behind'
    PROVE  Durable!Next \/ UNCHANGED Durable!vars
<1>v. View = store /\ View' = store'
  <2>1. Following'
    BY NextFollowing
  <2>2. store' \in Db /\ DbNumbered(store')
    BY <2>1 DEF Following, Stored, TypeOK, AllNumbered
  <2>3. Loaded(store') = store'
    BY <2>2, LoadedNumbered
  <2> QED
    BY <2>1, <2>3, ViewIsStored DEF Following, IdleIsStored, View
<1>t. stack \in Seq(Copies) /\ DOMAIN stack = 1 .. Len(stack) /\ mem \in Db /\ attached \in BOOLEAN
  BY LenProperties DEF Following, Stored, TypeOK, Copies
<1>a. pc # "closed" => attached
  BY <1>t DEF Following, OffIsBehind
<1>1. CASE CreateOp \/ UpdateOp \/ DeleteOp \/ UpsertOp \/ RollbackOp
  <2>1. /\ pc = "idle" /\ pc' = "applied" /\ UNCHANGED <<store, stack, savept>>
    BY <1>1, <1>a, ProgramChange DEF RollbackOp, ChangeTables
  <2> QED
    BY <1>v, <2>1, AbstractSteps DEF Marks
<1>2. CASE Sync
  <2>1. /\ pc = "applied" /\ pc' = "idle" /\ store' = JsonDb(mem) /\ Marks' = Marks
    BY <1>2 DEF Sync, Synced, Marks
  <2>2. CASE \E r \in ProgramRecords : JsonDb(mem) = Apply(store, JsonRec(r))
    BY <1>v, <2>1, <2>2, AbstractSteps
  <2>3. CASE savept # NoDb /\ mem = savept
    <3>1. View' \in Marks
      BY <1>v, <2>1, <2>3 DEF Marks
    <3> QED
      BY <2>1, <3>1, AbstractSteps
  <2> QED
    BY <2>1, <2>2, <2>3 DEF Following, AppliedIsNext
<1>3. CASE SyncFails
  BY <1>3 DEF SyncFails
<1>4. CASE SavepointOp
  <2>1. pc = "idle" /\ pc' = "idle" /\ savept' = mem /\ UNCHANGED <<store, stack>> /\ JsonDb(mem) = store
    BY <1>4 DEF SavepointOp, Following, IdleIsStored
  <2>2. Marks' \in SUBSET (Marks \cup {View})
    BY <1>v, <2>1 DEF Marks
  <2> QED
    BY <1>v, <2>1, <2>2, AbstractSteps
<1>5. CASE BeginTransaction
  <2>1. pc = "idle" /\ pc' = "idle" /\ UNCHANGED <<store, savept>> /\ JsonDb(mem) = store
    BY <1>5 DEF BeginTransaction, Following, IdleIsStored
  <2>2. \A i \in DOMAIN stack' :
            stack'[i].tables = mem \/ (i \in DOMAIN stack /\ stack'[i] = stack[i])
    <3> DEFINE c == [tables |-> mem, attached |-> attached]
    <3>1. c \in Copies /\ c.tables = mem /\ stack' = Append(stack, c)
      BY <1>5, <1>t DEF BeginTransaction, Copies
    <3> HIDE DEF c
    <3> QED
      BY <1>t, <3>1, AppendProperties
  <2>3. Marks' \in SUBSET (Marks \cup {View})
    BY <1>v, <2>1, <2>2 DEF Marks
  <2> QED
    BY <1>v, <2>1, <2>3, AbstractSteps
<1>6. CASE CommitTransaction \/ AbortTransaction
  <2>1. pc = "idle" /\ pc' = "idle" /\ stack # <<>> /\ stack' = Rest /\ UNCHANGED <<store, savept>>
    BY <1>6 DEF CommitTransaction, AbortTransaction
  <2>2. \A i \in DOMAIN stack' : i \in DOMAIN stack /\ stack'[i] = stack[i]
    BY <1>t, <2>1, StackTypes, LenProperties
  <2>3. Marks' \in SUBSET (Marks \cup {View})
    BY <2>1, <2>2 DEF Marks
  <2> QED
    BY <1>v, <2>1, <2>3, AbstractSteps
<1>7. CASE Open
  <2>1. pc = "closed" /\ pc' = "idle" /\ UNCHANGED <<store, stack, savept>>
    BY <1>7 DEF Open
  <2> QED
    BY <1>v, <2>1, AbstractSteps DEF Marks
<1>8. CASE Crash
  <2>1. pc # "closed" /\ pc' = "closed" /\ stack' = <<>> /\ savept' = NoDb /\ store' = store
    BY <1>8 DEF Crash
  <2>2. Marks' = {}
    BY <2>1 DEF Marks
  <2> QED
    BY <1>v, <2>1, <2>2, AbstractSteps
<1>9. CASE ReplaceHandle
  BY <1>9 DEF ReplaceHandle
<1> QED
  BY <1>1, <1>2, <1>3, <1>4, <1>5, <1>6, <1>7, <1>8, <1>9 DEF Next

(* For every program whose filters mean the same on JSON images: while no   *)
(* failed sync, failed transaction, load or wal leaves the file behind what *)
(* the program sees, the handle is a durable database, whose mutations,     *)
(* marks and stops are the operations of db.rs with their syncs and the     *)
(* crashes between them.  A handle that load or wal took off the file is    *)
(* not one, and stays behind until a restart, or until an undone            *)
(* transaction puts the old handle back and a sync goes through.            *)
THEOREM SqliteIsDurable ==
    ASSUME FiltersSurviveJson
    PROVE  Spec => ImplementsDurableDb
<1>1. Following /\ [Next]_vars => Following'
  BY NextFollowing
<1>2. Following /\ [Next]_vars => [~behind /\ ~behind' => Durable!Next \/ UNCHANGED Durable!vars]_vars
  BY StepImplements
<1> QED
  BY <1>1, <1>2, InitFollowing, PTL DEF Spec, ImplementsDurableDb
==============================================================================
