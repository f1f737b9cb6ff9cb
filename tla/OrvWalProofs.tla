----------------------------- MODULE OrvWalProofs -----------------------------
(***************************************************************************)
(* What holds of OrvWal for every set of tables and values, every program  *)
(* and every number of faults.                                             *)
(***************************************************************************)
EXTENDS OrvWalRefines, OrvTablesProofs, SequenceTheorems, TLAPS, NaturalsInduction, WellFoundedInduction

USE DEF Row, Table, Db

(***************************************************************************)
(* Typing of the file operators.                                           *)
(***************************************************************************)

LEMMA FileTypes ==
    /\ NoFile \in Files /\ NoApp \in [rec : Recs, before : Files] /\ NoLoad \in [pos : Nat, db : Db, live : BOOLEAN]
    /\ \A db \in Db : Compacted(db) \in Files
    /\ \A f \in Files, text \in Recs \cup {Torn, Garbled} : Written(f, text) \subseteq Files
<1>1. NoFile \in Files
  BY DEF NoFile, Files
<1>2. CheckpointRec(EmptyDb) \in Recs
  BY EmptyDbType DEF CheckpointRec, Recs
<1>3. NoApp \in [rec : Recs, before : Files] /\ NoLoad \in [pos : Nat, db : Db, live : BOOLEAN]
  BY <1>1, <1>2, EmptyDbType DEF NoApp, NoLoad
<1>4. ASSUME NEW db \in Db PROVE Compacted(db) \in Files
  <2>1. CheckpointRec(JsonDb(db)) \in Recs
    BY JsonDbType DEF CheckpointRec, Recs
  <2> QED
    BY <2>1 DEF Compacted, Files, Lines
<1>5. ASSUME NEW f \in Files, NEW text \in Recs \cup {Torn, Garbled}
      PROVE  Written(f, text) \subseteq Files
  <2>1. Glue(f.tail, text) \subseteq Recs \cup {Torn, Garbled}
    BY DEF Glue
  <2> QED
    BY <2>1 DEF Written, Files
<1> QED
  BY <1>1, <1>3, <1>4, <1>5

LEMMA TerminatedType ==
    ASSUME NEW f \in Files, f.tail # NoTail
    PROVE  Terminated(f) \in Files
BY DEF Terminated, Files, Lines

\* Every file an append cut short can leave.
CutFiles == Whole \cup UNION {Written(app.before, form) : form \in TornForms}

LEMMA CutShortLeaves ==
    ASSUME CutShort
    PROVE  file' \in CutFiles /\ (harm' = harm \/ harm' = harm \cup {"character"})
BY DEF CutShort, CutFiles

LEMMA CutFilesType ==
    ASSUME TypeOK
    PROVE  CutFiles \subseteq Files
<1>1. JsonRec(app.rec) \in Recs
  BY JsonRecType DEF TypeOK
<1>2. \A form \in TornForms : Written(app.before, form) \subseteq Files
  BY FileTypes, WalAssumption DEF TypeOK
<1> QED
  BY <1>1, <1>2, FileTypes DEF TypeOK, Whole, CutFiles

LEMMA PromiseType ==
    ASSUME TypeOK, NEW dbs \in SUBSET Db, Promise(dbs)
    PROVE  promise' \in [op : SUBSET Db, txn : SUBSET Db]
BY DEF TypeOK, Promise

(***************************************************************************)
(* Type correctness.  An append is only under way on an unterminated file, *)
(* which is what lets its newline make a line.                             *)
(***************************************************************************)
Typed ==
    /\ TypeOK
    /\ pc = "written" => file.tail # NoTail

LEMMA MutateTyped ==
    ASSUME Typed, NEW r \in MutationRecs, Mutate(r)
    PROVE  Typed'
<1>r. r \in Recs /\ JsonRec(r) \in Recs
  BY JsonRecType DEF Recs
<1>t. Apply(mem, r) \in Db /\ JsonDb(Apply(mem, r)) \in Db /\ JsonDb(mem) \in Db
  BY <1>r, ApplyType, JsonDbType DEF Typed, TypeOK
<1>1. CASE logging /\ WriteRecord(r)
  <2>1. file' \in Files
    BY <1>1, <1>r, FileTypes DEF Typed, TypeOK, WriteRecord
  <2>2. file'.tail # NoTail
    BY <1>1, <1>r, WalAssumption DEF Typed, TypeOK, WriteRecord, Written, Glue, Files
  <2>3. app' \in [rec : Recs, before : Files]
    BY <1>1, <1>r DEF Typed, TypeOK, WriteRecord
  <2>4. \A db \in Db : Apply(db, JsonRec(r)) \in Db
    BY <1>r, ApplyType
  <2>5. promise' \in [op : SUBSET Db, txn : SUBSET Db]
    <3>1. {JsonDb(mem), JsonDb(Apply(mem, r))}
            \cup InDoubt \cup {Apply(db, JsonRec(r)) : db \in InDoubt} \in SUBSET Db
      BY <1>t, <2>4 DEF InDoubt, Typed, TypeOK
    <3> QED
      BY <3>1, <1>1, PromiseType DEF Typed, WriteRecord
  <2>6. harm' \subseteq {"character", "behind"}
    BY <1>1 DEF Typed, TypeOK, WriteRecord
  <2> QED
    BY <1>1, <2>1, <2>2, <2>3, <2>5, <2>6 DEF Typed, TypeOK, WriteRecord
<1>2. CASE ~logging /\ ApplyUnlogged(r)
  <2>1. mem' \in Db
    BY <1>2, <1>t DEF ApplyUnlogged
  <2>2. promise' \in [op : SUBSET Db, txn : SUBSET Db]
    <3>1. {JsonDb(mem')} \in SUBSET Db
      BY <2>1, JsonDbType
    <3> QED
      BY <3>1, <1>2, PromiseType DEF Typed, ApplyUnlogged
  <2> QED
    BY <1>2, <2>1, <2>2 DEF Typed, TypeOK, ApplyUnlogged
<1> QED
  BY <1>1, <1>2 DEF Mutate

LEMMA ProgramRecs ==
    ASSUME NEW t \in Tables, NEW f \in ProgramFilters, NEW v \in Vals
    PROVE  /\ CreateRec(t, v) \in MutationRecs
           /\ UpdateRec(t, f, v) \in MutationRecs
           /\ DeleteRec(t, f) \in MutationRecs
           /\ UpsertRec(mem, t, f, v) \in MutationRecs
<1>1. /\ CreateRec(t, v) \in MutationRecs
      /\ UpdateRec(t, f, v) \in MutationRecs
      /\ DeleteRec(t, f) \in MutationRecs
  BY DEF MutationRecs, CreateRec, UpdateRec, DeleteRec, ProgramFilters
<1> QED
  BY <1>1 DEF UpsertRec

LEMMA RestoreTyped ==
    ASSUME TypeOK, NEW db \in Db, NEW enabled, CompactAfterRestore(db, enabled)
    PROVE  /\ file' \in Files
           /\ promise' \in [op : SUBSET Db, txn : SUBSET Db]
           /\ faults' \in 0..MaxFaults /\ harm' \subseteq {"character", "behind"}
<1>0. /\ (file' = file /\ harm' = harm) \/ (file' = Compacted(db) /\ harm' = {})
      /\ faults' = faults \/ (faults < MaxFaults /\ faults' = faults + 1)
  BY DEF CompactAfterRestore, Replace
<1>1. file' \in Files /\ faults' \in 0..MaxFaults /\ harm' \subseteq {"character", "behind"}
  <2>1. file \in Files /\ faults \in 0..MaxFaults /\ harm \subseteq {"character", "behind"} /\ MaxFaults \in Nat
    BY WalAssumption DEF TypeOK
  <2>2. Compacted(db) \in Files
    BY FileTypes
  <2>3. faults' \in 0..MaxFaults
    BY <1>0, <2>1
  <2> QED
    BY <1>0, <2>1, <2>2, <2>3
<1>2. {JsonDb(db)} \in SUBSET Db /\ {JsonDb(db)} \cup promise.op \in SUBSET Db
  BY JsonDbType DEF TypeOK
<1>3. promise' \in [op : SUBSET Db, txn : SUBSET Db]
  BY <1>2, PromiseType DEF CompactAfterRestore
<1> QED
  BY <1>1, <1>3

LEMMA StackTypes ==
    ASSUME TypeOK, stack # <<>>
    PROVE  /\ Top \in [tables : Db, logging : BOOLEAN]
           /\ Rest \in Seq([tables : Db, logging : BOOLEAN])
<1> DEFINE S == [tables : Db, logging : BOOLEAN]
<1>1. stack \in Seq(S)
  BY DEF TypeOK
<1> HIDE DEF S
<1>2. Len(stack) \in Nat \ {0}
  BY <1>1, EmptySeq
<1>3. \A i \in 1 .. Len(stack) : stack[i] \in S
  BY <1>1, ElementOfSeq
<1>4. SubSeq(stack, 1, Len(stack) - 1) \in Seq(S)
  BY <1>2, <1>3, SubSeqProperties
<1> QED
  BY <1>2, <1>3, <1>4 DEF Top, Rest, S

LEMMA InitTyped == Init => Typed
<1> SUFFICES ASSUME Init PROVE Typed
  OBVIOUS
<1>1. stack \in Seq([tables : Db, logging : BOOLEAN])
  BY EmptySeq DEF Init
<1>2. promise \in [op : SUBSET Db, txn : SUBSET Db]
  BY EmptyDbType DEF Init
<1>3. load \in [pos : Nat, db : Db, live : BOOLEAN] /\ app \in [rec : Recs, before : Files] /\ file \in Files
  BY FileTypes DEF Init
<1>4. mem \in Db /\ faults \in 0..MaxFaults
  BY EmptyDbType, WalAssumption DEF Init
<1> QED
  BY <1>1, <1>2, <1>3, <1>4 DEF Init, Typed, TypeOK

\* Each of the four methods writes, or applies, one mutation record.
LEMMA ProgramMutation ==
    ASSUME CreateOp \/ UpdateOp \/ DeleteOp \/ UpsertOp
    PROVE  \E r \in MutationRecs : Mutate(r)
<1>1. CASE CreateOp
  <2>1. PICK t \in Tables, v \in Vals : Mutate(CreateRec(t, v))
    BY <1>1 DEF CreateOp
  <2>2. CreateRec(t, v) \in MutationRecs
    BY DEF CreateRec, MutationRecs
  <2> QED
    BY <2>1, <2>2
<1>2. CASE UpdateOp
  BY <1>2, ProgramRecs DEF UpdateOp
<1>3. CASE DeleteOp
  <2>1. PICK t \in Tables, f \in ProgramFilters : Mutate(DeleteRec(t, f))
    BY <1>3 DEF DeleteOp
  <2>2. DeleteRec(t, f) \in MutationRecs
    BY DEF DeleteRec, MutationRecs, ProgramFilters
  <2> QED
    BY <2>1, <2>2
<1>4. CASE UpsertOp
  BY <1>4, ProgramRecs DEF UpsertOp
<1> QED
  BY <1>1, <1>2, <1>3, <1>4

LEMMA NextTyped ==
    ASSUME Typed, [Next]_vars
    PROVE  Typed'
<1> USE DEF Typed
<1>t. TypeOK
  OBVIOUS
<1>1. CASE CreateOp \/ UpdateOp \/ DeleteOp \/ UpsertOp
  BY <1>1, ProgramMutation, MutateTyped
<1>2. CASE WriteNewline
  <2>1. file' \in Files
    BY <1>2, TerminatedType DEF TypeOK, WriteNewline
  <2> QED
    BY <1>2, <2>1 DEF TypeOK, WriteNewline
<1>3. CASE SyncAndApply
  <2>1. mem' \in Db
    BY <1>3, ApplyType DEF TypeOK, SyncAndApply
  <2>2. promise' \in [op : SUBSET Db, txn : SUBSET Db]
    BY <1>3, <2>1, JsonDbType, PromiseType DEF SyncAndApply
  <2> QED
    BY <1>3, <2>1, <2>2, FileTypes DEF TypeOK, SyncAndApply
<1>4. CASE AppendFails
  <2>1. faults' \in 0..MaxFaults
    BY <1>4, WalAssumption DEF TypeOK, AppendFails
  <2>2. file' \in Files /\ harm' \subseteq {"character", "behind"}
    BY <1>4, <1>t, CutShortLeaves, CutFilesType DEF TypeOK, AppendFails
  <2> QED
    BY <1>4, <2>1, <2>2, FileTypes DEF TypeOK, AppendFails
<1>5. CASE CheckpointOp
  BY <1>5, FileTypes DEF TypeOK, CheckpointOp, Replace, handle
<1>6. CASE SavepointOp
  BY <1>6 DEF TypeOK, SavepointOp, handle, disk
<1>7. CASE RollbackOp
  <2>1. savept \in Db
    BY <1>7 DEF TypeOK, RollbackOp
  <2> QED
    BY <1>7, <2>1, RestoreTyped DEF TypeOK, RollbackOp
<1>8. CASE BeginTransaction
  <2>1. stack' \in Seq([tables : Db, logging : BOOLEAN])
    BY <1>8 DEF TypeOK, BeginTransaction
  <2>2. promise' \in [op : SUBSET Db, txn : SUBSET Db]
    <3>1. JsonDb(mem) \in Db
      BY JsonDbType DEF TypeOK
    <3> QED
      BY <1>8, <3>1 DEF TypeOK, BeginTransaction
  <2> QED
    BY <1>8, <2>1, <2>2 DEF TypeOK, BeginTransaction, handle, disk
<1>9. CASE CommitTransaction
  <2>1. stack' \in Seq([tables : Db, logging : BOOLEAN])
    BY <1>9, StackTypes DEF CommitTransaction
  <2>2. promise' \in [op : SUBSET Db, txn : SUBSET Db]
    BY <1>9 DEF TypeOK, CommitTransaction
  <2> QED
    BY <1>9, <2>1, <2>2 DEF TypeOK, CommitTransaction, handle, disk
<1>10. CASE AbortTransaction
  <2>1. Top.tables \in Db /\ Top.logging \in BOOLEAN
    BY <1>10, StackTypes DEF AbortTransaction
  <2>2. stack' \in Seq([tables : Db, logging : BOOLEAN])
    BY <1>10, StackTypes DEF AbortTransaction
  <2> QED
    BY <1>10, <2>1, <2>2, RestoreTyped DEF TypeOK, AbortTransaction
<1>11. CASE BeginSave \/ EndSave
  BY <1>11, JsonDbType DEF TypeOK, BeginSave, EndSave, handle
<1>12. CASE LoadOp
  <2>1. promise' \in [op : SUBSET Db, txn : SUBSET Db]
    BY <1>12 DEF TypeOK, LoadOp
  <2> QED
    BY <1>12, <2>1 DEF TypeOK, LoadOp, disk
<1>13. CASE OpenLog \/ RefuseLog
  BY <1>13, FileTypes DEF TypeOK, OpenLog, RefuseLog, handle, disk
<1>14. CASE ReplayLine
  <2>1. file.lines \in Seq(Lines)
    BY DEF TypeOK, Files
  <2>2. load.pos + 1 \in 1 .. Len(file.lines)
    BY <1>14, <2>1, LenProperties DEF TypeOK, ReplayLine
  <2>3. file.lines[load.pos + 1] \in Recs
    BY <1>14, <2>1, <2>2, ElementOfSeq DEF ReplayLine, Lines
  <2>4. load' \in [pos : Nat, db : Db, live : BOOLEAN]
    <3>1. Apply(load.db, file.lines[load.pos + 1]) \in Db
      BY <2>3, ApplyType DEF TypeOK
    <3>2. load' = [load EXCEPT !.pos = @ + 1, !.db = Apply(@, file.lines[load.pos + 1])]
      BY <1>14 DEF ReplayLine
    <3>3. load \in [pos : Nat, db : Db, live : BOOLEAN]
      BY DEF TypeOK
    <3>4. load' = [pos |-> load.pos + 1, db |-> Apply(load.db, file.lines[load.pos + 1]),
                   live |-> load.live]
      BY <3>2, <3>3
    <3> QED
      BY <3>1, <3>3, <3>4
  <2> QED
    BY <1>14, <2>4 DEF TypeOK, ReplayLine, handle, disk
<1>15. CASE ReplayEnd
  <2>1. mem' \in Db
    BY <1>15, ApplyType DEF TypeOK, ReplayEnd, Files
  <2> QED
    BY <1>15, <2>1, FileTypes DEF TypeOK, ReplayEnd, disk
<1>16. CASE Stop \/ Crash
  <2>1. file' \in Files /\ harm' \subseteq {"character", "behind"}
    BY <1>16, <1>t, CutShortLeaves, CutFilesType DEF TypeOK, Stop, Crash
  <2>2. stack' \in Seq([tables : Db, logging : BOOLEAN])
    BY <1>16, EmptySeq DEF Stop, Crash, Gone
  <2>3. faults' \in 0..MaxFaults
    BY <1>16, WalAssumption DEF TypeOK, Stop, Crash
  <2>4. Gone
    BY <1>16 DEF Stop, Crash
  <2> QED
    BY <2>1, <2>2, <2>3, <2>4, EmptyDbType, FileTypes DEF TypeOK, Gone
<1>17. CASE UNCHANGED vars
  BY <1>17 DEF TypeOK, vars
<1> QED
  BY <1>1, <1>2, <1>3, <1>4, <1>5, <1>6, <1>7, <1>8, <1>9, <1>10, <1>11, <1>12, <1>13,
     <1>14, <1>15, <1>16, <1>17 DEF Next, Recover

(* The handle, the log and the history keep their types, whatever the       *)
(* program does and whatever fails.                                         *)
THEOREM TypeCorrect == Spec => []TypeOK
<1>1. Typed => TypeOK
  BY DEF Typed
<1>2. QED
  BY <1>1, InitTyped, NextTyped, PTL DEF Spec

(***************************************************************************)
(* Ids.  A table comes from a mutation, from a copy of the handle, from a  *)
(* JSON image, or from a checkpoint record: so the invariant speaks of     *)
(* every copy in memory and of every checkpoint record on disk, the ones   *)
(* of an append under way included.                                        *)
(***************************************************************************)
FileNumbered(f) ==
    /\ \A i \in 1..Len(f.lines) : f.lines[i] \in Recs => RecNumbered(f.lines[i])
    /\ f.tail \in Recs => RecNumbered(f.tail)

Numbered ==
    /\ Typed
    /\ DbNumbered(mem) /\ DbNumbered(load.db)
    /\ savept # NoDb => DbNumbered(savept)
    /\ snap # NoDb => DbNumbered(snap)
    /\ \A i \in 1..Len(stack) : DbNumbered(stack[i].tables)
    /\ FileNumbered(file) /\ FileNumbered(app.before)
    /\ RecNumbered(app.rec)

LEMMA CompactedNumbered ==
    ASSUME NEW db \in Db, DbNumbered(db)
    PROVE  FileNumbered(Compacted(db))
<1> DEFINE cp == CheckpointRec(JsonDb(db))
<1>1. RecNumbered(cp)
  BY JsonDbNumbered DEF RecNumbered, CheckpointRec
<1> HIDE DEF cp
<1>2. Compacted(db) = [lines |-> <<cp>>, tail |-> NoTail]
  BY DEF Compacted, cp
<1> QED
  BY <1>1, <1>2, WalAssumption DEF FileNumbered

LEMMA WrittenNumbered ==
    ASSUME NEW f \in Files, FileNumbered(f),
           NEW text \in Recs \cup {Torn, Garbled}, text \in Recs => RecNumbered(text),
           NEW g \in Written(f, text)
    PROVE  FileNumbered(g)
<1>1. PICK t \in Glue(f.tail, text) : g = [f EXCEPT !.tail = t]
  BY DEF Written
<1>2. t \in Recs => RecNumbered(t)
  BY WalAssumption DEF Glue
<1>3. g.lines = f.lines /\ g.tail = t
  BY <1>1 DEF Files
<1> QED
  BY <1>2, <1>3 DEF FileNumbered

LEMMA TerminatedNumbered ==
    ASSUME NEW f \in Files, FileNumbered(f), f.tail # NoTail
    PROVE  FileNumbered(Terminated(f))
<1> DEFINE line == IF f.tail = Torn THEN Garbled ELSE f.tail
<1>1. line \in Lines /\ f.lines \in Seq(Lines)
  BY DEF Files, Lines
<1>2. line \in Recs => RecNumbered(line)
  BY WalAssumption DEF FileNumbered
<1>3. Terminated(f) = [lines |-> Append(f.lines, line), tail |-> NoTail]
  BY DEF Terminated
<1> HIDE DEF line
<1>4. \A i \in 1..Len(Append(f.lines, line)) :
         Append(f.lines, line)[i] \in Recs => RecNumbered(Append(f.lines, line)[i])
  <2>1. TAKE i \in 1..Len(Append(f.lines, line))
  <2>2. CASE i = Len(f.lines) + 1
    BY <1>1, <1>2, <2>2, AppendProperties
  <2>3. CASE i \in 1..Len(f.lines)
    BY <1>1, <2>3, AppendProperties DEF FileNumbered
  <2> QED
    BY <1>1, <2>2, <2>3, AppendProperties, LenProperties
<1> QED
  BY <1>3, <1>4, WalAssumption DEF FileNumbered

LEMMA CutFilesNumbered ==
    ASSUME Numbered, NEW g \in CutFiles
    PROVE  FileNumbered(g)
<1>1. RecNumbered(JsonRec(app.rec)) /\ JsonRec(app.rec) \in Recs
  <2>1. app.rec \in Recs /\ RecNumbered(app.rec)
    BY DEF Numbered, Typed, TypeOK
  <2> QED
    BY <2>1, JsonRecType, JsonRecCases, RecCases, JsonDbNumbered
       DEF RecNumbered, CreateRec, UpdateRec, DeleteRec, CheckpointRec
<1>2. \A form \in TornForms : \A h \in Written(app.before, form) : FileNumbered(h)
  BY WrittenNumbered, WalAssumption DEF Numbered, Typed, TypeOK
<1>3. \A h \in Written(app.before, JsonRec(app.rec)) : FileNumbered(h)
  BY <1>1, WrittenNumbered DEF Numbered, Typed, TypeOK
<1> QED
  BY <1>2, <1>3 DEF CutFiles, Whole, Numbered

LEMMA MutateNumbered ==
    ASSUME Numbered, Typed', NEW r \in MutationRecs, Mutate(r)
    PROVE  Numbered'
<1>r. r \in Recs /\ RecNumbered(r) /\ RecNumbered(JsonRec(r)) /\ JsonRec(r) \in Recs
  BY MutationRecsNumbered, JsonRecType
<1>1. CASE logging /\ WriteRecord(r)
  <2>1. FileNumbered(file')
    BY <1>1, <1>r, WrittenNumbered DEF Numbered, Typed, TypeOK, WriteRecord
  <2> QED
    BY <1>1, <1>r, <2>1 DEF Numbered, WriteRecord
<1>2. CASE ~logging /\ ApplyUnlogged(r)
  <2>1. DbNumbered(mem')
    BY <1>2, <1>r, ApplyNumbered DEF Numbered, Typed, TypeOK, ApplyUnlogged
  <2> QED
    BY <1>2, <2>1 DEF Numbered, ApplyUnlogged
<1> QED
  BY <1>1, <1>2 DEF Mutate

LEMMA MutationNumbered ==
    ASSUME Numbered, Typed', CreateOp \/ UpdateOp \/ DeleteOp \/ UpsertOp
    PROVE  Numbered'
<1>1. PICK r \in MutationRecs : Mutate(r)
  BY ProgramMutation
<1> QED
  BY <1>1, MutateNumbered

\* What is below the top of the stack stays below it.
LEMMA StackPrefix ==
    ASSUME TypeOK, stack # <<>>
    PROVE  /\ Len(stack) \in Nat \ {0}
           /\ \A i \in 1..Len(Rest) : i \in 1..Len(stack) /\ Rest[i] = stack[i]
<1> DEFINE S == [tables : Db, logging : BOOLEAN]
<1>1. stack \in Seq(S)
  BY DEF TypeOK
<1> HIDE DEF S
<1>2. Len(stack) \in Nat \ {0}
  BY <1>1, EmptySeq
<1>3. \A i \in 1..Len(stack) : stack[i] \in S
  BY <1>1, ElementOfSeq
<1>4. Len(Rest) = Len(stack) - 1 /\ \A i \in 1..Len(Rest) : Rest[i] = stack[i]
  <2>1. PICK n \in Int : n = Len(stack) - 1 /\ \A i \in 1..n : stack[i] \in S
    BY <1>2, <1>3
  <2>2. /\ Len(SubSeq(stack, 1, n)) = IF 1 <= n THEN n - 1 + 1 ELSE 0
        /\ \A i \in 1..(n - 1 + 1) : SubSeq(stack, 1, n)[i] = stack[1 + i - 1]
    BY <2>1, SubSeqProperties
  <2>3. Len(SubSeq(stack, 1, n)) = n /\ \A i \in 1..n : SubSeq(stack, 1, n)[i] = stack[i]
    BY <1>2, <2>1, <2>2
  <2> QED
    BY <2>1, <2>3 DEF Rest
<1> QED
  BY <1>2, <1>4

LEMMA StackNumbered ==
    ASSUME Numbered, stack # <<>>
    PROVE  /\ DbNumbered(Top.tables)
           /\ \A i \in 1..Len(Rest) : DbNumbered(Rest[i].tables)
<1>1. /\ Len(stack) \in Nat \ {0}
      /\ \A i \in 1..Len(Rest) : i \in 1..Len(stack) /\ Rest[i] = stack[i]
  BY StackPrefix DEF Numbered, Typed
<1>2. \A i \in 1..Len(stack) : DbNumbered(stack[i].tables)
  BY DEF Numbered
<1>3. DbNumbered(Top.tables)
  BY <1>1, <1>2 DEF Top
<1> QED
  BY <1>1, <1>2, <1>3

LEMMA InitNumbered == Init => Numbered
<1> SUFFICES ASSUME Init PROVE Numbered
  OBVIOUS
<1>1. FileNumbered(NoFile) /\ RecNumbered(CheckpointRec(EmptyDb))
  BY EmptyDbNumbered, WalAssumption DEF FileNumbered, NoFile, RecNumbered, CheckpointRec
<1>2. app.rec = CheckpointRec(EmptyDb) /\ app.before = NoFile /\ load.db = EmptyDb
  BY DEF Init, NoApp, NoLoad
<1> QED
  BY <1>1, <1>2, InitTyped, EmptyDbNumbered DEF Init, Numbered

LEMMA NextNumbered ==
    ASSUME Numbered, [Next]_vars
    PROVE  Numbered'
<1> USE DEF Numbered
<1>t. Typed' /\ Typed /\ TypeOK
  BY NextTyped DEF Typed
<1>n. /\ RecNumbered(NoApp.rec) /\ FileNumbered(NoApp.before) /\ DbNumbered(NoLoad.db)
      /\ DbNumbered(EmptyDb)
  BY EmptyDbNumbered, WalAssumption
     DEF FileNumbered, NoFile, RecNumbered, CheckpointRec, NoApp, NoLoad
<1>1. CASE CreateOp \/ UpdateOp \/ DeleteOp \/ UpsertOp
  BY <1>1, <1>t, MutationNumbered
<1>2. CASE WriteNewline
  <2>1. FileNumbered(file')
    BY <1>2, TerminatedNumbered DEF WriteNewline, Typed, TypeOK
  <2> QED
    BY <1>2, <1>t, <2>1 DEF WriteNewline
<1>3. CASE SyncAndApply
  <2>1. DbNumbered(mem')
    BY <1>3, ApplyNumbered DEF SyncAndApply, Typed, TypeOK
  <2> QED
    BY <1>3, <1>t, <1>n, <2>1 DEF SyncAndApply
<1>4. CASE AppendFails
  <2>1. FileNumbered(file')
    BY <1>4, CutShortLeaves, CutFilesNumbered DEF AppendFails
  <2> QED
    BY <1>4, <1>t, <1>n, <2>1 DEF AppendFails
<1>5. CASE CheckpointOp
  BY <1>5, <1>t, CompactedNumbered DEF CheckpointOp, Replace, handle, TypeOK
<1>6. CASE SavepointOp
  BY <1>6, <1>t DEF SavepointOp, handle, disk
<1>7. CASE RollbackOp
  <2>1. savept \in Db /\ DbNumbered(savept)
    BY <1>7 DEF RollbackOp, Typed, TypeOK
  <2>2. FileNumbered(file')
    BY <1>7, <2>1, CompactedNumbered DEF RollbackOp, CompactAfterRestore, Replace
  <2> QED
    BY <1>7, <1>t, <2>1, <2>2 DEF RollbackOp
<1>8. CASE BeginTransaction
  <2>1. \A i \in 1..Len(stack') : DbNumbered(stack'[i].tables)
    BY <1>8, <1>t DEF BeginTransaction, TypeOK
  <2> QED
    BY <1>8, <1>t, <2>1 DEF BeginTransaction, handle, disk
<1>9. CASE CommitTransaction
  BY <1>9, <1>t, StackNumbered DEF CommitTransaction, handle, disk
<1>10. CASE AbortTransaction
  <2>1. Top.tables \in Db /\ DbNumbered(Top.tables)
    BY <1>10, <1>t, StackNumbered, StackTypes DEF AbortTransaction
  <2>2. FileNumbered(file')
    BY <1>10, <2>1, CompactedNumbered DEF AbortTransaction, CompactAfterRestore, Replace
  <2>3. \A i \in 1..Len(stack') : DbNumbered(stack'[i].tables)
    BY <1>10, StackNumbered DEF AbortTransaction
  <2> QED
    BY <1>10, <1>t, <2>1, <2>2, <2>3 DEF AbortTransaction
<1>11. CASE BeginSave \/ EndSave
  BY <1>11, <1>t, JsonDbNumbered DEF BeginSave, EndSave, handle, TypeOK
<1>12. CASE LoadOp
  BY <1>12, <1>t DEF LoadOp, disk
<1>13. CASE OpenLog \/ RefuseLog
  <2>1. load'.db = NoLoad.db
    BY <1>13 DEF OpenLog, RefuseLog, NoLoad
  <2> QED
    BY <1>13, <1>t, <1>n, <2>1 DEF OpenLog, RefuseLog, handle, disk
<1>14. CASE ReplayLine
  <2> DEFINE line == file.lines[load.pos + 1]
  <2>1. file.lines \in Seq(Lines)
    BY <1>t DEF TypeOK, Files
  <2>2. load.pos + 1 \in 1 .. Len(file.lines)
    BY <1>14, <1>t, <2>1, LenProperties DEF TypeOK, ReplayLine
  <2>3. line \in Recs
    BY <1>14, <2>1, <2>2, ElementOfSeq DEF ReplayLine, Lines
  <2>4. RecNumbered(line)
    BY <2>2, <2>3 DEF FileNumbered
  <2> HIDE DEF line
  <2>5. DbNumbered(Apply(load.db, line))
    BY <1>t, <2>3, <2>4, ApplyNumbered DEF TypeOK
  <2>6. load'.db = Apply(load.db, line)
    BY <1>14, <1>t DEF ReplayLine, line, TypeOK
  <2> QED
    BY <1>14, <1>t, <2>5, <2>6 DEF ReplayLine, handle, disk
<1>15. CASE ReplayEnd
  <2>1. DbNumbered(mem')
    BY <1>15, <1>t, ApplyNumbered DEF ReplayEnd, TypeOK, Files, FileNumbered
  <2> QED
    BY <1>15, <1>t, <1>n, <2>1 DEF ReplayEnd, disk
<1>16. CASE Stop \/ Crash
  <2>1. FileNumbered(file')
    BY <1>16, CutShortLeaves, CutFilesNumbered DEF Stop, Crash
  <2>2. Gone
    BY <1>16 DEF Stop, Crash
  <2> QED
    BY <1>t, <1>n, <2>1, <2>2 DEF Gone
<1>17. CASE UNCHANGED vars
  BY <1>17, <1>t DEF vars
<1> QED
  BY <1>1, <1>2, <1>3, <1>4, <1>5, <1>6, <1>7, <1>8, <1>9, <1>10, <1>11, <1>12, <1>13,
     <1>14, <1>15, <1>16, <1>17 DEF Next, Recover

(* Whatever crashes and fails, no copy of a table in memory or on disk has  *)
(* two rows with one id, or a row above the counter the next create uses.   *)
THEOREM RowsStayNumbered == Spec => []RowsWellNumbered
<1>1. ASSUME Numbered PROVE RowsWellNumbered
  <2>1. DOMAIN stack = 1..Len(stack)
    BY <1>1, LenProperties DEF Numbered, Typed, TypeOK
  <2>2. \A db \in {mem, load.db} \cup ({savept, snap} \ {NoDb}) : DbNumbered(db)
    BY <1>1 DEF Numbered
  <2>3. \A db \in {stack[i].tables : i \in DOMAIN stack} : DbNumbered(db)
    BY <1>1, <2>1 DEF Numbered
  <2> QED
    BY <2>2, <2>3 DEF RowsWellNumbered, DbNumbered
<1>2. QED
  BY <1>1, InitNumbered, NextNumbered, PTL DEF Spec

-----------------------------------------------------------------------------
(***************************************************************************)
(* The promise of the log, proved for every program: what was acknowledged *)
(* is what a recovery shows.  It is proved of programs that never replace  *)
(* their handle by a JSON snapshot (db.load drops the log) and only filter *)
(* by values whose JSON image compares as they do, on a disk whose writes  *)
(* do not fail but may be cut short anywhere.                              *)
(***************************************************************************)

PromiseAssumption ==
    /\ ~WriteErrors
    /\ "load" \notin Ops
    /\ FiltersSurviveJson

(***************************************************************************)
(* What a file replays to, without a recursive definition: a trace is the  *)
(* function from the number of lines replayed to the tables so far.  A     *)
(* file with garbled text replays to nothing, and promises nothing.        *)
(***************************************************************************)
Trace(tr, f) ==
    /\ tr \in [0..Len(f.lines) -> Db]
    /\ tr[0] = EmptyDb
    /\ \A i \in 1..Len(f.lines) : tr[i] = Apply(tr[i - 1], f.lines[i])

End(tr, f) == IF f.tail \in Recs THEN Apply(tr[Len(f.lines)], f.tail) ELSE tr[Len(f.lines)]

ReplaysInto(f, dbs) == Readable(f) => \E tr : Trace(tr, f) /\ End(tr, f) \in dbs

LEMMA ReplaysIntoMore ==
    ASSUME NEW f, NEW dbs, NEW more, ReplaysInto(f, dbs), dbs \subseteq more
    PROVE  ReplaysInto(f, more)
BY DEF ReplaysInto

LEMMA EmptyFileReplays == ReplaysInto(NoFile, {EmptyDb})
<1> DEFINE tr == [i \in 0..0 |-> EmptyDb]
<1>1. NoFile.lines = <<>> /\ NoFile.tail = NoTail /\ Len(NoFile.lines) = 0
  BY DEF NoFile
<1>2. Trace(tr, NoFile)
  BY <1>1, EmptyDbType DEF Trace
<1>3. End(tr, NoFile) = EmptyDb
  BY <1>1, WalAssumption DEF End
<1> QED
  BY <1>2, <1>3 DEF ReplaysInto

LEMMA CompactedReplays ==
    ASSUME NEW db \in Db
    PROVE  ReplaysInto(Compacted(db), {JsonDb(db)})
<1> DEFINE f  == Compacted(db)
           cp == CheckpointRec(JsonDb(db))
           tr == [i \in 0..1 |-> IF i = 0 THEN EmptyDb ELSE JsonDb(db)]
<1>1. f.lines = <<cp>> /\ Len(f.lines) = 1 /\ f.lines[1] = cp /\ f.tail = NoTail
  BY DEF Compacted
<1>2. Apply(tr[0], cp) = JsonDb(db)
  BY ApplyCases DEF CheckpointRec
<1>3. Trace(tr, f)
  <2>1. tr \in [0..1 -> Db] /\ tr[0] = EmptyDb /\ tr[1] = JsonDb(db)
    BY EmptyDbType, JsonDbType
  <2> HIDE DEF f, cp, tr
  <2>2. \A i \in 1..1 : tr[i] = Apply(tr[i - 1], f.lines[i])
    BY <1>1, <1>2, <2>1
  <2> QED
    BY <1>1, <2>1, <2>2 DEF Trace
<1>4. End(tr, f) = JsonDb(db)
  BY <1>1, WalAssumption DEF End
<1> HIDE DEF f, tr
<1> QED
  BY <1>3, <1>4 DEF ReplaysInto, f

LEMMA CompactedReadable ==
    ASSUME NEW db \in Db
    PROVE  Readable(Compacted(db)) /\ Compacted(db).tail = NoTail
<1>1. CheckpointRec(JsonDb(db)) \in Recs
  BY JsonDbType DEF CheckpointRec, Recs
<1> DEFINE rec == CheckpointRec(JsonDb(db))
<1>2. Compacted(db) = [lines |-> <<rec>>, tail |-> NoTail]
  BY DEF Compacted
<1> HIDE DEF rec
<1>3. rec # Garbled
  BY <1>1, WalAssumption DEF rec
<1> QED
  BY <1>2, <1>3, WalAssumption DEF Readable

\* An append under way: the file replays to the tables of before, or to those
\* with the record, or is refused.
LEMMA WrittenReplays ==
    ASSUME NEW f \in Files, NEW text \in Recs \cup {Torn, Garbled}, NEW db \in Db,
           ReplaysInto(f, {db}), NEW g \in Written(f, text)
    PROVE  ReplaysInto(g, {db, IF text \in Recs THEN Apply(db, text) ELSE db})
<1>1. PICK t \in Glue(f.tail, text) : g = [f EXCEPT !.tail = t]
  BY DEF Written
<1>2. g.lines = f.lines /\ g.tail = t
  BY <1>1 DEF Files
<1> SUFFICES ASSUME Readable(g)
             PROVE  \E tr : Trace(tr, g)
                            /\ End(tr, g) \in {db, IF text \in Recs THEN Apply(db, text) ELSE db}
  BY DEF ReplaysInto
<1>3. f.tail \in {NoTail, Torn} /\ t # Garbled
  BY <1>2 DEF Readable, Glue
<1>4. Readable(f)
  BY <1>2, <1>3, WalAssumption DEF Readable
<1>5. PICK tr : Trace(tr, f) /\ End(tr, f) = db
  BY <1>4 DEF ReplaysInto
<1>6. tr[Len(f.lines)] = db
  BY <1>3, <1>5, WalAssumption DEF End
<1>7. Trace(tr, g)
  BY <1>2, <1>5 DEF Trace
<1>8. t = text \/ t = Torn
  BY <1>3 DEF Glue
<1>9. End(tr, g) \in {db, IF text \in Recs THEN Apply(db, text) ELSE db}
  BY <1>2, <1>6, <1>8, WalAssumption DEF End
<1> QED
  BY <1>7, <1>9

LEMMA TerminatedReplays ==
    ASSUME NEW f \in Files, NEW r \in Recs, NEW db \in Db,
           ReplaysInto(f, {db}), NEW g \in Written(f, r)
    PROVE  ReplaysInto(Terminated(g), {Apply(db, r)})
<1> DEFINE h == Terminated(g)
           n == Len(f.lines)
<1> SUFFICES ASSUME Readable(h)
             PROVE  \E tr : Trace(tr, h) /\ End(tr, h) = Apply(db, r)
  BY DEF ReplaysInto
<1>1. PICK t \in Glue(f.tail, r) : g = [f EXCEPT !.tail = t]
  BY DEF Written
<1>2. g.lines = f.lines /\ g.tail = t /\ f.lines \in Seq(Lines) /\ n \in Nat
  BY <1>1, LenProperties DEF Files
<1> DEFINE line == IF t = Torn THEN Garbled ELSE t
<1>3. h = [lines |-> Append(f.lines, line), tail |-> NoTail]
  BY <1>2 DEF Terminated
<1>4. line \in Lines
  BY DEF Glue, Lines
<1>5. /\ Len(h.lines) = n + 1 /\ h.lines[n + 1] = line /\ h.tail = NoTail
      /\ \A i \in 1..n : h.lines[i] = f.lines[i]
  BY <1>2, <1>3, <1>4, AppendProperties
<1>6. line # Garbled
  BY <1>2, <1>5 DEF Readable
<1>7. f.tail = NoTail /\ line = r
  BY <1>6, WalAssumption DEF Glue
<1> HIDE DEF h, n, line
<1>8. Readable(f)
  BY <1>2, <1>5, <1>7, WalAssumption DEF Readable, n
<1>9. PICK tr : Trace(tr, f) /\ End(tr, f) = db
  BY <1>8 DEF ReplaysInto
<1>10. tr \in [0..n -> Db] /\ tr[0] = EmptyDb /\ tr[n] = db
  BY <1>7, <1>9, WalAssumption DEF Trace, End, n
<1> DEFINE longer == [i \in 0..(n + 1) |-> IF i = n + 1 THEN Apply(db, r) ELSE tr[i]]
<1>11. Apply(db, r) \in Db
  BY ApplyType
<1>12. /\ longer \in [0..(n + 1) -> Db]
       /\ longer[n + 1] = Apply(db, r) /\ \A i \in 0..n : longer[i] = tr[i]
  BY <1>2, <1>10, <1>11
<1> HIDE DEF longer
<1>13. \A i \in 1..(n + 1) : longer[i] = Apply(longer[i - 1], h.lines[i])
  <2>1. TAKE i \in 1..(n + 1)
  <2>2. CASE i = n + 1
    BY <1>2, <1>5, <1>7, <1>10, <1>12, <2>2
  <2>3. CASE i \in 1..n
    <3>1. tr[i] = Apply(tr[i - 1], f.lines[i])
      BY <1>9, <2>3 DEF Trace, n
    <3>2. longer[i] = tr[i] /\ longer[i - 1] = tr[i - 1] /\ h.lines[i] = f.lines[i]
      BY <1>2, <1>5, <1>12, <2>3
    <3> QED
      BY <3>1, <3>2
  <2> QED
    BY <1>2, <2>2, <2>3
<1>14. Trace(longer, h)
  BY <1>2, <1>5, <1>10, <1>12, <1>13 DEF Trace
<1>15. End(longer, h) = Apply(db, r)
  BY <1>5, <1>12, WalAssumption DEF End
<1> QED
  BY <1>14, <1>15 DEF h

(***************************************************************************)
(* The invariant: at each point of an append or a replay, what the file    *)
(* would replay to if the process ended there.                             *)
(***************************************************************************)
Backed ==
    /\ logging
    /\ ReplaysInto(file, {JsonDb(mem)})
    /\ JsonDb(mem) \in promise.op
    /\ Readable(file) \/ promise.op = {JsonDb(mem)}

Serving == pc \in {"idle", "saving"} => Backed

Appending == pc \in {"written", "ended"} =>
    /\ logging
    /\ app.rec \in ProgramRecords
    /\ ReplaysInto(app.before, {JsonDb(mem)})
    /\ promise.op = {JsonDb(mem), JsonDb(Apply(mem, app.rec))}
    /\ \E g \in Written(app.before, JsonRec(app.rec)) :
          file = IF pc = "written" THEN g ELSE Terminated(g)

Stopped == pc = "down" => ReplaysInto(file, promise.op)

Replaying == pc = "replaying" =>
    /\ load.pos <= Len(file.lines)
    /\ \A i \in 1..load.pos : file.lines[i] # Garbled
    /\ load.live => Backed
    /\ Readable(file) =>
          \E tr : Trace(tr, file) /\ End(tr, file) \in promise.op /\ tr[load.pos] = load.db

Kept ==
    /\ Typed
    /\ Serving /\ Appending /\ Stopped /\ Replaying
    /\ \A i \in 1..Len(stack) : stack[i].logging
    /\ \A db \in promise.op : JsonDb(db) = db

LEMMA PromiseImages ==
    ASSUME NEW db \in Db
    PROVE  \A d \in {JsonDb(db)} : JsonDb(d) = d
BY JsonIdempotent

LEMMA InitKept == Init => Kept
<1> SUFFICES ASSUME Init PROVE Kept
  OBVIOUS
<1>1. Stopped
  BY EmptyFileReplays DEF Init, Stopped
<1>2. JsonDb(EmptyDb) = EmptyDb
  BY DEF JsonDb, JsonTable, EmptyDb
<1>3. \A db \in promise.op : JsonDb(db) = db
  BY <1>2 DEF Init
<1> QED
  BY <1>1, <1>3, InitTyped DEF Init, Kept, Serving, Backed, Appending, Replaying

LEMMA MutationKept ==
    ASSUME PromiseAssumption, Kept, Typed', NEW r \in ProgramRecords, Mutate(r)
    PROVE  Kept'
<1>r. r \in MutationRecs /\ r \in Recs /\ JsonRec(r) \in Recs
  BY JsonRecType DEF ProgramRecords, Recs
<1>1. pc = "idle" /\ logging /\ WriteRecord(r)
  BY DEF Mutate, Kept, Serving, Backed
<1>2. /\ mem' = mem /\ logging' = logging /\ stack' = stack /\ pc' = "written"
      /\ app' = [rec |-> r, before |-> file] /\ file' \in Written(file, JsonRec(r))
  BY <1>1 DEF WriteRecord
<1>3. promise'.op = {JsonDb(mem), JsonDb(Apply(mem, r))}
  BY <1>1 DEF WriteRecord, Promise, InDoubt, PromiseAssumption
<1>4. Appending'
  BY <1>1, <1>2, <1>3 DEF Appending, Kept, Serving, Backed
<1>5. Serving' /\ Stopped' /\ Replaying'
  BY <1>2 DEF Serving, Backed, Stopped, Replaying
<1>6. \A db \in promise'.op : JsonDb(db) = db
  <2>1. mem \in Db /\ Apply(mem, r) \in Db
    BY <1>r, ApplyType DEF Kept, Typed, TypeOK
  <2> QED
    BY <1>3, <2>1, JsonIdempotent
<1> QED
  BY <1>2, <1>4, <1>5, <1>6 DEF Kept

LEMMA ProgramMutationRecord ==
    ASSUME CreateOp \/ UpdateOp \/ DeleteOp \/ UpsertOp
    PROVE  \E r \in ProgramRecords : Mutate(r)
<1>0. ASSUME NEW t \in Tables, NEW f \in ProgramFilters, NEW v \in Vals
      PROVE  /\ UpdateRec(t, f, v) \in ProgramRecords
             /\ UpsertRec(mem, t, f, v) \in ProgramRecords
  BY ProgramRecs DEF ProgramRecords, UpdateRec, CreateRec, UpsertRec
<1>1. CASE CreateOp
  <2>1. PICK t \in Tables, v \in Vals : Mutate(CreateRec(t, v))
    BY <1>1 DEF CreateOp
  <2>2. CreateRec(t, v) \in ProgramRecords
    BY DEF CreateRec, MutationRecs, ProgramRecords
  <2> QED
    BY <2>1, <2>2
<1>2. CASE UpdateOp
  BY <1>0, <1>2 DEF UpdateOp
<1>3. CASE DeleteOp
  <2>1. PICK t \in Tables, f \in ProgramFilters : Mutate(DeleteRec(t, f))
    BY <1>3 DEF DeleteOp
  <2>2. DeleteRec(t, f) \in ProgramRecords
    BY DEF DeleteRec, MutationRecs, ProgramRecords, ProgramFilters
  <2> QED
    BY <2>1, <2>2
<1>4. CASE UpsertOp
  BY <1>0, <1>4 DEF UpsertOp
<1> QED
  BY <1>1, <1>2, <1>3, <1>4

\* Whatever instant the process ends at, the file keeps the promise.
LEMMA CrashKeepsPromise ==
    ASSUME PromiseAssumption, Kept, Stop \/ Crash
    PROVE  ReplaysInto(file', promise.op)
<1> USE DEF Kept, Typed, TypeOK
<1>1. CASE pc \in {"idle", "saving"}
  BY <1>1, ReplaysIntoMore DEF Stop, Crash, Serving, Backed
<1>2. CASE pc = "replaying"
  BY <1>2 DEF Stop, Crash, Replaying, ReplaysInto
<1>3. CASE pc \in {"written", "ended"}
  <2> DEFINE rec == JsonRec(app.rec)
  <2>1. /\ app.rec \in ProgramRecords /\ app.before \in Files /\ JsonDb(mem) \in Db
        /\ app.rec \in Recs /\ rec \in Recs /\ mem \in Db
    BY <1>3, JsonDbType, JsonRecType DEF Appending
  <2>2. Apply(JsonDb(mem), rec) = JsonDb(Apply(mem, app.rec))
    BY <2>1, ApplyImage DEF PromiseAssumption
  <2>3. /\ ReplaysInto(app.before, {JsonDb(mem)})
        /\ promise.op = {JsonDb(mem), JsonDb(Apply(mem, app.rec))}
    BY <1>3 DEF Appending
  <2> HIDE DEF rec
  <2>4. \A g \in Written(app.before, rec) : ReplaysInto(g, promise.op)
    <3>1. TAKE g \in Written(app.before, rec)
    <3>2. ReplaysInto(g, {JsonDb(mem), IF rec \in Recs THEN Apply(JsonDb(mem), rec) ELSE JsonDb(mem)})
      BY <2>1, <2>3, WrittenReplays
    <3>3. promise.op = {JsonDb(mem), IF rec \in Recs THEN Apply(JsonDb(mem), rec) ELSE JsonDb(mem)}
      BY <2>1, <2>2, <2>3
    <3> QED
      BY <3>2, <3>3
  <2>5. \A form \in TornForms : \A g \in Written(app.before, form) : ReplaysInto(g, promise.op)
    <3>1. TAKE form \in TornForms
    <3>2. TAKE g \in Written(app.before, form)
    <3>3. form \in {Torn, Garbled} /\ form \notin Recs
      BY WalAssumption
    <3>4. ReplaysInto(g, {JsonDb(mem), JsonDb(mem)})
      BY <2>1, <2>3, <3>3, WrittenReplays
    <3> QED
      BY <2>3, <3>4, ReplaysIntoMore
  <2>6. \A g \in Written(app.before, rec) : ReplaysInto(Terminated(g), promise.op)
    <3>1. TAKE g \in Written(app.before, rec)
    <3>2. ReplaysInto(Terminated(g), {Apply(JsonDb(mem), rec)})
      BY <2>1, <2>3, TerminatedReplays
    <3>3. {Apply(JsonDb(mem), rec)} \subseteq promise.op
      BY <2>2, <2>3
    <3> QED
      BY <3>2, <3>3, ReplaysIntoMore
  <2>7. ReplaysInto(app.before, promise.op) /\ ReplaysInto(file, promise.op)
    <3>1. PICK g \in Written(app.before, rec) : file = IF pc = "written" THEN g ELSE Terminated(g)
      BY <1>3 DEF Appending, rec
    <3> QED
      BY <2>3, <2>4, <2>6, <3>1, ReplaysIntoMore
  <2>8. file' \in CutFiles
    BY <1>3, CutShortLeaves DEF Stop, Crash
  <2> QED
    BY <2>4, <2>5, <2>7, <2>8 DEF CutFiles, Whole, rec
<1> QED
  BY <1>1, <1>2, <1>3 DEF Stop, Crash

LEMMA RestoreKept ==
    ASSUME PromiseAssumption, Kept, pc = "idle", NEW db \in Db, CompactAfterRestore(db, TRUE),
           mem' = db, logging' = TRUE, pc' = "idle"
    PROVE  Serving' /\ Appending' /\ Stopped' /\ Replaying'
           /\ \A d \in promise'.op : JsonDb(d) = d
<1>1. file' = Compacted(db) /\ promise'.op = {JsonDb(db)}
  BY DEF CompactAfterRestore, Replace, Promise, PromiseAssumption
<1>2. Serving'
  BY <1>1, CompactedReplays DEF Serving, Backed
<1> QED
  BY <1>1, <1>2, JsonIdempotent DEF Appending, Stopped, Replaying

LEMMA StackLogging ==
    ASSUME Kept, stack # <<>>
    PROVE  Top.logging = TRUE /\ \A i \in 1..Len(Rest) : Rest[i].logging
<1>1. TypeOK
  BY DEF Kept, Typed
<1>2. Len(stack) \in Nat \ {0} /\ \A i \in 1..Len(Rest) : i \in 1..Len(stack) /\ Rest[i] = stack[i]
  BY <1>1, StackPrefix
<1>3. Top.logging
  BY <1>2 DEF Kept, Top
<1>4. Top.logging \in BOOLEAN
  BY <1>1, StackTypes
<1> QED
  BY <1>2, <1>3, <1>4 DEF Kept

LEMMA NextKept ==
    ASSUME PromiseAssumption, Kept, [Next]_vars
    PROVE  Kept'
<1> USE DEF Kept
<1>t. Typed' /\ Typed /\ TypeOK
  BY NextTyped DEF Typed
<1>1. CASE CreateOp \/ UpdateOp \/ DeleteOp \/ UpsertOp
  BY <1>1, <1>t, MutationKept, ProgramMutationRecord
<1>2. CASE WriteNewline
  <2>1. /\ pc = "written" /\ pc' = "ended" /\ file' = Terminated(file)
        /\ UNCHANGED <<mem, logging, app, stack, promise>>
    BY <1>2 DEF WriteNewline
  <2>2. Appending'
    BY <2>1 DEF Appending
  <2> QED
    BY <1>t, <2>1, <2>2 DEF Serving, Backed, Stopped, Replaying
<1>3. CASE SyncAndApply
  <2>1. /\ pc = "ended" /\ pc' = "idle" /\ mem' = Apply(mem, app.rec) /\ promise'.op = {JsonDb(mem')}
        /\ UNCHANGED <<logging, file, stack>>
    BY <1>3 DEF SyncAndApply, Promise
  <2>2. /\ app.rec \in Recs /\ app.before \in Files /\ JsonDb(mem) \in Db /\ mem \in Db
        /\ JsonRec(app.rec) \in Recs /\ mem' \in Db
    BY <1>t, <2>1, JsonDbType, JsonRecType DEF Typed, TypeOK
  <2>3. Apply(JsonDb(mem), JsonRec(app.rec)) = JsonDb(mem')
    BY <2>1, <2>2, ApplyImage DEF PromiseAssumption, Appending
  <2>4. PICK g \in Written(app.before, JsonRec(app.rec)) : file = Terminated(g)
    BY <2>1 DEF Appending
  <2>5. ReplaysInto(file, {JsonDb(mem')})
    BY <2>1, <2>2, <2>3, <2>4, TerminatedReplays DEF Appending
  <2>6. Serving'
    BY <2>1, <2>5 DEF Serving, Backed, Appending
  <2> QED
    BY <1>t, <2>1, <2>2, <2>6, JsonIdempotent DEF Appending, Stopped, Replaying
<1>4. CASE AppendFails
  BY <1>4 DEF AppendFails, PromiseAssumption
<1>5. CASE CheckpointOp
  <2>1. /\ pc = "idle" /\ file' = Compacted(mem)
        /\ UNCHANGED <<mem, logging, pc, stack, promise>>
    BY <1>5 DEF CheckpointOp, Replace, handle
  <2>2. Serving'
    BY <1>t, <2>1, CompactedReplays, CompactedReadable DEF Serving, Backed, TypeOK
  <2> QED
    BY <1>t, <2>1, <2>2 DEF Appending, Stopped, Replaying
<1>6. CASE SavepointOp
  BY <1>6, <1>t DEF SavepointOp, handle, disk, Serving, Backed, Appending, Stopped, Replaying
<1>7. CASE RollbackOp
  <2>1. savept \in Db /\ logging = TRUE
    BY <1>7, <1>t DEF RollbackOp, TypeOK, Serving, Backed
  <2> QED
    BY <1>7, <1>t, <2>1, RestoreKept DEF RollbackOp
<1>8. CASE BeginTransaction
  <2>1. /\ pc = "idle" /\ UNCHANGED <<mem, logging, file, pc>> /\ promise'.op = promise.op
    BY <1>8, <1>t DEF BeginTransaction, handle, disk, TypeOK
  <2>2. \A i \in 1..Len(stack') : stack'[i].logging
    BY <1>8, <1>t, <2>1 DEF BeginTransaction, TypeOK, Serving, Backed
  <2> QED
    BY <1>t, <2>1, <2>2 DEF Serving, Backed, Appending, Stopped, Replaying
<1>9. CASE CommitTransaction
  <2>1. /\ pc = "idle" /\ UNCHANGED <<mem, logging, file, pc>> /\ promise'.op = promise.op
    BY <1>9, <1>t DEF CommitTransaction, handle, disk, TypeOK
  <2>2. \A i \in 1..Len(stack') : stack'[i].logging
    BY <1>9, StackLogging DEF CommitTransaction
  <2> QED
    BY <1>t, <2>1, <2>2 DEF Serving, Backed, Appending, Stopped, Replaying
<1>10. CASE AbortTransaction
  <2>1. Top.tables \in Db /\ Top.logging = TRUE /\ \A i \in 1..Len(stack') : stack'[i].logging
    BY <1>10, <1>t, StackTypes, StackLogging DEF AbortTransaction
  <2> QED
    BY <1>10, <1>t, <2>1, RestoreKept DEF AbortTransaction
<1>11. CASE BeginSave \/ EndSave
  BY <1>11, <1>t DEF BeginSave, EndSave, handle, Serving, Backed, Appending, Stopped, Replaying
<1>12. CASE LoadOp
  BY <1>12 DEF LoadOp, PromiseAssumption
<1>13. CASE OpenLog
  <2>1. /\ pc' = "replaying" /\ load'.pos = 0 /\ load'.db = EmptyDb /\ load'.live = (pc = "idle")
        /\ UNCHANGED <<mem, logging, file, stack, promise>>
    BY <1>13 DEF OpenLog, handle, disk, NoLoad
  <2>2. ReplaysInto(file, promise.op)
    BY <1>13, ReplaysIntoMore DEF OpenLog, Serving, Backed, Stopped
  <2>3. Replaying'
    <3>1. 0 <= Len(file.lines)
      BY <1>t, LenProperties DEF TypeOK, Files
    <3>2. load'.live => Backed'
      BY <1>13, <2>1 DEF OpenLog, Serving, Backed, Readable
    <3>3. \A i \in 1..load'.pos : file'.lines[i] # Garbled
      BY <2>1
    <3>4. Readable(file) =>
            \E tr : Trace(tr, file) /\ End(tr, file) \in promise.op /\ tr[0] = EmptyDb
      BY <2>2 DEF ReplaysInto, Trace
    <3> QED
      BY <2>1, <3>1, <3>2, <3>3, <3>4 DEF Replaying
  <2> QED
    BY <1>13, <1>t, <2>1, <2>3 DEF Serving, Backed, Appending, Stopped, OpenLog
<1>14. CASE ReplayLine
  <2> DEFINE n == load.pos + 1
  <2>1. /\ pc = "replaying" /\ n <= Len(file.lines) /\ file.lines[n] # Garbled /\ n \in Nat \ {0}
        /\ load'.pos = n /\ load'.db = Apply(load.db, file.lines[n]) /\ load'.live = load.live
        /\ UNCHANGED <<mem, logging, file, pc, stack, promise>> /\ load.pos = n - 1
    <3>1. file.lines \in Seq(Lines) /\ load \in [pos : Nat, db : Db, live : BOOLEAN]
      BY <1>t DEF TypeOK, Files
    <3>2. load' = [load EXCEPT !.pos = @ + 1, !.db = Apply(@, file.lines[n])]
      BY <1>14 DEF ReplayLine
    <3>3. load'.pos = n /\ load'.db = Apply(load.db, file.lines[n]) /\ load'.live = load.live
      BY <3>1, <3>2
    <3> QED
      BY <1>14, <3>1, <3>3, LenProperties DEF ReplayLine, handle, disk
  <2> HIDE DEF n
  <2>2. \A i \in 1..n : file.lines[i] # Garbled
    <3>1. \A i \in 1..n : i = n \/ i \in 1..(n - 1)
      BY <2>1
    <3> QED
      BY <2>1, <3>1 DEF Replaying
  <2>3. ASSUME Readable(file)
        PROVE  \E tr : Trace(tr, file) /\ End(tr, file) \in promise.op /\ tr[n] = load'.db
    <3>1. PICK tr : Trace(tr, file) /\ End(tr, file) \in promise.op /\ tr[n - 1] = load.db
      BY <2>1, <2>3 DEF Replaying
    <3>2. n \in 1..Len(file.lines)
      BY <1>t, <2>1, LenProperties DEF TypeOK, Files
    <3>3. tr[n] = Apply(tr[n - 1], file.lines[n])
      BY <3>1, <3>2 DEF Trace
    <3> QED
      BY <2>1, <3>1, <3>3
  <2>4. load'.live => Backed'
    BY <2>1 DEF Replaying, Backed, Readable
  <2>5. Readable(file') = Readable(file)
    BY <2>1
  <2>6. Replaying'
    BY <2>1, <2>2, <2>3, <2>4, <2>5 DEF Replaying
  <2> QED
    BY <1>t, <2>1, <2>6 DEF Serving, Backed, Appending, Stopped
<1>15. CASE ReplayEnd
  <2>1. /\ pc = "replaying" /\ load.pos = Len(file.lines) /\ file.tail # Garbled
        /\ mem' = IF file.tail \in {NoTail, Torn} THEN load.db ELSE Apply(load.db, file.tail)
        /\ logging' = TRUE /\ pc' = "idle" /\ UNCHANGED <<file, stack, promise>>
    BY <1>15 DEF ReplayEnd, disk
  <2>2. Readable(file)
    BY <2>1 DEF Replaying, Readable
  <2>3. PICK tr : Trace(tr, file) /\ End(tr, file) \in promise.op /\ tr[load.pos] = load.db
    BY <2>1, <2>2 DEF Replaying
  <2>4. mem' = End(tr, file)
    BY <1>t, <2>1, <2>3, WalAssumption DEF End, TypeOK, Files
  <2>5. JsonDb(mem') = mem'
    BY <2>3, <2>4
  <2>6. Serving'
    BY <2>1, <2>2, <2>3, <2>4, <2>5 DEF Serving, Backed, ReplaysInto
  <2> QED
    BY <1>t, <2>1, <2>6 DEF Appending, Stopped, Replaying
<1>16. CASE RefuseLog
  <2>1. /\ pc = "replaying" /\ pc' = IF load.live THEN "idle" ELSE "refused"
        /\ UNCHANGED <<mem, logging, file, stack, promise>>
    BY <1>16 DEF RefuseLog, handle, disk
  <2>2. ~Readable(file)
    <3>1. file.lines \in Seq(Lines) /\ load.pos \in Nat
      BY <1>t DEF TypeOK, Files
    <3>2. load.pos < Len(file.lines) => load.pos + 1 \in 1..Len(file.lines)
      BY <3>1, LenProperties
    <3> QED
      BY <1>16, <3>2 DEF RefuseLog, Readable
  <2>3. Serving'
    BY <2>1, <2>2 DEF Serving, Backed, Replaying, ReplaysInto
  <2> QED
    BY <1>t, <2>1, <2>3 DEF Appending, Stopped, Replaying
<1>17. CASE Stop \/ Crash
  <2>1. ReplaysInto(file', promise.op)
    BY <1>17, CrashKeepsPromise
  <2>2. pc' = "down" /\ stack' = <<>> /\ promise' = promise
    BY <1>17 DEF Stop, Crash, Gone
  <2> QED
    BY <1>t, <2>1, <2>2 DEF Serving, Backed, Appending, Stopped, Replaying
<1>18. CASE UNCHANGED vars
  BY <1>18, <1>t DEF vars, Serving, Backed, Appending, Stopped, Replaying
<1> QED
  BY <1>1, <1>2, <1>3, <1>4, <1>5, <1>6, <1>7, <1>8, <1>9, <1>10, <1>11, <1>12, <1>13,
     <1>14, <1>15, <1>16, <1>17, <1>18 DEF Next, Recover

(* A recovery shows the tables of the last acknowledged operation, or of    *)
(* the one the crash cut short: create_logged and its kin write the record  *)
(* first, load_wal replays them, compaction keeps what they amount to.      *)
THEOREM AcknowledgedSurvive ==
    ASSUME PromiseAssumption
    PROVE  Spec => []RecoveryKeepsPromise
<1>1. Kept => RecoveryKeepsPromise
  BY DEF Kept, Serving, Backed, RecoveryKeepsPromise
<1>2. Kept /\ [Next]_vars => Kept'
  BY NextKept
<1>3. QED
  BY <1>1, <1>2, InitKept, PTL DEF Spec


(***************************************************************************)
(* The refinement.  Two traces of a file agree, or else there were a least *)
(* line after which they differ: so what the file replays to is where any  *)
(* trace of it ends.                                                       *)
(***************************************************************************)
LEMMA LeastIn ==
    ASSUME NEW S \in SUBSET Nat, S # {}
    PROVE  \E least \in S : \A y \in S : least <= y
<1> DEFINE R == {ss \in Nat \X Nat : ss[1] < ss[2]}
<1>1. IsWellFoundedOn(R, Nat)
  BY NatLessThanWellFounded DEF OpToRel
<1>2. \A x, y \in Nat : <<x, y>> \in R <=> x < y
  OBVIOUS
<1> HIDE DEF R
<1>3. PICK x \in S : \A y \in S : ~ (<<y, x>> \in R)
  BY <1>1, WFMin
<1>4. \A y \in S : x <= y
  <2> TAKE y \in S
  <2>1. ~ (y < x)
    BY <1>2, <1>3
  <2> QED
    BY <2>1
<1> QED
  BY <1>4

LEMMA ReplayedIsEnd ==
    ASSUME NEW f \in Files, Readable(f), NEW tr, Trace(tr, f)
    PROVE  Replayed(f) = End(tr, f)
<1> DEFINE n       == Len(f.lines)
           step(db) == [i \in 0..n |-> IF i = 0 THEN EmptyDb ELSE Apply(db[i - 1], f.lines[i])]
           d       == CHOOSE db : db = step(db)
<1>n. n \in Nat
  BY LenProperties DEF Files
<1>1. tr = step(tr)
  <2>1. tr \in [0..n -> Db] /\ tr[0] = EmptyDb
        /\ \A i \in 1..n : tr[i] = Apply(tr[i - 1], f.lines[i])
    BY DEF Trace
  <2> HIDE DEF n
  <2>2. \A i \in 0..n : tr[i] = IF i = 0 THEN EmptyDb ELSE Apply(tr[i - 1], f.lines[i])
    BY <1>n, <2>1
  <2> QED
    BY <2>1, <2>2
<1>2. d = step(d)
  BY <1>1
<1>3. Replayed(f) = IF f.tail \in {NoTail, Torn} THEN d[n] ELSE Apply(d[n], f.tail)
  BY DEF Replayed
<1> HIDE DEF d, n
<1>4. \A i \in 0..n : d[i] = tr[i]
  <2> DEFINE differ == {i \in 0..n : d[i] # tr[i]}
  <2> SUFFICES ASSUME differ # {} PROVE FALSE
    OBVIOUS
  <2>0. differ \in SUBSET Nat
    BY <1>n
  <2> HIDE DEF differ
  <2>1. PICK i \in differ : \A j \in differ : i <= j
    BY <2>0, LeastIn
  <2> USE DEF differ
  <2>2. i \in 0..n /\ d[i] = step(d)[i] /\ tr[i] = step(tr)[i]
    BY <1>1, <1>2, <2>1
  <2>3. i # 0
    BY <2>1, <2>2
  <2>4. i - 1 \in 0..n /\ d[i - 1] = tr[i - 1]
    BY <1>n, <2>1, <2>3
  <2> QED
    BY <2>1, <2>2, <2>3, <2>4
<1>5. d[n] = tr[n]
  BY <1>n, <1>4
<1>6. f.tail \in Recs <=> f.tail \notin {NoTail, Torn}
  BY WalAssumption DEF Readable, Files
<1> QED
  BY <1>3, <1>5, <1>6 DEF End, n

LEMMA HeldIn ==
    ASSUME NEW f \in Files, NEW dbs, ReplaysInto(f, dbs), Readable(f)
    PROVE  Replayed(f) \in dbs
BY ReplayedIsEnd DEF ReplaysInto

(***************************************************************************)
(* The steps of the durable database, in terms of what the handle shows.   *)
(***************************************************************************)
Shown == IF Running THEN JsonDb(mem) ELSE Held
Marks == {JsonDb(stack[i].tables) : i \in DOMAIN stack}
         \cup {JsonDb(db) : db \in {savept} \ {NoDb}}

LEMMA SameApply ==
    /\ \A db, r : Durable!Apply(db, r) = Apply(db, r)
    /\ \A r : r.op \in {"create", "update", "delete"} => Durable!JsonRec(r) = JsonRec(r)
    /\ Durable!MutationRecs = MutationRecs
    /\ Durable!EmptyDb = EmptyDb
<1>1. \A db, r : Durable!Apply(db, r) = Apply(db, r)
  BY DEF Durable!Apply, Durable!Create, Durable!Update, Durable!Delete, Durable!Matches, Durable!ValuesEq,
         Apply, Create, Update, Delete, Matches, ValuesEq
<1>2. \A r : r.op \in {"create", "update", "delete"} => Durable!JsonRec(r) = JsonRec(r)
  BY DEF Durable!JsonRec, Durable!CreateRec, Durable!UpdateRec, Durable!DeleteRec, Durable!JsonFilter,
         JsonRec, CreateRec, UpdateRec, DeleteRec, JsonFilter
<1>3. Durable!MutationRecs = MutationRecs
  BY DEF Durable!MutationRecs, Durable!Filters, MutationRecs, Filters
<1>4. Durable!EmptyDb = EmptyDb
  BY DEF Durable!EmptyDb, EmptyDb
<1> QED
  BY <1>1, <1>2, <1>3, <1>4

\* Shown is some program mutation away from what it was.
Mutated == \E r \in ProgramRecords : Shown' = Apply(Shown, JsonRec(r))

LEMMA MutatedAbstractly ==
    ASSUME Mutated
    PROVE  \E r \in Durable!JsonMutations : Shown' = Durable!Apply(Shown, r)
<1>1. PICK r \in ProgramRecords : Shown' = Apply(Shown, JsonRec(r))
  BY DEF Mutated
<1>2. r.op \in {"create", "update", "delete"} /\ r \in MutationRecs
  BY DEF ProgramRecords, MutationRecs
<1>3. Durable!JsonRec(r) \in Durable!JsonMutations
  BY <1>2, SameApply DEF Durable!JsonMutations
<1>4. Shown' = Durable!Apply(Shown, Durable!JsonRec(r))
  BY <1>1, <1>2, SameApply
<1> QED
  BY <1>3, <1>4

LEMMA AbstractSteps ==
    /\ Running' = Running /\ Shown' = Shown /\ Marks' = Marks => UNCHANGED Durable!vars
    /\ Running /\ Running' /\ Shown' = Shown /\ Marks' \in SUBSET (Marks \cup {Shown}) => Durable!Next
    /\ Running /\ Running' /\ Shown' \in Marks /\ Marks' \in SUBSET Marks => Durable!Next
    /\ Running /\ Running' /\ Mutated /\ Marks' = Marks => Durable!Next
    /\ ~Running /\ Running' /\ Shown' = Shown /\ Marks' = Marks => Durable!Next
    /\ ~Running' /\ (Shown' = Shown \/ (Running /\ Mutated)) /\ Marks' = {} => Durable!Next
<1>1. Running' = Running /\ Shown' = Shown /\ Marks' = Marks => UNCHANGED Durable!vars
  BY DEF Durable!vars, Shown, Marks
<1>2. Running /\ Running' /\ Shown' = Shown /\ Marks' \in SUBSET (Marks \cup {Shown}) => Durable!Mark
  BY DEF Durable!Mark, Shown, Marks
<1>3. Running /\ Running' /\ Shown' \in Marks /\ Marks' \in SUBSET Marks => Durable!Restore
  BY DEF Durable!Restore, Shown, Marks
<1>4. Running /\ Running' /\ Mutated /\ Marks' = Marks => Durable!Change
  <2>1. Running /\ Running' /\ (\E r \in Durable!JsonMutations : Shown' = Durable!Apply(Shown, r))
        /\ Marks' = Marks => Durable!Change
    BY DEF Durable!Change, Shown, Marks
  <2> QED
    BY <2>1, MutatedAbstractly
<1>5. ~Running /\ Running' /\ Shown' = Shown /\ Marks' = Marks => Durable!Start
  BY DEF Durable!Start, Shown, Marks
<1>6. ~Running' /\ (Shown' = Shown \/ (Running /\ Mutated)) /\ Marks' = {} => Durable!Stop
  <2>1. /\ ~Running'
        /\ \/ Shown' = Shown
           \/ Running /\ \E r \in Durable!JsonMutations : Shown' = Durable!Apply(Shown, r)
        /\ Marks' = {}
        => Durable!Stop
    BY DEF Durable!Stop, Shown, Marks
  <2> QED
    BY <2>1, MutatedAbstractly
<1> QED
  BY <1>1, <1>2, <1>3, <1>4, <1>5, <1>6 DEF Durable!Next

\* A program's own tables are what its log holds: stopping it between two
\* operations shows the same database.
LEMMA BackedIsHeld == ASSUME Kept, Backed PROVE Held = JsonDb(mem)
<1>1. file \in Files
  BY DEF Kept, Typed, TypeOK
<1>2. CASE Readable(file)
  <2>1. Replayed(file) \in {JsonDb(mem)}
    BY <1>1, <1>2, HeldIn DEF Backed
  <2> QED
    BY <1>2, <2>1 DEF Held
<1>3. CASE ~Readable(file)
  BY <1>3 DEF Backed, Held
<1> QED
  BY <1>2, <1>3

LEMMA CrashImplements ==
    ASSUME PromiseAssumption, Kept, Kept', Stop \/ Crash
    PROVE  Durable!Next
<1>1. /\ pc' = "down" /\ stack' = <<>> /\ savept' = NoDb /\ promise' = promise
      /\ pc \notin {"down", "refused"}
  BY DEF Stop, Crash, Gone
<1>2. Marks' = {} /\ ~Running' /\ Shown' = Held'
  BY <1>1 DEF Marks, Running, Shown
<1>3. CASE pc \in {"idle", "saving", "replaying"}
  <2>1. file' = file
    BY <1>3 DEF Stop, Crash
  <2>2. Held' = Held
    BY <1>1, <2>1 DEF Held
  <2>3. Running => Backed
    BY <1>3 DEF Running, Kept, Serving, Replaying
  <2>4. Shown' = Shown
    BY <1>2, <2>2, <2>3, BackedIsHeld DEF Shown
  <2> QED
    BY <1>2, <2>4, AbstractSteps
<1>4. CASE pc \in {"written", "ended"}
  <2>1. Running /\ Shown = JsonDb(mem)
    BY <1>4 DEF Running, Shown
  <2>2. /\ app.rec \in ProgramRecords /\ mem \in Db /\ file' \in Files
        /\ promise.op = {JsonDb(mem), JsonDb(Apply(mem, app.rec))}
    BY <1>4 DEF Kept, Typed, TypeOK, Appending
  <2>3. JsonDb(Apply(mem, app.rec)) = Apply(JsonDb(mem), JsonRec(app.rec))
    BY <2>2, ApplyImage DEF PromiseAssumption
  <2>4. Held' \in promise.op
    <3>1. ReplaysInto(file', promise.op)
      BY CrashKeepsPromise
    <3>2. Readable(file') => Replayed(file') \in promise.op
      BY <2>2, <3>1, HeldIn
    <3>3. (CHOOSE db \in promise.op : TRUE) \in promise.op
      BY <2>2
    <3> QED
      BY <1>1, <3>2, <3>3 DEF Held
  <2>5. Shown' = Shown \/ Mutated
    BY <1>2, <2>1, <2>2, <2>3, <2>4 DEF Mutated
  <2> QED
    BY <1>2, <2>1, <2>5, AbstractSteps
<1> QED
  BY <1>1, <1>3, <1>4 DEF Kept, Typed, TypeOK

LEMMA StepImplements ==
    ASSUME PromiseAssumption, Kept, [Next]_vars
    PROVE  Durable!Next \/ UNCHANGED Durable!vars
<1>k. Kept'
  BY NextKept
<1>t. TypeOK /\ file \in Files /\ mem \in Db
  BY DEF Kept, Typed, TypeOK
<1>1. CASE CreateOp \/ UpdateOp \/ DeleteOp \/ UpsertOp
  <2>1. PICK r \in ProgramRecords : Mutate(r)
    BY <1>1, ProgramMutationRecord
  <2>2. pc = "idle" /\ WriteRecord(r)
    BY <2>1 DEF Mutate, Kept, Serving, Backed
  <2>3. pc' = "written" /\ UNCHANGED <<mem, stack, savept>>
    BY <2>2 DEF WriteRecord
  <2>4. Running /\ Running' /\ Shown' = Shown /\ Marks' = Marks
    BY <2>2, <2>3 DEF Running, Shown, Marks
  <2> QED
    BY <2>4, AbstractSteps
<1>2. CASE WriteNewline \/ CheckpointOp \/ BeginSave \/ EndSave
  <2>1. /\ pc \in {"idle", "written", "ended", "saving"}
        /\ pc' \in {"idle", "written", "ended", "saving"}
        /\ UNCHANGED <<mem, stack, savept>>
    BY <1>2 DEF WriteNewline, CheckpointOp, BeginSave, EndSave, handle
  <2>2. Running /\ Running' /\ Shown' = Shown /\ Marks' = Marks
    BY <2>1 DEF Running, Shown, Marks
  <2> QED
    BY <2>2, AbstractSteps
<1>3. CASE SyncAndApply
  <2>1. pc = "ended" /\ pc' = "idle" /\ mem' = Apply(mem, app.rec) /\ UNCHANGED <<stack, savept>>
    BY <1>3 DEF SyncAndApply
  <2>2. app.rec \in ProgramRecords
    BY <2>1 DEF Kept, Appending
  <2>3. Running /\ Running' /\ Shown = JsonDb(mem) /\ Shown' = JsonDb(mem') /\ Marks' = Marks
    BY <2>1 DEF Running, Shown, Marks
  <2>4. Mutated
    BY <1>t, <2>1, <2>2, <2>3, ApplyImage DEF Mutated, PromiseAssumption
  <2> QED
    BY <2>3, <2>4, AbstractSteps
<1>4. CASE AppendFails \/ LoadOp
  BY <1>4 DEF AppendFails, LoadOp, PromiseAssumption
<1>5. CASE SavepointOp
  <2>1. pc = "idle" /\ pc' = "idle" /\ savept' = mem /\ UNCHANGED <<mem, stack>>
    BY <1>5 DEF SavepointOp, handle
  <2>2. Running /\ Running' /\ Shown = JsonDb(mem) /\ Shown' = Shown
    BY <2>1 DEF Running, Shown
  <2>3. Marks' \in SUBSET (Marks \cup {Shown})
    BY <2>1, <2>2 DEF Marks
  <2> QED
    BY <2>2, <2>3, AbstractSteps
<1>6. CASE RollbackOp
  <2>1. pc = "idle" /\ pc' = "idle" /\ savept # NoDb /\ mem' = savept /\ UNCHANGED <<stack, savept>>
    BY <1>6 DEF RollbackOp
  <2>2. Running /\ Running' /\ Shown' = JsonDb(savept) /\ Marks' = Marks
    BY <2>1 DEF Running, Shown, Marks
  <2>3. Shown' \in Marks
    BY <2>1, <2>2 DEF Marks
  <2> QED
    BY <2>2, <2>3, AbstractSteps
<1>7. CASE BeginTransaction
  <2>1. /\ pc = "idle" /\ pc' = "idle" /\ UNCHANGED <<mem, savept>>
        /\ stack' = Append(stack, [tables |-> mem, logging |-> logging])
    BY <1>7 DEF BeginTransaction, handle
  <2>2. Running /\ Running' /\ Shown = JsonDb(mem) /\ Shown' = Shown
    BY <2>1 DEF Running, Shown
  <2>3. \A i \in DOMAIN stack' : stack'[i].tables = mem \/ (i \in DOMAIN stack /\ stack'[i] = stack[i])
    <3> DEFINE S   == [tables : Db, logging : BOOLEAN]
               new == [tables |-> mem, logging |-> logging]
    <3>1. stack \in Seq(S) /\ new \in S /\ new.tables = mem
      BY <1>t DEF TypeOK
    <3> HIDE DEF S, new
    <3>2. \A i \in 1..Len(Append(stack, new)) :
             Append(stack, new)[i] = new \/ (i \in 1..Len(stack) /\ Append(stack, new)[i] = stack[i])
      BY <3>1, AppendProperties, LenProperties
    <3>3. DOMAIN stack = 1..Len(stack) /\ DOMAIN Append(stack, new) = 1..Len(Append(stack, new))
      BY <3>1, AppendProperties, LenProperties
    <3> QED
      BY <2>1, <3>1, <3>2, <3>3 DEF new
  <2>4. Marks' \in SUBSET (Marks \cup {Shown})
    BY <2>1, <2>2, <2>3 DEF Marks
  <2> QED
    BY <2>2, <2>4, AbstractSteps
<1>8. CASE CommitTransaction \/ AbortTransaction
  <2>1. /\ pc = "idle" /\ pc' = "idle" /\ savept' = savept /\ stack # <<>> /\ stack' = Rest
    BY <1>8 DEF CommitTransaction, AbortTransaction
  <2>2. Running /\ Running' /\ Shown = JsonDb(mem) /\ Shown' = JsonDb(mem')
    BY <2>1 DEF Running, Shown
  <2>3. Len(stack) \in Nat \ {0} /\ \A i \in 1..Len(Rest) : i \in 1..Len(stack) /\ Rest[i] = stack[i]
    BY <1>t, <2>1, StackPrefix
  <2>4. DOMAIN stack = 1..Len(stack) /\ DOMAIN Rest = 1..Len(Rest)
    BY <1>t, <2>1, StackTypes, LenProperties DEF TypeOK
  <2>5. Marks' \in SUBSET Marks
    BY <2>1, <2>3, <2>4 DEF Marks
  <2>6. mem' = mem \/ JsonDb(mem') \in Marks
    <3>1. CommitTransaction => mem' = mem
      BY DEF CommitTransaction, handle
    <3>2. AbortTransaction => mem' = stack[Len(stack)].tables
      BY DEF AbortTransaction, Top
    <3>3. Len(stack) \in DOMAIN stack
      BY <2>3, <2>4
    <3> QED
      BY <1>8, <3>1, <3>2, <3>3 DEF Marks
  <2> QED
    BY <2>2, <2>5, <2>6, AbstractSteps
<1>9. CASE OpenLog \/ ReplayLine \/ RefuseLog
  <2>1. UNCHANGED <<mem, file, stack, savept, promise>>
    BY <1>9 DEF OpenLog, ReplayLine, RefuseLog, handle, disk
  <2>2. Running' = Running
    <3>1. OpenLog => Running' = Running
      BY DEF OpenLog, Running, NoLoad
    <3>2. ReplayLine => pc = "replaying" /\ pc' = "replaying" /\ load'.live = load.live
      BY <1>t DEF ReplayLine, TypeOK
    <3>3. RefuseLog => Running' = Running
      BY DEF RefuseLog, Running
    <3> QED
      BY <1>9, <3>1, <3>2, <3>3 DEF Running
  <2>3. Held' = Held /\ Marks' = Marks
    BY <2>1 DEF Held, Marks
  <2>4. Shown' = Shown
    BY <2>1, <2>2, <2>3 DEF Shown
  <2> QED
    BY <2>2, <2>3, <2>4, AbstractSteps
<1>10. CASE ReplayEnd
  <2>1. /\ pc = "replaying" /\ pc' = "idle" /\ load.pos = Len(file.lines) /\ file.tail # Garbled
        /\ mem' = IF file.tail \in {NoTail, Torn} THEN load.db ELSE Apply(load.db, file.tail)
        /\ UNCHANGED <<file, stack, savept, promise>>
    BY <1>10 DEF ReplayEnd, disk
  <2>2. Readable(file)
    BY <2>1 DEF Kept, Replaying, Readable
  <2>3. PICK tr : Trace(tr, file) /\ End(tr, file) \in promise.op /\ tr[load.pos] = load.db
    BY <2>1, <2>2 DEF Kept, Replaying
  <2>4. mem' = End(tr, file)
    BY <1>t, <2>1, <2>3, WalAssumption DEF End, Files
  <2>5. Running' /\ Shown' = JsonDb(mem') /\ Marks' = Marks
    BY <2>1 DEF Running, Shown, Marks
  <2>6. Shown' = Held
    <3>1. JsonDb(mem') = mem'
      BY <2>3, <2>4 DEF Kept
    <3>2. Replayed(file) = mem'
      BY <1>t, <2>2, <2>3, <2>4, ReplayedIsEnd
    <3> QED
      BY <2>2, <2>5, <3>1, <3>2 DEF Held
  <2>7. Shown = Held
    <3>1. Running => Backed
      BY <2>1 DEF Running, Kept, Replaying
    <3> QED
      BY <3>1, BackedIsHeld DEF Shown
  <2> QED
    BY <2>5, <2>6, <2>7, AbstractSteps
<1>11. CASE Stop \/ Crash
  BY <1>k, <1>11, CrashImplements
<1>12. CASE UNCHANGED vars
  BY <1>12 DEF vars, Durable!vars, Running, Held
<1> QED
  BY <1>1, <1>2, <1>3, <1>4, <1>5, <1>6, <1>7, <1>8, <1>9, <1>10, <1>11, <1>12 DEF Next, Recover

LEMMA InitImplements == Init => Durable!Init
<1> SUFFICES ASSUME Init PROVE Durable!Init
  OBVIOUS
<1>1. ~Running /\ Marks = {} /\ file = NoFile
  BY DEF Init, Running, Marks
<1>2. Readable(NoFile) /\ NoFile \in Files
  BY FileTypes, WalAssumption DEF Readable, NoFile
<1>3. Replayed(NoFile) = EmptyDb
  BY <1>2, EmptyFileReplays, HeldIn
<1>4. Shown = EmptyDb
  BY <1>1, <1>2, <1>3 DEF Shown, Held
<1> QED
  BY <1>1, <1>4, SameApply DEF Durable!Init, Shown, Marks

(* For every program that does not load JSON snapshots and filters by       *)
(* values whose images compare alike, and for any number of crashes at any  *)
(* step of a mutation, a compaction, a transaction or a replay: the handle  *)
(* is a durable database.  A crash loses nothing acknowledged and completes *)
(* at most the append under way; a replay changes nothing                   *)
(* (append_wal_record, compact_wal, load_wal_records).                      *)
THEOREM LogIsDurable ==
    ASSUME PromiseAssumption
    PROVE  Spec => ImplementsDurableDb
<1>1. Kept /\ [Next]_vars => Kept'
  BY NextKept
<1>2. Kept /\ [Next]_vars => Durable!Next \/ UNCHANGED Durable!vars
  BY StepImplements
<1> QED
  BY <1>1, <1>2, InitKept, InitImplements, PTL DEF Spec, ImplementsDurableDb, Durable!Spec

(***************************************************************************)
(* Refusals.  A log nothing has harmed since it was last replaced holds    *)
(* records only, and an append under way on it started from a terminated   *)
(* file: so a record cut short between two characters leaves a file every  *)
(* start reads, and the next record spoils no line.                        *)
(***************************************************************************)
Clean ==
    /\ Readable(file)
    /\ pc = "written" => file.tail \in Recs
    /\ pc \in {"written", "ended"} => Readable(app.before) /\ app.before.tail = NoTail

Explained ==
    /\ Typed
    /\ harm = {} => Clean

LEMMA WrittenReadable ==
    ASSUME NEW f \in Files, Readable(f), f.tail = NoTail, NEW text \in Recs \cup {Torn},
           NEW g \in Written(f, text)
    PROVE  Readable(g) /\ g.tail = text
<1>1. g = [f EXCEPT !.tail = text]
  BY DEF Written, Glue
<1>2. g.lines = f.lines /\ g.tail = text
  BY <1>1 DEF Files
<1> QED
  BY <1>2, WalAssumption DEF Readable

LEMMA TerminatedReadable ==
    ASSUME NEW f \in Files, Readable(f), f.tail \in Recs
    PROVE  Readable(Terminated(f)) /\ Terminated(f).tail = NoTail
<1>1. f.tail \in Lines /\ f.tail # Torn /\ f.lines \in Seq(Lines)
  BY WalAssumption DEF Lines, Files
<1>2. Terminated(f) = [lines |-> Append(f.lines, f.tail), tail |-> NoTail]
  BY <1>1 DEF Terminated
<1>3. \A i \in 1 .. Len(Append(f.lines, f.tail)) :
         Append(f.lines, f.tail)[i] = f.tail \/ (i \in 1 .. Len(f.lines) /\ Append(f.lines, f.tail)[i] = f.lines[i])
  BY <1>1, AppendProperties, LenProperties
<1> QED
  BY <1>2, <1>3, WalAssumption DEF Readable

LEMMA InitExplained == Init => Explained
BY InitTyped, WalAssumption DEF Init, Explained, Clean, Readable, NoFile

\* A cut between two characters leaves one of the texts a replay reads.
LEMMA CutClean ==
    ASSUME Typed, Clean, pc \in {"written", "ended"}, CutShort, harm' = {}
    PROVE  Readable(file')
<1>t. app.before \in Files /\ JsonRec(app.rec) \in Recs
  BY JsonRecType DEF Typed, TypeOK
<1>b. Readable(app.before) /\ app.before.tail = NoTail /\ Readable(file)
  BY DEF Clean
<1>1. CASE file' \in Whole
  <2>1. \A g \in Written(app.before, JsonRec(app.rec)) : Readable(g)
    BY <1>t, <1>b, WrittenReadable
  <2> QED
    BY <1>1, <1>b, <2>1 DEF Whole
<1>2. CASE \E form \in TornForms : form # Garbled /\ file' \in Written(app.before, form)
  <2>1. PICK form \in TornForms : form # Garbled /\ file' \in Written(app.before, form)
    BY <1>2
  <2>2. form = Torn
    BY <2>1, WalAssumption
  <2> QED
    BY <1>t, <1>b, <2>1, <2>2, WrittenReadable
<1> QED
  BY <1>1, <1>2 DEF CutShort

LEMMA RefusalReads ==
    ASSUME Typed, RefuseLog
    PROVE  ~Readable(file)
<1>1. file.lines \in Seq(Lines) /\ load.pos \in Nat
  BY DEF Typed, TypeOK, Files
<1>2. load.pos < Len(file.lines) => load.pos + 1 \in 1 .. Len(file.lines)
  BY <1>1, LenProperties
<1> QED
  BY <1>2 DEF RefuseLog, Readable

LEMMA NextExplained ==
    ASSUME Explained, [Next]_vars
    PROVE  Explained'
<1> USE DEF Explained
<1>t. Typed' /\ Typed /\ TypeOK /\ file \in Files /\ app.before \in Files
  BY NextTyped DEF Typed, TypeOK
<1>1. CASE CreateOp \/ UpdateOp \/ DeleteOp \/ UpsertOp
  <2>1. PICK r \in MutationRecs : Mutate(r)
    BY <1>1, ProgramMutation
  <2>2. CASE logging /\ WriteRecord(r)
    <3> SUFFICES ASSUME harm' = {} PROVE Clean'
      BY <1>t
    <3>1. JsonRec(r) \in Recs
      BY JsonRecType DEF Recs
    <3>2. /\ pc' = "written" /\ app'.before = file /\ file' \in Written(file, JsonRec(r))
          /\ harm = {} /\ file.tail = NoTail
      BY <2>2 DEF WriteRecord
    <3>3. Readable(file') /\ file'.tail = JsonRec(r)
      BY <1>t, <3>1, <3>2, WrittenReadable DEF Clean
    <3>4. Readable(app'.before) /\ app'.before.tail = NoTail
      BY <3>2 DEF Clean, Readable
    <3> QED
      BY <3>1, <3>2, <3>3, <3>4 DEF Clean
  <2>3. CASE ~logging /\ ApplyUnlogged(r)
    BY <1>t, <2>1, <2>3 DEF Mutate, ApplyUnlogged, Clean, Readable
  <2> QED
    BY <2>1, <2>2, <2>3 DEF Mutate
<1>2. CASE WriteNewline
  <2>1. harm = {} => Readable(file') /\ file'.tail = NoTail
    BY <1>2, <1>t, TerminatedReadable DEF WriteNewline, Clean
  <2> QED
    BY <1>2, <1>t, <2>1 DEF WriteNewline, Clean, Readable
<1>3. CASE SyncAndApply
  BY <1>3, <1>t DEF SyncAndApply, Clean, Readable
<1>4. CASE AppendFails
  <2>1. harm' = {} => harm = {}
    BY <1>4, CutShortLeaves DEF AppendFails
  <2>2. harm' = {} => Readable(file')
    BY <1>4, <1>t, <2>1, CutClean DEF AppendFails
  <2>3. pc' = "idle"
    BY <1>4 DEF AppendFails
  <2> QED
    BY <1>t, <2>2, <2>3 DEF Clean
<1>5. CASE CheckpointOp
  <2>1. /\ pc' = "idle" /\ file' = Compacted(mem) /\ mem \in Db
    BY <1>5, <1>t DEF CheckpointOp, Replace, TypeOK
  <2> QED
    BY <1>t, <2>1, CompactedReadable DEF Clean
<1>6. CASE SavepointOp \/ BeginTransaction \/ CommitTransaction \/ LoadOp
  BY <1>6, <1>t DEF SavepointOp, BeginTransaction, CommitTransaction, LoadOp, disk, Clean, Readable
<1>7. CASE RollbackOp \/ AbortTransaction
  <2>1. PICK db \in Db, enabled \in BOOLEAN : CompactAfterRestore(db, enabled)
    <3>1. CASE RollbackOp
      BY <1>t, <3>1 DEF RollbackOp, TypeOK
    <3>2. CASE AbortTransaction
      BY <1>t, <3>2, StackTypes DEF AbortTransaction
    <3> QED
      BY <1>7, <3>1, <3>2
  <2>2. pc = "idle" /\ pc' = "idle"
    BY <1>7 DEF RollbackOp, AbortTransaction
  <2>3. (file' = file /\ harm' = harm) \/ file' = Compacted(db)
    BY <2>1 DEF CompactAfterRestore, Replace
  <2>4. Readable(Compacted(db))
    BY CompactedReadable
  <2> QED
    BY <1>t, <2>2, <2>3, <2>4 DEF Clean
<1>8. CASE BeginSave \/ EndSave
  BY <1>8, <1>t DEF BeginSave, EndSave, Clean, Readable
<1>9. CASE OpenLog \/ ReplayLine \/ ReplayEnd \/ RefuseLog
  <2>1. pc' \notin {"written", "ended"} /\ UNCHANGED <<file, harm>>
    BY <1>9 DEF OpenLog, ReplayLine, ReplayEnd, RefuseLog, disk
  <2> QED
    BY <1>t, <2>1 DEF Clean, Readable
<1>10. CASE Stop
  BY <1>10, <1>t DEF Stop, Gone, Clean, Readable
<1>11. CASE Crash
  <2>1. pc' = "down"
    BY <1>11 DEF Crash, Gone
  <2>2. CASE pc \in {"written", "ended"}
    <3>1. harm' = {} => harm = {}
      BY <1>11, <2>2, CutShortLeaves DEF Crash
    <3>2. harm' = {} => Readable(file')
      BY <1>11, <1>t, <2>2, <3>1, CutClean DEF Crash
    <3> QED
      BY <1>t, <2>1, <3>2 DEF Clean
  <2>3. CASE pc \notin {"written", "ended"}
    BY <1>11, <1>t, <2>1, <2>3 DEF Crash, Clean, Readable
  <2> QED
    BY <2>2, <2>3
<1>12. CASE UNCHANGED vars
  BY <1>12, <1>t DEF vars, Clean, Readable
<1> QED
  BY <1>1, <1>2, <1>3, <1>4, <1>5, <1>6, <1>7, <1>8, <1>9, <1>10, <1>11, <1>12 DEF Next, Recover

(* For every program, every form a cut can take, failed writes or not, and  *)
(* any number of stops and faults: load_wal_records refuses a log only if   *)
(* an append was cut inside a character, or a record was appended behind an *)
(* unfinished line (append_wal_record does not look at how the file ends),  *)
(* since the last compaction.                                               *)
THEOREM RefusalsAreExplained == Spec => RefusedOnlyIfHarmed
<1>1. Explained /\ [Next]_vars => [RefuseLog => harm # {}]_vars
  <2> SUFFICES ASSUME Explained, RefuseLog PROVE harm # {}
    OBVIOUS
  <2> QED
    BY RefusalReads DEF Explained, Clean
<1>2. Explained /\ [Next]_vars => Explained'
  BY NextExplained
<1> QED
  BY <1>1, <1>2, InitExplained, PTL DEF Spec, RefusedOnlyIfHarmed
==============================================================================
