---------------------------- MODULE OrvTablesProofs ----------------------------
(***************************************************************************)
(* Lemmas about the tables of a database handle: what a mutation and the   *)
(* JSON image make of their types, of their ids and of each other.         *)
(***************************************************************************)
EXTENDS OrvTables, TLAPS

USE DEF Row, Table, Db

(***************************************************************************)
(* Typing of the table operators.                                          *)
(***************************************************************************)

LEMMA EmptyDbType == EmptyDb \in Db
BY DEF EmptyDb

LEMMA RecCases ==
    ASSUME NEW r \in Recs
    PROVE  \/ r.op = "create" /\ r = CreateRec(r.table, r.data)
              /\ r.table \in Tables /\ r.data \in Vals
           \/ r.op = "update" /\ r = UpdateRec(r.table, r.query, r.data)
              /\ r.table \in Tables /\ r.query \in Filters /\ r.data \in Vals
           \/ r.op = "delete" /\ r = DeleteRec(r.table, r.query)
              /\ r.table \in Tables /\ r.query \in Filters
           \/ r.op = "checkpoint" /\ r = CheckpointRec(r.snapshot) /\ r.snapshot \in Db
BY DEF Recs, MutationRecs, CreateRec, UpdateRec, DeleteRec, CheckpointRec

LEMMA TableOpsType ==
    ASSUME NEW tb \in Table, NEW v \in Vals, NEW f
    PROVE  Create(tb, v) \in Table /\ Update(tb, f, v) \in Table /\ Delete(tb, f) \in Table
<1>1. Create(tb, v) \in Table
  BY DEF Create
<1>2. Update(tb, f, v) \in Table
  BY DEF Update
<1>3. Delete(tb, f) \in Table
  BY DEF Delete
<1> QED
  BY <1>1, <1>2, <1>3

\* The value Apply gives each kind of record.
LEMMA ApplyCases ==
    ASSUME NEW db, NEW r
    PROVE  /\ r.op = "create" => Apply(db, r) = [db EXCEPT ![r.table] = Create(@, r.data)]
           /\ r.op = "update" => Apply(db, r) = [db EXCEPT ![r.table] = Update(@, r.query, r.data)]
           /\ r.op = "delete" => Apply(db, r) = [db EXCEPT ![r.table] = Delete(@, r.query)]
           /\ r.op = "checkpoint" => Apply(db, r) = r.snapshot
BY DEF Apply

LEMMA ApplyType ==
    ASSUME NEW db \in Db, NEW r \in Recs
    PROVE  Apply(db, r) \in Db
<1> USE ApplyCases, RecCases
<1>1. CASE r.op = "create"
  <2>1. r.table \in Tables /\ r.data \in Vals
    BY <1>1
  <2>2. Create(db[r.table], r.data) \in Table
    BY <2>1, TableOpsType
  <2> QED
    BY <1>1, <2>1, <2>2
<1>2. CASE r.op = "update"
  <2>1. r.table \in Tables /\ r.data \in Vals
    BY <1>2
  <2>2. Update(db[r.table], r.query, r.data) \in Table
    BY <2>1, TableOpsType
  <2> QED
    BY <1>2, <2>1, <2>2
<1>3. CASE r.op = "delete"
  <2>1. r.table \in Tables
    BY <1>3
  <2>2. \A v \in Vals : Delete(db[r.table], r.query) \in Table
    BY <2>1, TableOpsType
  <2>3. Delete(db[r.table], r.query) \in Table
    BY <2>1 DEF Delete
  <2> QED
    BY <1>3, <2>1, <2>3
<1>4. CASE r.op = "checkpoint"
  BY <1>4
<1> QED
  BY <1>1, <1>2, <1>3, <1>4

LEMMA JsonDbType ==
    ASSUME NEW db \in Db
    PROVE  JsonDb(db) \in Db
BY TablesAssumption DEF JsonDb, JsonTable

LEMMA JsonRecCases ==
    ASSUME NEW r
    PROVE  /\ r.op = "create" => JsonRec(r) = CreateRec(r.table, Json[r.data])
           /\ r.op = "update" => JsonRec(r) = UpdateRec(r.table, JsonFilter(r.query), Json[r.data])
           /\ r.op = "delete" => JsonRec(r) = DeleteRec(r.table, JsonFilter(r.query))
           /\ r.op = "checkpoint" => JsonRec(r) = CheckpointRec(JsonDb(r.snapshot))
BY DEF JsonRec

LEMMA JsonRecType ==
    ASSUME NEW r \in Recs
    PROVE  JsonRec(r) \in Recs
<1>1. \A f \in Filters : JsonFilter(f) \in Filters
  BY TablesAssumption DEF JsonFilter, Filters
<1>2. CASE r.op = "create"
  BY <1>2, RecCases, JsonRecCases, TablesAssumption DEF Recs, MutationRecs, CreateRec
<1>3. CASE r.op = "update"
  BY <1>1, <1>3, RecCases, JsonRecCases, TablesAssumption DEF Recs, MutationRecs, UpdateRec
<1>4. CASE r.op = "delete"
  BY <1>1, <1>4, RecCases, JsonRecCases, TablesAssumption DEF Recs, MutationRecs, DeleteRec
<1>5. CASE r.op = "checkpoint"
  BY <1>5, RecCases, JsonRecCases, JsonDbType DEF Recs, CheckpointRec
<1> QED
  BY <1>2, <1>3, <1>4, <1>5, RecCases

(***************************************************************************)
(* Ids: unique in each table, and at most its counter.                     *)
(***************************************************************************)
DbNumbered(db) == \A t \in Tables : WellNumbered(db[t])

RecNumbered(r) == r.op = "checkpoint" => DbNumbered(r.snapshot)

LEMMA TableOpsNumbered ==
    ASSUME NEW tb \in Table, WellNumbered(tb), NEW v, NEW f
    PROVE  /\ WellNumbered(Create(tb, v))
           /\ WellNumbered(Update(tb, f, v))
           /\ WellNumbered(Delete(tb, f))
           /\ WellNumbered(JsonTable(tb))
<1>1. WellNumbered(Create(tb, v))
  BY DEF WellNumbered, Create
<1>2. WellNumbered(Update(tb, f, v))
  <2>1. \A r \in Update(tb, f, v).rows : \E s \in tb.rows :
           r.id = s.id /\ (r = IF Matches(s.val, f) THEN [id |-> s.id, val |-> v] ELSE s)
    BY DEF Update
  <2> QED
    BY <2>1 DEF WellNumbered, Update
<1>3. WellNumbered(Delete(tb, f))
  BY DEF WellNumbered, Delete
<1>4. WellNumbered(JsonTable(tb))
  <2>1. \A r \in JsonTable(tb).rows : \E s \in tb.rows : r = [id |-> s.id, val |-> Json[s.val]]
    BY DEF JsonTable
  <2> QED
    BY <2>1 DEF WellNumbered, JsonTable
<1> QED
  BY <1>1, <1>2, <1>3, <1>4

LEMMA EmptyDbNumbered == DbNumbered(EmptyDb)
BY DEF DbNumbered, EmptyDb, WellNumbered

LEMMA JsonDbNumbered ==
    ASSUME NEW db \in Db, DbNumbered(db)
    PROVE  DbNumbered(JsonDb(db))
BY TableOpsNumbered DEF DbNumbered, JsonDb

LEMMA ApplyNumbered ==
    ASSUME NEW db \in Db, DbNumbered(db), NEW r \in Recs, RecNumbered(r)
    PROVE  DbNumbered(Apply(db, r))
<1> USE ApplyCases, RecCases
<1>1. CASE r.op = "create"
  <2>1. WellNumbered(Create(db[r.table], r.data))
    BY <1>1, TableOpsNumbered DEF DbNumbered
  <2>2. \A t \in Tables : \/ t = r.table /\ Apply(db, r)[t] = Create(db[r.table], r.data)
                         \/ Apply(db, r)[t] = db[t]
    BY <1>1
  <2> QED
    BY <2>1, <2>2 DEF DbNumbered
<1>2. CASE r.op = "update"
  <2>1. WellNumbered(Update(db[r.table], r.query, r.data))
    BY <1>2, TableOpsNumbered DEF DbNumbered
  <2>2. \A t \in Tables : \/ t = r.table /\ Apply(db, r)[t] = Update(db[r.table], r.query, r.data)
                         \/ Apply(db, r)[t] = db[t]
    BY <1>2
  <2> QED
    BY <2>1, <2>2 DEF DbNumbered
<1>3. CASE r.op = "delete"
  <2>1. WellNumbered(Delete(db[r.table], r.query))
    BY <1>3, TableOpsNumbered DEF DbNumbered
  <2>2. \A t \in Tables : \/ t = r.table /\ Apply(db, r)[t] = Delete(db[r.table], r.query)
                         \/ Apply(db, r)[t] = db[t]
    BY <1>3
  <2> QED
    BY <2>1, <2>2 DEF DbNumbered
<1>4. CASE r.op = "checkpoint"
  BY <1>4 DEF RecNumbered
<1> QED
  BY <1>1, <1>2, <1>3, <1>4

LEMMA MutationRecsNumbered ==
    ASSUME NEW r \in MutationRecs
    PROVE  r \in Recs /\ RecNumbered(r) /\ RecNumbered(JsonRec(r))
BY JsonRecCases, RecCases DEF RecNumbered, MutationRecs, Recs, CreateRec, UpdateRec, DeleteRec

(***************************************************************************)
(* JSON images.  A mutation and the image commute: replaying the record of *)
(* a mutation on the image of the tables gives the image of the result.    *)
(***************************************************************************)
ProgramRecords == {r \in MutationRecs : r.op # "create" => r.query \in ProgramFilters}

\* JsonTable, with the image of one row named.
Image(r) == [id |-> r.id, val |-> Json[r.val]]

LEMMA JsonTableRows ==
    /\ \A tb : JsonTable(tb) = [next_id |-> tb.next_id, rows |-> {Image(r) : r \in tb.rows}]
    /\ \A n, rows : JsonTable([next_id |-> n, rows |-> rows])
                     = [next_id |-> n, rows |-> {Image(r) : r \in rows}]
BY DEF JsonTable, Image

LEMMA JsonIdempotent ==
    ASSUME NEW db \in Db
    PROVE  JsonDb(JsonDb(db)) = JsonDb(db)
<1>1. ASSUME NEW tb \in Table PROVE JsonTable(JsonTable(tb)) = JsonTable(tb)
  <2> DEFINE S == {Image(r) : r \in tb.rows}
  <2>1. \A r \in tb.rows : Image(Image(r)) = Image(r)
    BY TablesAssumption DEF Image
  <2>2. {Image(s) : s \in S} = S
    BY <2>1
  <2>3. JsonTable(tb) = [next_id |-> tb.next_id, rows |-> S]
    BY JsonTableRows
  <2> HIDE DEF S
  <2>4. JsonTable(JsonTable(tb)) = [next_id |-> tb.next_id, rows |-> {Image(s) : s \in S}]
    BY <2>3, JsonTableRows
  <2> QED
    BY <2>2, <2>3, <2>4
<1>2. \A t \in Tables : db[t] \in Table /\ JsonDb(db)[t] = JsonTable(db[t])
  BY DEF JsonDb
<1>3. JsonDb(JsonDb(db)) = [t \in Tables |-> JsonTable(JsonDb(db)[t])]
  BY DEF JsonDb
<1>4. JsonDb(db) = [t \in Tables |-> JsonTable(db[t])]
  BY DEF JsonDb
<1> QED
  BY <1>1, <1>2, <1>3, <1>4

LEMMA MatchesImage ==
    ASSUME FiltersSurviveJson, NEW v \in Vals, NEW f \in ProgramFilters
    PROVE  Matches(v, f) <=> Matches(Json[v], JsonFilter(f))
BY DEF FiltersSurviveJson, ProgramFilters, Matches, JsonFilter, Filters

LEMMA CreateImage ==
    ASSUME NEW tb \in Table, NEW v \in Vals
    PROVE  JsonTable(Create(tb, v)) = Create(JsonTable(tb), Json[v])
<1> DEFINE n      == tb.next_id + 1
           row    == [id |-> n, val |-> v]
           images == {Image(r) : r \in tb.rows}
<1>1. {Image(r) : r \in tb.rows \cup {row}} = images \cup {Image(row)}
  OBVIOUS
<1>2. Image(row) = [id |-> n, val |-> Json[v]]
  BY DEF Image
<1>3. Create(tb, v) = [next_id |-> n, rows |-> tb.rows \cup {row}]
  BY DEF Create
<1>4. Create(JsonTable(tb), Json[v])
        = [next_id |-> n, rows |-> images \cup {[id |-> n, val |-> Json[v]]}]
  BY JsonTableRows DEF Create
<1> HIDE DEF n, row, images
<1>5. JsonTable(Create(tb, v)) = [next_id |-> n, rows |-> {Image(r) : r \in tb.rows \cup {row}}]
  BY <1>3, JsonTableRows
<1> QED
  BY <1>1, <1>2, <1>4, <1>5

LEMMA UpdateImage ==
    ASSUME FiltersSurviveJson, NEW tb \in Table, NEW f \in ProgramFilters, NEW v \in Vals
    PROVE  JsonTable(Update(tb, f, v)) = Update(JsonTable(tb), JsonFilter(f), Json[v])
<1> DEFINE new(r)  == IF Matches(r.val, f) THEN [id |-> r.id, val |-> v] ELSE r
           newJ(r) == IF Matches(r.val, JsonFilter(f)) THEN [id |-> r.id, val |-> Json[v]] ELSE r
           n       == tb.next_id
           rows    == {new(r) : r \in tb.rows}
           images  == {Image(r) : r \in tb.rows}
<1>1. \A r \in tb.rows : Image(new(r)) = newJ(Image(r))
  <2>1. TAKE r \in tb.rows
  <2>2. Image(r).id = r.id /\ Image(r).val = Json[r.val]
    BY DEF Image
  <2>3. Matches(r.val, f) <=> Matches(Image(r).val, JsonFilter(f))
    BY <2>2, MatchesImage
  <2>4. CASE Matches(r.val, f)
    BY <2>2, <2>3, <2>4 DEF Image
  <2>5. CASE ~Matches(r.val, f)
    BY <2>3, <2>5
  <2> QED
    BY <2>4, <2>5
<1>2. Update(tb, f, v) = [next_id |-> n, rows |-> rows]
  BY DEF Update
<1>3. Update(JsonTable(tb), JsonFilter(f), Json[v])
        = [next_id |-> n, rows |-> {newJ(s) : s \in images}]
  BY JsonTableRows DEF Update
<1> HIDE DEF new, newJ
<1>4. {Image(s) : s \in rows} = {newJ(s) : s \in images}
  BY <1>1
<1> HIDE DEF n, rows, images
<1>5. JsonTable(Update(tb, f, v)) = [next_id |-> n, rows |-> {Image(s) : s \in rows}]
  BY <1>2, JsonTableRows
<1> QED
  BY <1>3, <1>4, <1>5

LEMMA DeleteImage ==
    ASSUME FiltersSurviveJson, NEW tb \in Table, NEW f \in ProgramFilters
    PROVE  JsonTable(Delete(tb, f)) = Delete(JsonTable(tb), JsonFilter(f))
<1> DEFINE n      == tb.next_id
           rows   == {r \in tb.rows : ~Matches(r.val, f)}
           images == {Image(r) : r \in tb.rows}
<1>1. \A r \in tb.rows : Matches(r.val, f) <=> Matches(Image(r).val, JsonFilter(f))
  BY MatchesImage DEF Image
<1>2. {Image(s) : s \in rows} = {s \in images : ~Matches(s.val, JsonFilter(f))}
  BY <1>1
<1>3. Delete(tb, f) = [next_id |-> n, rows |-> rows]
  BY DEF Delete
<1>4. Delete(JsonTable(tb), JsonFilter(f))
        = [next_id |-> n, rows |-> {s \in images : ~Matches(s.val, JsonFilter(f))}]
  BY JsonTableRows DEF Delete
<1> HIDE DEF n, rows, images
<1>5. JsonTable(Delete(tb, f)) = [next_id |-> n, rows |-> {Image(s) : s \in rows}]
  BY <1>3, JsonTableRows
<1> QED
  BY <1>2, <1>4, <1>5

LEMMA ApplyImage ==
    ASSUME FiltersSurviveJson, NEW db \in Db, NEW r \in ProgramRecords
    PROVE  JsonDb(Apply(db, r)) = Apply(JsonDb(db), JsonRec(r))
<1> USE ApplyCases, RecCases, JsonRecCases
<1>r. r \in Recs /\ r.op \in {"create", "update", "delete"}
  BY DEF ProgramRecords, MutationRecs, Recs
<1>d. \A t \in Tables : JsonDb(db)[t] = JsonTable(db[t]) /\ db[t] \in Table
  BY DEF JsonDb
<1>1. CASE r.op = "create"
  <2>1. r.table \in Tables /\ r.data \in Vals
    BY <1>1, <1>r
  <2>2. JsonRec(r).op = "create" /\ JsonRec(r).table = r.table /\ JsonRec(r).data = Json[r.data]
    BY <1>1 DEF CreateRec
  <2>3. Apply(JsonDb(db), JsonRec(r)) = [JsonDb(db) EXCEPT ![r.table] = Create(@, Json[r.data])]
    BY <2>2
  <2>4. Apply(db, r) = [db EXCEPT ![r.table] = Create(@, r.data)]
    BY <1>1
  <2>5. JsonTable(Create(db[r.table], r.data)) = Create(JsonTable(db[r.table]), Json[r.data])
    BY <2>1, CreateImage
  <2> QED
    BY <1>d, <2>1, <2>3, <2>4, <2>5 DEF JsonDb
<1>2. CASE r.op = "update"
  <2>1. r.table \in Tables /\ r.data \in Vals /\ r.query \in ProgramFilters
    BY <1>2, <1>r DEF ProgramRecords
  <2>2. /\ JsonRec(r).op = "update" /\ JsonRec(r).table = r.table
        /\ JsonRec(r).query = JsonFilter(r.query) /\ JsonRec(r).data = Json[r.data]
    BY <1>2 DEF UpdateRec
  <2>3. Apply(JsonDb(db), JsonRec(r))
          = [JsonDb(db) EXCEPT ![r.table] = Update(@, JsonFilter(r.query), Json[r.data])]
    BY <2>2
  <2>4. Apply(db, r) = [db EXCEPT ![r.table] = Update(@, r.query, r.data)]
    BY <1>2
  <2>5. JsonTable(Update(db[r.table], r.query, r.data))
          = Update(JsonTable(db[r.table]), JsonFilter(r.query), Json[r.data])
    BY <2>1, UpdateImage
  <2> QED
    BY <1>d, <2>1, <2>3, <2>4, <2>5 DEF JsonDb
<1>3. CASE r.op = "delete"
  <2>1. r.table \in Tables /\ r.query \in ProgramFilters
    BY <1>3, <1>r DEF ProgramRecords
  <2>2. /\ JsonRec(r).op = "delete" /\ JsonRec(r).table = r.table
        /\ JsonRec(r).query = JsonFilter(r.query)
    BY <1>3 DEF DeleteRec
  <2>3. Apply(JsonDb(db), JsonRec(r)) = [JsonDb(db) EXCEPT ![r.table] = Delete(@, JsonFilter(r.query))]
    BY <2>2
  <2>4. Apply(db, r) = [db EXCEPT ![r.table] = Delete(@, r.query)]
    BY <1>3
  <2>5. JsonTable(Delete(db[r.table], r.query)) = Delete(JsonTable(db[r.table]), JsonFilter(r.query))
    BY <2>1, DeleteImage
  <2> QED
    BY <1>d, <2>1, <2>3, <2>4, <2>5 DEF JsonDb
<1> QED
  BY <1>r, <1>1, <1>2, <1>3
==============================================================================
