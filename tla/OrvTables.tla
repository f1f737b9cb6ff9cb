------------------------------ MODULE OrvTables ------------------------------
(***************************************************************************)
(* The data of one runtime database handle (crates/orv-runtime/src/db.rs)  *)
(* and what one mutation does to it.  A table is its id counter and its    *)
(* rows; of a row we keep the automatic id and one stored value, which     *)
(* stands for the columns a query filters on.  Row order is the id order,  *)
(* since the only insertion appends a row with the next id.                *)
(*                                                                         *)
(* What reaches a file is the JSON image of a value (value_to_json), which *)
(* is not the value itself: NaN comes back as void, a tuple as an array, a *)
(* type name as a string.  NeverEq is the set of values values_eq finds    *)
(* equal to nothing, not even to themselves.                               *)
(***************************************************************************)
EXTENDS Integers

CONSTANTS
    Tables,     \* names of tables
    Vals,       \* values a row can hold
    Json,       \* what a value is after value_to_json and json_to_value
    NeverEq,    \* values that compare unequal to every value
    QueryVals   \* values the program compares rows with

ASSUME TablesAssumption ==
    /\ QueryVals \subseteq Vals
    /\ NeverEq \subseteq Vals
    /\ Json \in [Vals -> Vals]
    /\ \A v \in Vals : Json[Json[v]] = Json[v]

Row   == [id : Nat \ {0}, val : Vals]
Table == [next_id : Nat, rows : SUBSET Row]
Db    == [Tables -> Table]

EmptyDb == [t \in Tables |-> [next_id |-> 0, rows |-> {}]]

(***************************************************************************)
(* Queries: one filter, equality or inequality with a value.               *)
(***************************************************************************)
Filters == [cmp : {"eq", "ne"}, val : Vals]

\* Those of the program.
ProgramFilters == {f \in Filters : f.val \in QueryVals}

ValuesEq(a, b) == a = b /\ a \notin NeverEq

Matches(v, f) == IF f.cmp = "eq" THEN ValuesEq(v, f.val) ELSE ~ValuesEq(v, f.val)

(***************************************************************************)
(* Mutations, as the records the log holds.                                *)
(***************************************************************************)
CreateRec(t, v)    == [op |-> "create", table |-> t, data |-> v]
UpdateRec(t, f, v) == [op |-> "update", table |-> t, query |-> f, data |-> v]
DeleteRec(t, f)    == [op |-> "delete", table |-> t, query |-> f]
CheckpointRec(db)  == [op |-> "checkpoint", snapshot |-> db]

MutationRecs ==
         [op : {"create"}, table : Tables, data : Vals]
    \cup [op : {"update"}, table : Tables, query : Filters, data : Vals]
    \cup [op : {"delete"}, table : Tables, query : Filters]

Recs == MutationRecs \cup [op : {"checkpoint"}, snapshot : Db]

\* Mutant of Create: the row gets the counter's value, not the next one.
Bug_IdFromCounter(tb, v) ==
    [next_id |-> tb.next_id + 1,
     rows    |-> tb.rows \cup {[id |-> tb.next_id, val |-> v]}]

Create(tb, v) ==
    [next_id |-> tb.next_id + 1,
     rows    |-> tb.rows \cup {[id |-> tb.next_id + 1, val |-> v]}]

Update(tb, f, v) ==
    [next_id |-> tb.next_id,
     rows    |-> {IF Matches(r.val, f) THEN [id |-> r.id, val |-> v] ELSE r : r \in tb.rows}]

Delete(tb, f) ==
    [next_id |-> tb.next_id,
     rows    |-> {r \in tb.rows : ~Matches(r.val, f)}]

\* What a mutation, live or replayed from the log, makes of the database.
Apply(db, r) ==
    CASE r.op = "create" -> [db EXCEPT ![r.table] = Create(@, r.data)]
      [] r.op = "update" -> [db EXCEPT ![r.table] = Update(@, r.query, r.data)]
      [] r.op = "delete" -> [db EXCEPT ![r.table] = Delete(@, r.query)]
      [] r.op = "checkpoint" -> r.snapshot

\* upsert writes one record: a create when nothing matches, else an update.
UpsertRec(db, t, f, v) ==
    IF \E r \in db[t].rows : Matches(r.val, f)
    THEN UpdateRec(t, f, v)
    ELSE CreateRec(t, v)

(***************************************************************************)
(* The JSON image of a table, of a database and of a record.               *)
(***************************************************************************)
JsonFilter(f) == [cmp |-> f.cmp, val |-> Json[f.val]]

\* Mutant of JsonTable: the image forgets the counter.
Bug_CounterNotSaved(tb) ==
    [next_id |-> 0, rows |-> {[id |-> r.id, val |-> Json[r.val]] : r \in tb.rows}]

JsonTable(tb) ==
    [next_id |-> tb.next_id, rows |-> {[id |-> r.id, val |-> Json[r.val]] : r \in tb.rows}]
JsonDb(db)    == [t \in Tables |-> JsonTable(db[t])]

JsonRec(r) ==
    CASE r.op = "create" -> CreateRec(r.table, Json[r.data])
      [] r.op = "update" -> UpdateRec(r.table, JsonFilter(r.query), Json[r.data])
      [] r.op = "delete" -> DeleteRec(r.table, JsonFilter(r.query))
      [] r.op = "checkpoint" -> CheckpointRec(JsonDb(r.snapshot))

\* The filters a program uses mean the same on the JSON image of a row.
FiltersSurviveJson ==
    \A v \in Vals, q \in QueryVals : ValuesEq(v, q) <=> ValuesEq(Json[v], Json[q])

\* Ids are unique in a table and at most its counter.
WellNumbered(tb) ==
    /\ \A r \in tb.rows : r.id <= tb.next_id
    /\ \A r, s \in tb.rows : r.id = s.id => r = s
==============================================================================
