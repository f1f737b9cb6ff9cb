---------------------------- MODULE OrvDbProofs -----------------------------
(***************************************************************************)
(* What holds of the database commands of orv: of OrvMigrate for every     *)
(* history of schemas, every number of commands and of commands cut short, *)
(* and of OrvArchive for every number of recover commands, writes,         *)
(* compactions, archives, requests in flight and attempts.                 *)
(***************************************************************************)
EXTENDS OrvMigrate, OrvArchive, SequenceTheorems, FiniteSetTheorems, NaturalsInduction,
        WellFoundedInduction, TLAPS

-----------------------------------------------------------------------------
(* Migrations.                                                             *)

(***************************************************************************)
(* A plan is a sequence of writes.  Ends is what a file can hold when the  *)
(* writes left are done; a plan is guarded when the data file is written   *)
(* only behind its backup.                                                 *)
(***************************************************************************)
IsPlan(writes) == \E S : writes \in Seq(S)

Ends(writes, file, now) ==
    IF \E w \in ToSet(writes) : w.file = file
    THEN {w.value : w \in {u \in ToSet(writes) : u.file = file}}
    ELSE {now}

Guarded(writes) ==
    \A i \in 1 .. Len(writes) : writes[i].file = "data" =>
        \E j \in 1 .. Len(writes) : j < i /\ writes[j].file = "dataRb"

(***************************************************************************)
(* The invariant.  The data a command started from is in the data file     *)
(* until its backup is written, and is in the backup from then on.  Where  *)
(* every command had the data file and none was cut short, the command     *)
(* under way leads to a schema and data that agree, and to a pair of       *)
(* backups that agree and are what the last migrate started from.          *)
(***************************************************************************)
Shapes ==
    /\ IsPlan(cmd.writes) /\ cmd = [name |-> cmd.name, writes |-> cmd.writes]
    /\ cmd.name \in {"none", "migrate", "rollback", "backup", "restore"}
    /\ \E V : before \in [schema : V, data : V, kept : BOOLEAN]
    /\ cmd.name = "none" => cmd.writes = <<>>

DataKept ==
    before.kept =>
        /\ \A w \in ToSet(cmd.writes) : w.file = "dataRb" => w.value = before.data
        /\ dataRb = before.data \/ (data = before.data /\ Guarded(cmd.writes))

Agree(s, d) == \A t \in Rows(d) : t \in DOMAIN s /\ DOMAIN d[t] = Fields(s, t)

Paired == {"paired", "migrations", "whole"} \subseteq only

Good(name, was, s, sr, d, dr) ==
    /\ Agree(SchemaOf(s), d)
    /\ s = NoFile => sr = NoFile
    /\ sr # NoFile => Agree(SchemaOf(sr), dr)
    /\ IF name = "rollback"
       THEN s = was.schema /\ d = was.data /\ sr = NoFile
       ELSE sr # NoFile => sr = was.schema /\ dr = was.data

LeadsToGood ==
    Paired =>
        \A s \in Ends(cmd.writes, "schema", schema), sr \in Ends(cmd.writes, "schemaRb", schemaRb),
           d \in Ends(cmd.writes, "data", data), dr \in Ends(cmd.writes, "dataRb", dataRb) :
            Good(cmd.name, before, s, sr, d, dr)

Safe == Shapes /\ DataKept /\ LeadsToGood

(***************************************************************************)
(* The writes of a plan put together from pieces.                          *)
(***************************************************************************)
LEMMA OnePiece ==
    ASSUME NEW S, NEW a \in S
    PROVE  /\ <<a>> \in Seq(S) /\ <<>> \in Seq(S)
           /\ ToSet(<<a>>) = {a} /\ ToSet(<<>>) = {}
           /\ Len(<<a>>) = 1 /\ <<a>>[1] = a /\ Len(<<>>) = 0
BY DEF ToSet

LEMMA TwoPieces ==
    ASSUME NEW S, NEW a \in S, NEW b \in S
    PROVE  <<a, b>> \in Seq(S) /\ ToSet(<<a, b>>) = {a, b}
<1>1. <<a, b>> \in Seq(S) /\ DOMAIN <<a, b>> = 1 .. 2 /\ <<a, b>>[1] = a /\ <<a, b>>[2] = b
  OBVIOUS
<1>2. \A i : i \in 1 .. 2 <=> i = 1 \/ i = 2
  OBVIOUS
<1> DEFINE p == <<a, b>>
<1> HIDE DEF p
<1>3. DOMAIN p = 1 .. 2 /\ p[1] = a /\ p[2] = b
  BY <1>1 DEF p
<1>4. ToSet(p) = {a, b}
  BY <1>2, <1>3 DEF ToSet
<1> QED
  BY <1>1, <1>4 DEF p

LEMMA Joined ==
    ASSUME NEW S, NEW p \in Seq(S), NEW q \in Seq(S)
    PROVE  /\ p \o q \in Seq(S)
           /\ ToSet(p \o q) = ToSet(p) \cup ToSet(q)
           /\ Guarded(p) /\ ((\E w \in ToSet(p) : w.file = "dataRb") \/ Guarded(q)) => Guarded(p \o q)
<1> DEFINE m == Len(p)
           n == Len(q)
           r == p \o q
<1>1. m \in Nat /\ n \in Nat /\ DOMAIN p = 1 .. m /\ DOMAIN q = 1 .. n
  BY LenProperties
<1>2. /\ r \in Seq(S) /\ Len(r) = m + n /\ DOMAIN r = 1 .. m + n
      /\ \A i \in 1 .. m + n : r[i] = IF i <= m THEN p[i] ELSE q[i - m]
  BY <1>1, ConcatProperties, LenProperties
<1> HIDE DEF m, n, r
<1>3. \A i \in 1 .. m : i \in 1 .. m + n /\ r[i] = p[i]
  BY <1>1, <1>2
<1>4. \A i \in 1 .. n : m + i \in 1 .. m + n /\ r[m + i] = q[i]
  BY <1>1, <1>2
<1>5. \A i \in 1 .. m + n : i \in 1 .. m \/ (i - m \in 1 .. n /\ i = m + (i - m))
  BY <1>1
<1>6. ToSet(r) = ToSet(p) \cup ToSet(q)
  <2>0. ToSet(p) = {p[i] : i \in 1 .. m} /\ ToSet(q) = {q[i] : i \in 1 .. n} /\ ToSet(r) = {r[i] : i \in 1 .. m + n}
    BY <1>1, <1>2 DEF ToSet
  <2>1. ASSUME NEW w \in ToSet(p) PROVE w \in ToSet(r)
    <3>1. PICK i \in 1 .. m : w = p[i]
      BY <2>0, <2>1
    <3> QED
      BY <1>3, <2>0, <3>1
  <2>2. ASSUME NEW w \in ToSet(q) PROVE w \in ToSet(r)
    <3>1. PICK i \in 1 .. n : w = q[i]
      BY <2>0, <2>2
    <3> QED
      BY <1>4, <2>0, <3>1
  <2>3. ASSUME NEW w \in ToSet(r) PROVE w \in ToSet(p) \cup ToSet(q)
    <3>1. PICK i \in 1 .. m + n : w = r[i]
      BY <2>0, <2>3
    <3>2. CASE i \in 1 .. m
      BY <1>3, <2>0, <3>1, <3>2
    <3>3. CASE i - m \in 1 .. n /\ i = m + (i - m)
      BY <1>4, <2>0, <3>1, <3>3
    <3> QED
      BY <1>5, <3>2, <3>3
  <2> QED
    BY <2>1, <2>2, <2>3
<1>7. ASSUME Guarded(p), (\E w \in ToSet(p) : w.file = "dataRb") \/ Guarded(q)
      PROVE  Guarded(r)
  <2> SUFFICES ASSUME NEW i \in 1 .. m + n, r[i].file = "data"
               PROVE  \E j \in 1 .. m + n : j < i /\ r[j].file = "dataRb"
    BY <1>2 DEF Guarded
  <2>1. CASE i \in 1 .. m
    <3>1. PICK j \in 1 .. m : j < i /\ p[j].file = "dataRb"
      BY <1>3, <1>7, <2>1 DEF Guarded, m
    <3> QED
      BY <1>3, <3>1
  <2>2. CASE i \notin 1 .. m
    <3>1. CASE \E w \in ToSet(p) : w.file = "dataRb"
      <4>1. PICK j \in 1 .. m : p[j].file = "dataRb"
        BY <1>1, <3>1 DEF ToSet
      <4> QED
        BY <1>1, <1>3, <2>2, <4>1
    <3>2. CASE Guarded(q)
      <4>1. i - m \in 1 .. n /\ q[i - m].file = "data"
        BY <1>4, <1>5, <2>2
      <4>2. PICK j \in 1 .. n : j < i - m /\ q[j].file = "dataRb"
        BY <3>2, <4>1 DEF Guarded, n
      <4> QED
        BY <1>1, <1>4, <4>2
    <3> QED
      BY <1>7, <3>1, <3>2
  <2> QED
    BY <2>1, <2>2
<1> QED
  BY <1>2, <1>6, <1>7 DEF r


LEMMA OptionalPiece ==
    ASSUME NEW S, NEW a \in S, NEW present
    PROVE  /\ Optional(present, <<a>>) \in Seq(S)
           /\ ToSet(Optional(present, <<a>>)) = IF present THEN {a} ELSE {}
           /\ (present => a.file # "data") => Guarded(Optional(present, <<a>>))
<1>1. CASE present
  <2>1. Optional(present, <<a>>) = <<a>>
    BY <1>1 DEF Optional
  <2>2. <<a>> \in Seq(S) /\ ToSet(<<a>>) = {a} /\ Len(<<a>>) = 1 /\ <<a>>[1] = a
    BY OnePiece
  <2>3. a.file # "data" => Guarded(<<a>>)
    BY <2>2 DEF Guarded
  <2> QED
    BY <1>1, <2>1, <2>2, <2>3
<1>2. CASE ~present
  <2>1. Optional(present, <<a>>) = <<>>
    BY <1>2 DEF Optional
  <2>2. <<>> \in Seq(S) /\ ToSet(<<>>) = {} /\ Guarded(<<>>)
    <3>1. <<>> \in Seq(S) /\ ToSet(<<>>) = {}
      BY OnePiece
    <3>2. Guarded(<<>>)
      BY DEF Guarded
    <3> QED
      BY <3>1, <3>2
  <2> QED
    BY <1>2, <2>1, <2>2
<1> QED
  BY <1>1, <1>2

\* The writes of a plan after the first.
LEMMA TailWrites ==
    ASSUME NEW S, NEW p \in Seq(S), p # <<>>
    PROVE  /\ Tail(p) \in Seq(S)
           /\ ToSet(p) = {Head(p)} \cup ToSet(Tail(p))
           /\ Guarded(p) => Head(p).file # "data"
           /\ Guarded(p) /\ Head(p).file # "dataRb" => Guarded(Tail(p))
<1> DEFINE n == Len(p)
           q == Tail(p)
<1>1. /\ n \in Nat \ {0} /\ q \in Seq(S) /\ Len(q) = n - 1 /\ Head(p) = p[1]
      /\ DOMAIN p = 1 .. n /\ DOMAIN q = 1 .. n - 1
      /\ \A i \in 1 .. n - 1 : q[i] = p[i + 1]
  BY HeadTailProperties, EmptySeq, LenProperties
<1> HIDE DEF n, q
<1>2. \A i \in 1 .. n : i = 1 \/ (i - 1 \in 1 .. n - 1 /\ p[i] = q[i - 1])
  BY <1>1
<1>3. \A i \in 1 .. n - 1 : i + 1 \in 1 .. n /\ q[i] = p[i + 1]
  BY <1>1
<1>4. ToSet(p) = {Head(p)} \cup ToSet(q)
  <2>0. ToSet(p) = {p[i] : i \in 1 .. n} /\ ToSet(q) = {q[i] : i \in 1 .. n - 1} /\ 1 \in 1 .. n
    BY <1>1 DEF ToSet
  <2>1. ASSUME NEW w \in ToSet(p) PROVE w \in {Head(p)} \cup ToSet(q)
    <3>1. PICK i \in 1 .. n : w = p[i]
      BY <2>0, <2>1
    <3> QED
      BY <1>1, <1>2, <2>0, <3>1
  <2>2. ASSUME NEW w \in ToSet(q) PROVE w \in ToSet(p)
    <3>1. PICK i \in 1 .. n - 1 : w = q[i]
      BY <2>0, <2>2
    <3> QED
      BY <1>3, <2>0, <3>1
  <2>3. Head(p) \in ToSet(p)
    BY <1>1, <2>0
  <2> QED
    BY <2>1, <2>2, <2>3
<1>5. ASSUME Guarded(p) PROVE Head(p).file # "data"
  BY <1>1, <1>5 DEF Guarded, n
<1>6. ASSUME Guarded(p), Head(p).file # "dataRb" PROVE Guarded(q)
  <2> SUFFICES ASSUME NEW i \in 1 .. n - 1, q[i].file = "data"
               PROVE  \E j \in 1 .. n - 1 : j < i /\ q[j].file = "dataRb"
    BY <1>1 DEF Guarded
  <2>1. i + 1 \in 1 .. n /\ p[i + 1].file = "data"
    BY <1>3
  <2>2. PICK j \in 1 .. n : j < i + 1 /\ p[j].file = "dataRb"
    BY <1>6, <2>1 DEF Guarded, n
  <2>3. j - 1 \in 1 .. n - 1 /\ q[j - 1].file = "dataRb" /\ j - 1 < i
    BY <1>1, <1>2, <1>6, <2>2
  <2> QED
    BY <2>3
<1> QED
  BY <1>1, <1>4, <1>5, <1>6 DEF q

\* A write done is one less to do: no file can end otherwise than before.
LEMMA EndsShrink ==
    ASSUME NEW S, NEW p \in Seq(S), p # <<>>, NEW file, NEW now
    PROVE  Ends(Tail(p), file, IF Head(p).file = file THEN Head(p).value ELSE now) \subseteq Ends(p, file, now)
<1>1. ToSet(p) = {Head(p)} \cup ToSet(Tail(p))
  BY TailWrites
<1> QED
  BY <1>1 DEF Ends

LEMMA EndsNow ==
    ASSUME NEW file, NEW now
    PROVE  Ends(<<>>, file, now) = {now}
BY DEF Ends, ToSet

(***************************************************************************)
(* The plans.                                                              *)
(***************************************************************************)
MigrateSet(v, withData, withHistory, actions) ==
    (IF schema # NoFile THEN {Write("schemaRb", schema)} ELSE {})
    \cup (IF withData THEN {Write("dataRb", data), Write("data", Migrated(data, actions))} ELSE {})
    \cup {Write("schema", v)}
    \cup (IF withHistory THEN {Write("history", Append(history, actions))} ELSE {})

LEMMA MigratePlan ==
    ASSUME NEW v, NEW withData \in BOOLEAN, NEW withHistory \in BOOLEAN, NEW actions
    PROVE  /\ IsPlan(MigrateWrites(v, withData, withHistory, actions))
           /\ withData => Guarded(MigrateWrites(v, withData, withHistory, actions))
           /\ ToSet(MigrateWrites(v, withData, withHistory, actions)) =
                 MigrateSet(v, withData, withHistory, actions)
<1> DEFINE a == Write("schemaRb", schema)
           b == Write("dataRb", data)
           c == Write("schema", v)
           d == Write("data", Migrated(data, actions))
           e == Write("history", Append(history, actions))
           S == {a, b, c, d, e}
<1>1. a.file = "schemaRb" /\ b.file = "dataRb" /\ c.file = "schema" /\ d.file = "data" /\ e.file = "history"
  BY DEF Write
<1>2. MigrateWrites(v, withData, withHistory, actions) =
        (((Optional(schema # NoFile, <<a>>) \o Optional(withData, <<b>>)) \o <<c>>)
           \o Optional(withData, <<d>>)) \o Optional(withHistory, <<e>>)
  BY DEF MigrateWrites
<1> HIDE DEF a, b, c, d, e
<1>3. a \in S /\ b \in S /\ c \in S /\ d \in S /\ e \in S
  OBVIOUS
<1> HIDE DEF S
<1> DEFINE p1 == Optional(schema # NoFile, <<a>>)
           p2 == Optional(withData, <<b>>)
           p3 == <<c>>
           p4 == Optional(withData, <<d>>)
           p5 == Optional(withHistory, <<e>>)
<1>4. /\ p1 \in Seq(S) /\ ToSet(p1) = (IF schema # NoFile THEN {a} ELSE {}) /\ Guarded(p1)
      /\ p2 \in Seq(S) /\ ToSet(p2) = (IF withData THEN {b} ELSE {}) /\ Guarded(p2)
      /\ p3 \in Seq(S) /\ ToSet(p3) = {c} /\ Guarded(p3)
      /\ p4 \in Seq(S) /\ ToSet(p4) = (IF withData THEN {d} ELSE {})
      /\ p5 \in Seq(S) /\ ToSet(p5) = (IF withHistory THEN {e} ELSE {}) /\ Guarded(p5)
  <2>1. Guarded(<<c>>)
    BY <1>1 DEF Guarded
  <2> QED
    BY <1>1, <1>3, <2>1, OptionalPiece, OnePiece
<1>5. MigrateWrites(v, withData, withHistory, actions) = (((p1 \o p2) \o p3) \o p4) \o p5
  BY <1>2
<1> HIDE DEF p1, p2, p3, p4, p5
<1>6. \A p, q \in Seq(S) :
         /\ p \o q \in Seq(S)
         /\ ToSet(p \o q) = ToSet(p) \cup ToSet(q)
         /\ Guarded(p) /\ ((\E w \in ToSet(p) : w.file = "dataRb") \/ Guarded(q)) => Guarded(p \o q)
  BY Joined
<1>7. p1 \o p2 \in Seq(S) /\ ToSet(p1 \o p2) = ToSet(p1) \cup ToSet(p2) /\ Guarded(p1 \o p2)
  BY <1>4, <1>6
<1> DEFINE q2 == p1 \o p2
<1> HIDE DEF q2
<1>8. q2 \o p3 \in Seq(S) /\ ToSet(q2 \o p3) = ToSet(q2) \cup ToSet(p3) /\ Guarded(q2 \o p3)
  BY <1>4, <1>6, <1>7 DEF q2
<1> DEFINE q3 == q2 \o p3
<1> HIDE DEF q3
<1>9. q3 \in Seq(S) /\ Guarded(q3) /\ ToSet(q3) = ToSet(p1) \cup ToSet(p2) \cup {c}
  BY <1>4, <1>7, <1>8 DEF q2, q3
<1>10. q3 \o p4 \in Seq(S) /\ ToSet(q3 \o p4) = ToSet(q3) \cup ToSet(p4) /\ (withData => Guarded(q3 \o p4))
  <2>1. withData => \E w \in ToSet(q3) : w.file = "dataRb"
    BY <1>1, <1>4, <1>9
  <2> QED
    BY <1>4, <1>6, <1>9, <2>1
<1> DEFINE q4 == q3 \o p4
<1> HIDE DEF q4
<1>11. q4 \o p5 \in Seq(S) /\ ToSet(q4 \o p5) = ToSet(q4) \cup ToSet(p5) /\ (withData => Guarded(q4 \o p5))
  BY <1>4, <1>6, <1>10 DEF q4
<1>12. MigrateWrites(v, withData, withHistory, actions) = q4 \o p5
  BY <1>5 DEF q2, q3, q4
<1>13. ToSet(q4 \o p5) = (IF schema # NoFile THEN {a} ELSE {}) \cup (IF withData THEN {b, d} ELSE {})
                         \cup {c} \cup (IF withHistory THEN {e} ELSE {})
  BY <1>4, <1>9, <1>10, <1>11 DEF q4
<1> QED
  BY <1>11, <1>12, <1>13 DEF a, b, c, d, e, IsPlan, MigrateSet

RollbackSet(withData) ==
    {Write("schema", schemaRb), Write("schemaRb", NoFile)}
    \cup (IF withData THEN {Write("data", dataRb), Write("dataRb", NoFile)} ELSE {})

LEMMA RollbackPlan ==
    ASSUME NEW withData \in BOOLEAN
    PROVE  /\ IsPlan(RollbackWrites(withData))
           /\ ToSet(RollbackWrites(withData)) = RollbackSet(withData)
<1> DEFINE a == Write("schema", schemaRb)
           b == Write("schemaRb", NoFile)
           c == Write("data", dataRb)
           d == Write("dataRb", NoFile)
           S == {a, b, c, d}
           q == Optional(withData, <<c, d>>)
           p == <<a, b>>
<1>1. RollbackWrites(withData) = p \o q
  BY DEF RollbackWrites
<1>2. a \in S /\ b \in S /\ c \in S /\ d \in S
  OBVIOUS
<1> HIDE DEF a, b, c, d, S
<1>3. p \in Seq(S) /\ ToSet(p) = {a, b}
  BY <1>2, TwoPieces
<1>4. q \in Seq(S) /\ ToSet(q) = IF withData THEN {c, d} ELSE {}
  <2>1. <<c, d>> \in Seq(S) /\ ToSet(<<c, d>>) = {c, d} /\ <<>> \in Seq(S) /\ ToSet(<<>>) = {}
    BY <1>2, TwoPieces, OnePiece
  <2> QED
    BY <2>1 DEF Optional
<1> HIDE DEF p, q
<1>5. p \o q \in Seq(S) /\ ToSet(p \o q) = ToSet(p) \cup ToSet(q)
  BY <1>3, <1>4, Joined
<1> QED
  BY <1>1, <1>3, <1>4, <1>5 DEF a, b, c, d, IsPlan, RollbackSet

RestoreWrites(present) == Optional(present, <<Write("dataRb", data)>>) \o <<Write("data", backup)>>

LEMMA RestorePlan ==
    ASSUME NEW present \in BOOLEAN
    PROVE  /\ IsPlan(RestoreWrites(present))
           /\ \A w \in ToSet(RestoreWrites(present)) : w.file = "dataRb" => w.value = data
           /\ present => Guarded(RestoreWrites(present))
<1> DEFINE a == Write("dataRb", data)
           b == Write("data", backup)
           S == {a, b}
           p == Optional(present, <<a>>)
           q == <<b>>
<1>1. a.file = "dataRb" /\ a.value = data /\ b.file = "data" /\ a \in S /\ b \in S
  BY DEF Write
<1> HIDE DEF a, b, S
<1>2. p \in Seq(S) /\ ToSet(p) = (IF present THEN {a} ELSE {}) /\ Guarded(p)
  BY <1>1, OptionalPiece
<1>3. q \in Seq(S) /\ ToSet(q) = {b}
  BY <1>1, OnePiece
<1> HIDE DEF p, q
<1>4. \A h, t \in Seq(S) :
         /\ h \o t \in Seq(S)
         /\ ToSet(h \o t) = ToSet(h) \cup ToSet(t)
         /\ Guarded(h) /\ ((\E w \in ToSet(h) : w.file = "dataRb") \/ Guarded(t)) => Guarded(h \o t)
  BY Joined
<1>5. p \o q \in Seq(S) /\ ToSet(p \o q) = ToSet(p) \cup {b} /\ (present => Guarded(p \o q))
  BY <1>1, <1>2, <1>3, <1>4
<1>6. RestoreWrites(present) = p \o q
  BY DEF RestoreWrites, a, b, p, q
<1> QED
  BY <1>1, <1>2, <1>5, <1>6 DEF IsPlan

\* The actions of a schema difference, struct by struct and field by field.
LEMMA DiffActions ==
    ASSUME NEW s, NEW v
    PROVE  /\ \A t \in DOMAIN v \ DOMAIN s : Has(Diff(s, v), "create_struct", t)
           /\ \A t : Has(Diff(s, v), "create_struct", t) =>
                 t \in DOMAIN v \ DOMAIN s /\ Of(Diff(s, v), "create_struct", t) = Fields(v, t)
           /\ \A t : Has(Diff(s, v), "drop_struct", t) <=> t \in DOMAIN s \ DOMAIN v
           /\ \A t \in DOMAIN s \cap DOMAIN v :
                 /\ Of(Diff(s, v), "add_field", t) = Fields(v, t) \ Fields(s, t)
                 /\ Of(Diff(s, v), "drop_field", t) = Fields(s, t) \ Fields(v, t)
<1> DEFINE A == Diff(s, v)
<1>1. \A a \in A :
         \/ a.kind = "create_struct" /\ a.table \in DOMAIN v \ DOMAIN s /\ a.fields = Fields(v, a.table)
         \/ a.kind = "drop_struct" /\ a.table \in DOMAIN s \ DOMAIN v
         \/ /\ a.kind = "add_field" /\ a.table \in DOMAIN s \cap DOMAIN v
            /\ a.fields \subseteq Fields(v, a.table) \ Fields(s, a.table)
         \/ /\ a.kind = "drop_field" /\ a.table \in DOMAIN s \cap DOMAIN v
            /\ a.fields \subseteq Fields(s, a.table) \ Fields(v, a.table)
         \/ a.kind = "change_field"
  BY DEF Diff
<1>2. \A t \in DOMAIN s \ DOMAIN v : Has(A, "drop_struct", t)
  <2> TAKE t \in DOMAIN s \ DOMAIN v
  <2>1. [kind |-> "drop_struct", table |-> t, fields |-> {}] \in A
    BY DEF Diff
  <2> QED
    BY <2>1 DEF Has
<1>3. \A t \in DOMAIN s \cap DOMAIN v :
         Of(A, "add_field", t) = Fields(v, t) \ Fields(s, t) /\ Of(A, "drop_field", t) = Fields(s, t) \ Fields(v, t)
  <2> TAKE t \in DOMAIN s \cap DOMAIN v
  <2> DEFINE Action(kind, u, fields) == [kind |-> kind, table |-> u, fields |-> fields]
             Both(u) == {Action("add_field", u, {f}) : f \in Fields(v, u) \ Fields(s, u)}
                        \cup {Action("drop_field", u, {f}) : f \in Fields(s, u) \ Fields(v, u)}
                        \cup {Action("change_field", u, {f}) :
                                 f \in {g \in Fields(v, u) \cap Fields(s, u) : v[u][g] # s[u][g]}}
  <2>0. Both(t) \subseteq A
    <3>1. A = {Action("create_struct", u, Fields(v, u)) : u \in DOMAIN v \ DOMAIN s}
              \cup {Action("drop_struct", u, {}) : u \in DOMAIN s \ DOMAIN v}
              \cup UNION {Both(u) : u \in DOMAIN s \cap DOMAIN v}
      BY DEF Diff
    <3> HIDE DEF A, Both
    <3> QED
      BY <3>1
  <2>1. \A f \in Fields(v, t) \ Fields(s, t) : [kind |-> "add_field", table |-> t, fields |-> {f}] \in A
    <3> HIDE DEF A
    <3> QED
      BY <2>0
  <2>2. \A f \in Fields(s, t) \ Fields(v, t) : [kind |-> "drop_field", table |-> t, fields |-> {f}] \in A
    <3> HIDE DEF A
    <3> QED
      BY <2>0
  <2> HIDE DEF A
  <2>3. \A f : f \in Of(A, "add_field", t) <=> \E a \in A : a.kind = "add_field" /\ a.table = t /\ f \in a.fields
    BY DEF Of
  <2>4. \A f : f \in Of(A, "drop_field", t) <=> \E a \in A : a.kind = "drop_field" /\ a.table = t /\ f \in a.fields
    BY DEF Of
  <2>5. Of(A, "add_field", t) = Fields(v, t) \ Fields(s, t)
    BY <1>1, <2>1, <2>3
  <2>6. Of(A, "drop_field", t) = Fields(s, t) \ Fields(v, t)
    BY <1>1, <2>2, <2>4
  <2> QED
    BY <2>5, <2>6
<1>4. \A t \in DOMAIN v \ DOMAIN s :
         [kind |-> "create_struct", table |-> t, fields |-> Fields(v, t)] \in A
  BY DEF Diff
<1> HIDE DEF A
<1>5. \A t : Has(A, "drop_struct", t) <=> t \in DOMAIN s \ DOMAIN v
  BY <1>1, <1>2 DEF Has
<1>6. \A t \in DOMAIN v \ DOMAIN s : Has(A, "create_struct", t)
  BY <1>4 DEF Has
<1>7. ASSUME NEW t, Has(A, "create_struct", t)
      PROVE  t \in DOMAIN v \ DOMAIN s /\ Of(A, "create_struct", t) = Fields(v, t)
  <2>1. t \in DOMAIN v \ DOMAIN s
    BY <1>1, <1>7 DEF Has
  <2>2. \A f : f \in Of(A, "create_struct", t) <=>
           \E a \in A : a.kind = "create_struct" /\ a.table = t /\ f \in a.fields
    BY DEF Of
  <2>3. \A a \in A : a.kind = "create_struct" /\ a.table = t => a.fields = Fields(v, t)
    BY <1>1
  <2>4. \E a \in A : a.kind = "create_struct" /\ a.table = t
    BY <1>7 DEF Has
  <2>5. Of(A, "create_struct", t) = Fields(v, t)
    BY <2>2, <2>3, <2>4
  <2> QED
    BY <2>1, <2>5
<1> QED
  BY <1>3, <1>5, <1>6, <1>7 DEF A

\* The schema difference that a migrate applies to data which agrees with the
\* old schema makes data that agrees with the new one.
LEMMA MigratedAgrees ==
    ASSUME NEW s, NEW v, NEW d, Agree(s, d)
    PROVE  Agree(v, Migrated(d, Diff(s, v)))
<1> DEFINE A == Diff(s, v)
           kept == {t \in DOMAIN d : ~Has(A, "drop_struct", t)}
           made == {t \in Tables : Has(A, "create_struct", t)}
           new == Migrated(d, A)
<1>1. /\ \A t : Has(A, "create_struct", t) => t \notin DOMAIN s
      /\ \A t \in DOMAIN s \ DOMAIN v : Has(A, "drop_struct", t)
      /\ \A t \in DOMAIN s \cap DOMAIN v :
            Of(A, "add_field", t) = Fields(v, t) \ Fields(s, t) /\ Of(A, "drop_field", t) = Fields(s, t) \ Fields(v, t)
  BY DiffActions
<1>4. DOMAIN new = kept \cup made
  BY DEF Migrated
<1>5. \A t \in kept \cup made :
         new[t] = IF t \notin DOMAIN d \/ d[t] = NoRows THEN NoRows
                  ELSE [f \in (DOMAIN d[t] \cup Of(A, "add_field", t)) \ Of(A, "drop_field", t) |->
                           IF f \in DOMAIN d[t] THEN d[t][f] ELSE "null"]
  BY DEF Migrated
<1> HIDE DEF A, new
<1> SUFFICES ASSUME NEW t \in DOMAIN new, new[t] # NoRows
             PROVE  t \in DOMAIN v /\ DOMAIN new[t] = Fields(v, t)
  BY DEF Agree, Rows, new, A
<1>6. /\ t \in Rows(d) /\ t \in DOMAIN s /\ DOMAIN d[t] = Fields(s, t)
      /\ DOMAIN new[t] = (Fields(s, t) \cup Of(A, "add_field", t)) \ Of(A, "drop_field", t)
  <2>1. t \in DOMAIN d /\ d[t] # NoRows
    BY <1>4, <1>5
  <2>2. t \in Rows(d)
    BY <2>1 DEF Rows
  <2> QED
    BY <1>4, <1>5, <2>1, <2>2 DEF Agree
<1>7. t \in kept
  BY <1>1, <1>4, <1>6
<1>8. t \in DOMAIN v
  BY <1>1, <1>6, <1>7
<1> QED
  BY <1>1, <1>6, <1>8

(***************************************************************************)
(* The invariant is inductive: one step for each action.                   *)
(***************************************************************************)
LEMMA SafeAtRest ==
    ASSUME Safe, cmd.name = "none", Paired
    PROVE  Good(cmd.name, before, schema, schemaRb, data, dataRb)
<1>1. cmd.writes = <<>>
  BY DEF Safe, Shapes
<1> QED
  BY <1>1, EndsNow DEF Safe, LeadsToGood

LEMMA PlanOfOne ==
    ASSUME NEW a
    PROVE  IsPlan(<<a>>) /\ ToSet(<<a>>) = {a} /\ (a.file # "data" => Guarded(<<a>>))
<1>1. <<a>> \in Seq({a}) /\ ToSet(<<a>>) = {a} /\ Len(<<a>>) = 1 /\ <<a>>[1] = a
  BY OnePiece
<1> QED
  BY <1>1 DEF IsPlan, Guarded

LEMMA InitSafe == Init => Safe
<1> SUFFICES ASSUME Init PROVE Safe
  OBVIOUS
<1>1. Shapes
  <2> DEFINE V == {NoFile, data}
  <2>1. before \in [schema : V, data : V, kept : BOOLEAN]
    BY DEF Init
  <2>2. cmd = [name |-> "none", writes |-> <<>>] /\ <<>> \in Seq({})
    BY DEF Init, Idle
  <2> QED
    BY <2>1, <2>2 DEF Shapes, IsPlan
<1>2. DataKept
  BY DEF Init, DataKept
<1>3. LeadsToGood
  <2>1. cmd.writes = <<>> /\ cmd.name = "none"
    BY DEF Init, Idle
  <2>2. Good(cmd.name, before, schema, schemaRb, data, dataRb)
    BY <2>1 DEF Init, Good, Agree, Rows
  <2> QED
    BY <2>1, <2>2, EndsNow DEF LeadsToGood
<1> QED
  BY <1>1, <1>2, <1>3 DEF Safe

LEMMA MigrateSafe ==
    ASSUME Safe, NEW v \in Versions, NEW withData \in BOOLEAN, NEW withHistory \in BOOLEAN,
           Migrate(v, withData, withHistory)
    PROVE  Safe'
<1> DEFINE actions == Diff(SchemaOf(schema), v)
           p == MigrateWrites(v, withData, withHistory, actions)
<1> HIDE DEF actions
<1>1. /\ IsPlan(p)
      /\ withData => Guarded(p)
      /\ ToSet(p) = MigrateSet(v, withData, withHistory, actions)
  BY MigratePlan
<1> DEFINE a == Write("schemaRb", schema)
           b == Write("dataRb", data)
           c == Write("schema", v)
           d == Write("data", Migrated(data, actions))
           e == Write("history", Append(history, actions))
<1>2. /\ a.file = "schemaRb" /\ b.file = "dataRb" /\ c.file = "schema" /\ d.file = "data" /\ e.file = "history"
      /\ a.value = schema /\ b.value = data /\ c.value = v /\ d.value = Migrated(data, actions)
  BY DEF Write
<1>3. ToSet(p) = (IF schema # NoFile THEN {a} ELSE {}) \cup (IF withData THEN {b, d} ELSE {})
                 \cup {c} \cup (IF withHistory THEN {e} ELSE {})
  BY <1>1 DEF MigrateSet
<1>4. /\ cmd.name = "none" /\ cmd' = [name |-> "migrate", writes |-> p] /\ UNCHANGED files
      /\ before' = [schema |-> schema, data |-> data, kept |-> withData]
      /\ only' = only \ ((IF withData THEN {} ELSE {"paired"}) \cup (IF withHistory THEN {} ELSE {"history"}))
  BY DEF Migrate, Start, actions
<1> HIDE DEF p, a, b, c, d, e
<1>5. cmd'.name = "migrate" /\ cmd'.writes = p
  BY <1>4
<1>6. before'.schema = schema /\ before'.data = data /\ before'.kept = withData
  BY <1>4
<1>7. Shapes'
  <2> DEFINE V == {schema, data}
  <2>1. before' \in [schema : V, data : V, kept : BOOLEAN]
    BY <1>4
  <2> QED
    BY <1>1, <1>4, <1>5, <2>1 DEF Shapes
<1>8. DataKept'
  <2> SUFFICES ASSUME withData
               PROVE  /\ \A w \in ToSet(p) : w.file = "dataRb" => w.value = data
                      /\ data' = data /\ Guarded(p)
    BY <1>5, <1>6 DEF DataKept, Guarded, ToSet
  <2> QED
    BY <1>1, <1>2, <1>3, <1>4 DEF files
<1>9. LeadsToGood'
  <2> SUFFICES ASSUME Paired'
               PROVE  \A s \in Ends(p, "schema", schema), sr \in Ends(p, "schemaRb", schemaRb),
                         dd \in Ends(p, "data", data), dr \in Ends(p, "dataRb", dataRb) :
                            Good(cmd'.name, before', s, sr, dd, dr)
    BY <1>4, <1>5 DEF LeadsToGood, files
  <2>1. Paired /\ withData
    BY <1>4 DEF Paired
  <2>2. Good(cmd.name, before, schema, schemaRb, data, dataRb)
    BY <1>4, <2>1, SafeAtRest
  <2>3. Agree(v, Migrated(data, actions))
    <3>1. Agree(SchemaOf(schema), data)
      BY <2>2 DEF Good
    <3> QED
      BY <3>1, MigratedAgrees DEF actions
  <2>4. Ends(p, "schema", schema) = {v}
    BY <1>2, <1>3 DEF Ends
  <2>5. Ends(p, "schemaRb", schemaRb) = {IF schema # NoFile THEN schema ELSE schemaRb}
    BY <1>2, <1>3 DEF Ends
  <2>6. Ends(p, "data", data) = {Migrated(data, actions)}
    BY <1>2, <1>3, <2>1 DEF Ends
  <2>7. Ends(p, "dataRb", dataRb) = {data}
    BY <1>2, <1>3, <2>1 DEF Ends
  <2>8. v # NoFile /\ SchemaOf(v) = v
    BY VersionsAssumption DEF SchemaOf
  <2>9. Good(cmd'.name, before', v, IF schema # NoFile THEN schema ELSE schemaRb, Migrated(data, actions), data)
    BY <1>5, <1>6, <2>2, <2>3, <2>8 DEF Good, Agree, Rows, SchemaOf, Fields
  <2> QED
    BY <2>4, <2>5, <2>6, <2>7, <2>9
<1> QED
  BY <1>7, <1>8, <1>9 DEF Safe

LEMMA RollbackSafe ==
    ASSUME Safe, NEW withData \in BOOLEAN, Rollback(withData)
    PROVE  Safe'
<1> DEFINE p == RollbackWrites(withData)
           a == Write("schema", schemaRb)
           b == Write("schemaRb", NoFile)
           c == Write("data", dataRb)
           d == Write("dataRb", NoFile)
<1>1. IsPlan(p) /\ ToSet(p) = RollbackSet(withData)
  BY RollbackPlan
<1>2. /\ a.file = "schema" /\ b.file = "schemaRb" /\ c.file = "data" /\ d.file = "dataRb"
      /\ a.value = schemaRb /\ b.value = NoFile /\ c.value = dataRb /\ d.value = NoFile
  BY DEF Write
<1>3. ToSet(p) = {a, b} \cup (IF withData THEN {c, d} ELSE {})
  BY <1>1 DEF RollbackSet
<1>4. /\ cmd.name = "none" /\ cmd' = [name |-> "rollback", writes |-> p] /\ UNCHANGED files
      /\ schemaRb # NoFile
      /\ before' = [before EXCEPT !.kept = FALSE]
      /\ only' = only \ ((IF withData THEN {} ELSE {"paired"}) \cup {"forward"})
  BY DEF Rollback, Start
<1> HIDE DEF p, a, b, c, d
<1>5. cmd'.name = "rollback" /\ cmd'.writes = p
  BY <1>4
<1>6. /\ before'.schema = before.schema /\ before'.data = before.data /\ before'.kept = FALSE
      /\ \E V : before' \in [schema : V, data : V, kept : BOOLEAN]
  BY <1>4 DEF Safe, Shapes
<1>7. Shapes'
  BY <1>1, <1>4, <1>5, <1>6 DEF Shapes
<1>8. DataKept'
  BY <1>6 DEF DataKept
<1>9. LeadsToGood'
  <2> SUFFICES ASSUME Paired'
               PROVE  \A s \in Ends(p, "schema", schema), sr \in Ends(p, "schemaRb", schemaRb),
                         dd \in Ends(p, "data", data), dr \in Ends(p, "dataRb", dataRb) :
                            Good(cmd'.name, before', s, sr, dd, dr)
    <3>1. schema' = schema /\ schemaRb' = schemaRb /\ data' = data /\ dataRb' = dataRb
      BY <1>4 DEF files
    <3> QED
      BY <1>5, <3>1 DEF LeadsToGood
  <2>1. Paired /\ withData
    BY <1>4 DEF Paired
  <2>2. Good(cmd.name, before, schema, schemaRb, data, dataRb)
    BY <1>4, <2>1, SafeAtRest
  <2>3. Ends(p, "schema", schema) = {schemaRb} /\ Ends(p, "schemaRb", schemaRb) = {NoFile}
    BY <1>2, <1>3 DEF Ends
  <2>4. Ends(p, "data", data) = {dataRb}
    BY <1>2, <1>3, <2>1 DEF Ends
  <2>5. \A dr : Good(cmd'.name, before', schemaRb, NoFile, dataRb, dr)
    BY <1>4, <1>5, <1>6, <2>2 DEF Good
  <2> QED
    BY <2>3, <2>4, <2>5
<1> QED
  BY <1>7, <1>8, <1>9 DEF Safe

LEMMA BackupSafe ==
    ASSUME Safe, Backup
    PROVE  Safe'
<1> DEFINE a == Write("backup", data)
           p == <<a>>
<1>1. a.file = "backup"
  BY DEF Write
<1>2. cmd.name = "none" /\ cmd' = [name |-> "backup", writes |-> p] /\ UNCHANGED <<files, before, only>>
  BY DEF Backup, Start
<1> HIDE DEF a
<1>3. IsPlan(p) /\ ToSet(p) = {a} /\ Guarded(p)
  BY <1>1, PlanOfOne
<1> HIDE DEF p
<1>4. cmd'.name = "backup" /\ cmd'.writes = p
  BY <1>2
<1>5. Shapes'
  BY <1>2, <1>3, <1>4 DEF Safe, Shapes
<1>6. DataKept'
  BY <1>1, <1>2, <1>3, <1>4 DEF Safe, DataKept, files
<1>7. LeadsToGood'
  <2> SUFFICES ASSUME Paired'
               PROVE  \A s \in Ends(p, "schema", schema), sr \in Ends(p, "schemaRb", schemaRb),
                         dd \in Ends(p, "data", data), dr \in Ends(p, "dataRb", dataRb) :
                            Good(cmd'.name, before, s, sr, dd, dr)
    BY <1>2, <1>4 DEF LeadsToGood, files
  <2>1. Good(cmd.name, before, schema, schemaRb, data, dataRb)
    BY <1>2, SafeAtRest DEF Paired
  <2>2. \A file, now : file # "backup" => Ends(p, file, now) = {now}
    BY <1>1, <1>3 DEF Ends
  <2>3. Good(cmd'.name, before, schema, schemaRb, data, dataRb)
    BY <1>2, <1>4, <2>1 DEF Good
  <2> QED
    BY <2>2, <2>3
<1> QED
  BY <1>5, <1>6, <1>7 DEF Safe

LEMMA RestoreSafe ==
    ASSUME Safe, Restore
    PROVE  Safe'
<1> DEFINE present == data # NoFile
           p == RestoreWrites(present)
<1>0. present \in BOOLEAN
  OBVIOUS
<1>1. /\ cmd' = [name |-> "restore", writes |-> p] /\ UNCHANGED files
      /\ before' = [schema |-> schema, data |-> data, kept |-> present]
      /\ only' = only \ {"migrations"}
  BY DEF Restore, Start, RestoreWrites
<1> HIDE DEF present
<1>2. /\ IsPlan(p) /\ (present => Guarded(p))
      /\ \A w \in ToSet(p) : w.file = "dataRb" => w.value = data
  BY <1>0, RestorePlan
<1> HIDE DEF p
<1>3. cmd'.name = "restore" /\ cmd'.writes = p
  BY <1>1
<1>4. before'.data = data /\ before'.kept = present
  BY <1>1
<1>5. Shapes'
  <2> DEFINE V == {schema, data}
  <2>1. before' \in [schema : V, data : V, kept : BOOLEAN]
    BY <1>0, <1>1
  <2> QED
    BY <1>1, <1>2, <1>3, <2>1 DEF Shapes
<1>6. DataKept'
  <2>1. data' = data
    BY <1>1 DEF files
  <2> QED
    BY <1>2, <1>3, <1>4, <2>1 DEF DataKept
<1>7. LeadsToGood'
  BY <1>1 DEF LeadsToGood, Paired
<1> QED
  BY <1>5, <1>6, <1>7 DEF Safe

LEMMA WriteNextSafe ==
    ASSUME Safe, WriteNext
    PROVE  Safe'
<1> DEFINE p == cmd.writes
           w == Head(p)
           q == Tail(p)
           Put(name, old) == IF w.file = name THEN w.value ELSE old
<1>1. /\ schema' = Put("schema", schema) /\ schemaRb' = Put("schemaRb", schemaRb)
      /\ data' = Put("data", data) /\ dataRb' = Put("dataRb", dataRb)
      /\ cmd' = [cmd EXCEPT !.writes = q] /\ p # <<>> /\ UNCHANGED <<before, only>>
  BY DEF WriteNext
<1>2. cmd'.name = cmd.name /\ cmd'.writes = q /\ cmd' = [name |-> cmd.name, writes |-> q]
  BY <1>1 DEF Safe, Shapes
<1>3. PICK S : p \in Seq(S)
  BY DEF Safe, Shapes, IsPlan
<1>4. /\ q \in Seq(S)
      /\ ToSet(p) = {w} \cup ToSet(q)
      /\ Guarded(p) => w.file # "data"
      /\ Guarded(p) /\ w.file # "dataRb" => Guarded(q)
  BY <1>1, <1>3, TailWrites
<1>5. \A file, now : Ends(q, file, Put(file, now)) \subseteq Ends(p, file, now)
  BY <1>1, <1>3, EndsShrink
<1>6. Shapes'
  BY <1>1, <1>2, <1>4 DEF Safe, Shapes, IsPlan
<1>7. DataKept'
  <2> SUFFICES ASSUME before.kept
               PROVE  /\ \A u \in ToSet(q) : u.file = "dataRb" => u.value = before.data
                      /\ dataRb' = before.data \/ (data' = before.data /\ Guarded(q))
    BY <1>1, <1>2 DEF DataKept
  <2>1. /\ \A u \in ToSet(p) : u.file = "dataRb" => u.value = before.data
        /\ dataRb = before.data \/ (data = before.data /\ Guarded(p))
    BY DEF Safe, DataKept
  <2> QED
    BY <1>1, <1>4, <2>1
<1>8. LeadsToGood'
  <2> SUFFICES ASSUME Paired
               PROVE  \A s \in Ends(q, "schema", schema'), sr \in Ends(q, "schemaRb", schemaRb'),
                         dd \in Ends(q, "data", data'), dr \in Ends(q, "dataRb", dataRb') :
                            Good(cmd.name, before, s, sr, dd, dr)
    BY <1>1, <1>2 DEF LeadsToGood, Paired
  <2>1. \A s \in Ends(p, "schema", schema), sr \in Ends(p, "schemaRb", schemaRb),
           dd \in Ends(p, "data", data), dr \in Ends(p, "dataRb", dataRb) :
              Good(cmd.name, before, s, sr, dd, dr)
    BY DEF Safe, LeadsToGood
  <2>2. /\ Ends(q, "schema", schema') \subseteq Ends(p, "schema", schema)
        /\ Ends(q, "schemaRb", schemaRb') \subseteq Ends(p, "schemaRb", schemaRb)
        /\ Ends(q, "data", data') \subseteq Ends(p, "data", data)
        /\ Ends(q, "dataRb", dataRb') \subseteq Ends(p, "dataRb", dataRb)
    BY <1>1, <1>5
  <2> QED
    BY <2>1, <2>2
<1> QED
  BY <1>6, <1>7, <1>8 DEF Safe

LEMMA FinishSafe ==
    ASSUME Safe, Finish
    PROVE  Safe'
<1>1. /\ cmd' = [name |-> "none", writes |-> <<>>] /\ cmd'.name = "none" /\ cmd'.writes = <<>> /\ cmd.writes = <<>>
      /\ UNCHANGED <<files, before, only>>
  BY DEF Finish, Idle
<1>2. IsPlan(<<>>) /\ ToSet(<<>>) = {}
  BY OnePiece DEF IsPlan
<1>3. Shapes'
  BY <1>1, <1>2 DEF Safe, Shapes
<1>4. DataKept'
  BY <1>1 DEF Safe, DataKept, files
<1>5. LeadsToGood'
  <2> SUFFICES ASSUME Paired
               PROVE  Good("none", before, schema, schemaRb, data, dataRb)
    BY <1>1, EndsNow DEF LeadsToGood, Paired, files
  <2>1. Good(cmd.name, before, schema, schemaRb, data, dataRb)
    BY <1>1, EndsNow DEF Safe, LeadsToGood
  <2> QED
    BY <2>1 DEF Good
<1> QED
  BY <1>3, <1>4, <1>5 DEF Safe

LEMMA AbortSafe ==
    ASSUME Safe, Abort
    PROVE  Safe'
<1>1. /\ cmd' = [name |-> "none", writes |-> <<>>] /\ cmd'.name = "none" /\ cmd'.writes = <<>>
      /\ only' = only \ {"whole"} /\ UNCHANGED <<files, before>>
  BY DEF Abort, Idle
<1>2. IsPlan(<<>>) /\ ToSet(<<>>) = {} /\ Guarded(<<>>)
  <2>1. IsPlan(<<>>) /\ ToSet(<<>>) = {}
    BY OnePiece DEF IsPlan
  <2>2. Guarded(<<>>)
    BY DEF Guarded
  <2> QED
    BY <2>1, <2>2
<1>3. Shapes'
  BY <1>1, <1>2 DEF Safe, Shapes
<1>4. DataKept'
  BY <1>1, <1>2 DEF Safe, DataKept, files
<1>5. LeadsToGood'
  BY <1>1 DEF LeadsToGood, Paired
<1> QED
  BY <1>3, <1>4, <1>5 DEF Safe

LEMMA FillSafe ==
    ASSUME Safe, NEW t \in Tables, Fill(t)
    PROVE  Safe'
<1> DEFINE row == [f \in Fields(schema, t) |-> "kept"]
<1>1. /\ cmd.name = "none" /\ schema # NoFile /\ t \in DOMAIN schema
      /\ data' = [u \in DOMAIN data \cup {t} |-> IF u = t THEN row ELSE data[u]]
      /\ before' = [before EXCEPT !.kept = FALSE]
      /\ UNCHANGED <<schema, schemaRb, dataRb, cmd, only>>
  BY DEF Fill
<1>2. /\ DOMAIN data' = {t} \cup DOMAIN data /\ data'[t] = row
      /\ \A u \in DOMAIN data : u # t => data'[u] = data[u]
  BY <1>1
<1>3. /\ before'.schema = before.schema /\ before'.data = before.data /\ before'.kept = FALSE
      /\ \E V : before' \in [schema : V, data : V, kept : BOOLEAN]
  BY <1>1 DEF Safe, Shapes
<1>4. Shapes'
  BY <1>1, <1>3 DEF Safe, Shapes
<1>5. DataKept'
  BY <1>3 DEF DataKept
<1>6. LeadsToGood'
  <2> SUFFICES ASSUME Paired
               PROVE  Good(cmd.name, before', schema, schemaRb, data', dataRb)
    <3>1. cmd'.writes = <<>> /\ cmd'.name = cmd.name
      BY <1>1 DEF Safe, Shapes
    <3>2. schema' = schema /\ schemaRb' = schemaRb /\ dataRb' = dataRb /\ only' = only
      BY <1>1
    <3> QED
      BY <3>1, <3>2, EndsNow DEF LeadsToGood, Paired
  <2>1. Good(cmd.name, before, schema, schemaRb, data, dataRb)
    BY <1>1, SafeAtRest
  <2>2. Agree(SchemaOf(schema), data')
    <3>1. \A u \in Rows(data) : u \in DOMAIN schema /\ DOMAIN data[u] = Fields(schema, u)
      BY <1>1, <2>1 DEF Good, Agree, SchemaOf
    <3>2. \A u \in Rows(data') : u = t \/ u \in Rows(data)
      BY <1>2 DEF Rows
    <3>3. \A u \in Rows(data') : u \in DOMAIN schema /\ DOMAIN data'[u] = Fields(schema, u)
      BY <1>1, <1>2, <3>1, <3>2 DEF Rows
    <3> QED
      BY <1>1, <3>3 DEF Agree, SchemaOf
  <2> QED
    BY <1>1, <1>3, <2>1, <2>2 DEF Good
<1> QED
  BY <1>4, <1>5, <1>6 DEF Safe

LEMMA NextSafe == Safe /\ [Next]_vars => Safe'
<1> SUFFICES ASSUME Safe, [Next]_vars PROVE Safe'
  OBVIOUS
<1>1. CASE \E v \in Versions, withData, withHistory \in BOOLEAN : Migrate(v, withData, withHistory)
  BY <1>1, MigrateSafe
<1>2. CASE \E withData \in BOOLEAN : Rollback(withData)
  BY <1>2, RollbackSafe
<1>3. CASE Backup
  BY <1>3, BackupSafe
<1>4. CASE Restore
  BY <1>4, RestoreSafe
<1>5. CASE WriteNext
  BY <1>5, WriteNextSafe
<1>6. CASE Finish
  BY <1>6, FinishSafe
<1>7. CASE Abort
  BY <1>7, AbortSafe
<1>8. CASE \E t \in Tables : Fill(t)
  BY <1>8, FillSafe
<1>9. CASE UNCHANGED vars
  BY <1>9 DEF vars, Safe, Shapes, DataKept, LeadsToGood, Paired
<1> QED
  BY <1>1, <1>2, <1>3, <1>4, <1>5, <1>6, <1>7, <1>8, <1>9 DEF Next

(***************************************************************************)
(* The history.  A trace of it is the fields of the structs after each     *)
(* entry; two traces agree, or there were a least entry after which they   *)
(* differ, so the history replays to where any trace of it ends.           *)
(***************************************************************************)
Trace(tr, h) ==
    /\ \E n \in Nat : Len(h) = n
    /\ DOMAIN tr = 0 .. Len(h)
    /\ tr = [i \in 0 .. Len(h) |-> IF i = 0 THEN [t \in {} |-> {}] ELSE Made(tr[i - 1], h[i])]

FieldSets(s) == [t \in DOMAIN s |-> Fields(s, t)]

\* The history is a sequence that leads to this schema.
Told(h, s) == (\E S : h \in Seq(S)) /\ \E tr : Trace(tr, h) /\ tr[Len(h)] = FieldSets(SchemaOf(s))

LEMMA LeastIn ==
    ASSUME NEW S \in SUBSET Nat, S # {}
    PROVE  \E least \in S : \A y \in S : least <= y
<1> DEFINE R == {ss \in Nat \X Nat : ss[1] < ss[2]}
<1>1. IsWellFoundedOn(R, Nat)
  BY NatLessThanWellFounded DEF OpToRel
<1>2. \A x, y \in Nat : <<x, y>> \in R <=> x < y
  OBVIOUS
<1> HIDE DEF R
<1>3. PICK x \in S : \A y \in S : ~ (<<y, x>> \in R)
  BY <1>1, WFMin
<1>4. \A y \in S : x <= y
  <2> TAKE y \in S
  <2>1. ~ (y < x)
    BY <1>2, <1>3
  <2> QED
    BY <2>1
<1> QED
  BY <1>4

LEMMA ReplayedIsEnd ==
    ASSUME NEW h, NEW tr, Trace(tr, h)
    PROVE  Replayed(h) = tr[Len(h)]
<1> DEFINE n == Len(h)
           step(g) == [i \in 0 .. n |-> IF i = 0 THEN [t \in {} |-> {}] ELSE Made(g[i - 1], h[i])]
           d == CHOOSE g : g = step(g)
<1>1. n \in Nat /\ tr = step(tr)
  BY DEF Trace
<1>2. d = step(d)
  BY <1>1
<1>3. Replayed(h) = d[n]
  BY DEF Replayed
<1> HIDE DEF d, n
<1>4. \A i \in 0 .. n : d[i] = tr[i]
  <2> DEFINE differ == {i \in 0 .. n : d[i] # tr[i]}
  <2> SUFFICES ASSUME differ # {} PROVE FALSE
    OBVIOUS
  <2>1. differ \in SUBSET Nat
    BY <1>1
  <2> HIDE DEF differ
  <2>2. PICK i \in differ : \A j \in differ : i <= j
    BY <2>1, LeastIn
  <2> USE DEF differ
  <2>3. i \in 0 .. n /\ d[i] = step(d)[i] /\ tr[i] = step(tr)[i]
    BY <1>1, <1>2, <2>2
  <2>4. i # 0
    BY <2>2, <2>3
  <2>5. i - 1 \in 0 .. n /\ d[i - 1] = tr[i - 1]
    <3>1. i - 1 \in 0 .. n /\ ~(i <= i - 1)
      BY <1>1, <2>3, <2>4
    <3> HIDE DEF differ
    <3>2. i - 1 \notin differ
      BY <2>2, <3>1
    <3> QED
      BY <3>1, <3>2 DEF differ
  <2>6. step(d)[i] = step(tr)[i]
    <3>1. \A g : step(g)[i] = Made(g[i - 1], h[i])
      BY <2>3, <2>4
    <3>2. step(d)[i] = Made(d[i - 1], h[i])
      BY <3>1
    <3>3. step(tr)[i] = Made(tr[i - 1], h[i])
      BY <3>1
    <3> HIDE DEF step
    <3> QED
      BY <2>5, <3>2, <3>3
  <2>7. d[i] # tr[i]
    BY <2>2
  <2> QED
    BY <2>3, <2>6, <2>7
<1> QED
  BY <1>1, <1>3, <1>4 DEF n

LEMMA EmptyTold == Told(<<>>, NoFile)
<1> DEFINE tr == [i \in 0 .. 0 |-> [t \in {} |-> {}]]
<1>1. Len(<<>>) = 0 /\ <<>> \in Seq({})
  OBVIOUS
<1>2. DOMAIN tr = 0 .. 0 /\ tr[0] = [t \in {} |-> {}]
  OBVIOUS
<1>3. Trace(tr, <<>>)
  BY <1>1 DEF Trace
<1>4. FieldSets(SchemaOf(NoFile)) = [t \in {} |-> {}]
  BY DEF FieldSets, SchemaOf, Fields
<1> QED
  BY <1>1, <1>2, <1>3, <1>4 DEF Told

\* The actions of the difference lead from the old fields to the new ones.
LEMMA MadeByDiff ==
    ASSUME NEW s, NEW v, DOMAIN v \subseteq Tables
    PROVE  Made(FieldSets(s), Diff(s, v)) = FieldSets(v)
<1> DEFINE A == Diff(s, v)
           old == FieldSets(s)
           D == {u \in DOMAIN old : ~Has(A, "drop_struct", u)} \cup {u \in Tables : Has(A, "create_struct", u)}
<1>1. /\ \A t \in DOMAIN v \ DOMAIN s : Has(A, "create_struct", t)
      /\ \A t : Has(A, "create_struct", t) =>
            t \in DOMAIN v \ DOMAIN s /\ Of(A, "create_struct", t) = Fields(v, t)
      /\ \A t : Has(A, "drop_struct", t) <=> t \in DOMAIN s \ DOMAIN v
      /\ \A t \in DOMAIN s \cap DOMAIN v :
            Of(A, "add_field", t) = Fields(v, t) \ Fields(s, t) /\ Of(A, "drop_field", t) = Fields(s, t) \ Fields(v, t)
  BY DiffActions
<1>2. DOMAIN old = DOMAIN s /\ \A t \in DOMAIN s : old[t] = Fields(s, t)
  BY DEF FieldSets
<1>3. Made(old, A) = [t \in D |-> IF Has(A, "create_struct", t) THEN Of(A, "create_struct", t)
                                  ELSE (old[t] \cup Of(A, "add_field", t)) \ Of(A, "drop_field", t)]
  BY DEF Made
<1> HIDE DEF A, old
<1>4. D = DOMAIN v
  BY <1>1, <1>2
<1>5. \A t \in DOMAIN v : (IF Has(A, "create_struct", t) THEN Of(A, "create_struct", t)
                           ELSE (old[t] \cup Of(A, "add_field", t)) \ Of(A, "drop_field", t)) = Fields(v, t)
  <2> TAKE t \in DOMAIN v
  <2>1. CASE Has(A, "create_struct", t)
    BY <1>1, <2>1
  <2>2. CASE ~Has(A, "create_struct", t)
    <3>1. t \in DOMAIN s \cap DOMAIN v
      BY <1>1, <2>2
    <3>2. (Fields(s, t) \cup (Fields(v, t) \ Fields(s, t))) \ (Fields(s, t) \ Fields(v, t)) = Fields(v, t)
      OBVIOUS
    <3> QED
      BY <1>1, <1>2, <2>2, <3>1, <3>2
  <2> QED
    BY <2>1, <2>2
<1> QED
  BY <1>3, <1>4, <1>5 DEF FieldSets, A, old

LEMMA AppendTold ==
    ASSUME NEW h, NEW s, NEW v \in Versions, Told(h, s)
    PROVE  Told(Append(h, Diff(SchemaOf(s), v)), v)
<1> DEFINE a == Diff(SchemaOf(s), v)
           n == Len(h)
           g == Append(h, a)
<1>1. PICK S : h \in Seq(S)
  BY DEF Told
<1>2. PICK tr : Trace(tr, h) /\ tr[n] = FieldSets(SchemaOf(s))
  BY DEF Told
<1>3. Made(tr[n], a) = FieldSets(v)
  BY <1>2, MadeByDiff, VersionsAssumption
<1>4. SchemaOf(v) = v
  BY VersionsAssumption DEF SchemaOf
<1> HIDE DEF a
<1> DEFINE T == S \cup {a}
<1>5. h \in Seq(T) /\ a \in T
  BY <1>1
<1> HIDE DEF T
<1>6. /\ g \in Seq(T) /\ Len(g) = n + 1 /\ g[n + 1] = a /\ n \in Nat
      /\ \A i \in 1 .. n : g[i] = h[i]
  BY <1>5, AppendProperties, LenProperties
<1> HIDE DEF g, n
<1> DEFINE longer == [i \in 0 .. n + 1 |-> IF i = n + 1 THEN FieldSets(v) ELSE tr[i]]
<1>7. /\ DOMAIN longer = 0 .. n + 1 /\ longer[n + 1] = FieldSets(v)
      /\ \A i \in 0 .. n : longer[i] = tr[i]
      /\ longer = [i \in 0 .. n + 1 |-> longer[i]]
  BY <1>6
<1> HIDE DEF longer
<1>8. \A i \in 0 .. n : tr[i] = IF i = 0 THEN [t \in {} |-> {}] ELSE Made(tr[i - 1], h[i])
  BY <1>2 DEF Trace, n
<1>9. \A i \in 0 .. n + 1 : longer[i] = IF i = 0 THEN [t \in {} |-> {}] ELSE Made(longer[i - 1], g[i])
  <2>1. TAKE i \in 0 .. n + 1
  <2>2. CASE i = n + 1
    BY <1>3, <1>6, <1>7, <2>2
  <2>3. CASE i \in 1 .. n
    <3>1. i # 0 /\ i \in 0 .. n /\ i - 1 \in 0 .. n /\ g[i] = h[i]
      BY <1>6, <2>3
    <3> QED
      BY <1>7, <1>8, <3>1
  <2>4. CASE i = 0
    BY <1>6, <1>7, <1>8, <2>4
  <2> QED
    BY <1>6, <2>2, <2>3, <2>4
<1>10. Trace(longer, g)
  <2>1. longer = [i \in 0 .. n + 1 |-> IF i = 0 THEN [t \in {} |-> {}] ELSE Made(longer[i - 1], g[i])]
    BY <1>7, <1>9
  <2> QED
    BY <1>6, <1>7, <2>1 DEF Trace
<1> QED
  BY <1>4, <1>6, <1>7, <1>10 DEF Told, g, a

(***************************************************************************)
(* The invariant of the history: once the writes left are done, it leads   *)
(* to the schema.                                                          *)
(***************************************************************************)
Recorded == {"history", "forward", "whole"} \subseteq only

LeadsToTold ==
    Recorded => \A s \in Ends(cmd.writes, "schema", schema), h \in Ends(cmd.writes, "history", history) : Told(h, s)

Recording == Safe /\ LeadsToTold

LEMMA InitRecording == Init => Recording
<1> SUFFICES ASSUME Init PROVE Recording
  OBVIOUS
<1>1. cmd.writes = <<>> /\ schema = NoFile /\ history = <<>>
  BY DEF Init, Idle
<1> QED
  BY <1>1, InitSafe, EmptyTold, EndsNow DEF Recording, LeadsToTold

LEMMA MigrateTold ==
    ASSUME Recording, NEW v \in Versions, NEW withData \in BOOLEAN, NEW withHistory \in BOOLEAN,
           Migrate(v, withData, withHistory)
    PROVE  LeadsToTold'
<1> DEFINE actions == Diff(SchemaOf(schema), v)
           p == MigrateWrites(v, withData, withHistory, actions)
           c == Write("schema", v)
           e == Write("history", Append(history, actions))
<1>1. /\ cmd.name = "none" /\ cmd'.writes = p /\ UNCHANGED <<schema, history>>
      /\ only' = only \ ((IF withData THEN {} ELSE {"paired"}) \cup (IF withHistory THEN {} ELSE {"history"}))
  BY DEF Migrate, Start, files
<1> SUFFICES ASSUME Recorded'
             PROVE  \A s \in Ends(p, "schema", schema), h \in Ends(p, "history", history) : Told(h, s)
  BY <1>1 DEF LeadsToTold
<1>2. Recorded /\ withHistory
  BY <1>1 DEF Recorded
<1>3. Told(history, schema)
  <2>1. cmd.writes = <<>>
    BY <1>1 DEF Recording, Safe, Shapes
  <2> QED
    BY <1>2, <2>1, EndsNow DEF Recording, LeadsToTold
<1>4. Told(Append(history, actions), v)
  BY <1>3, AppendTold
<1> HIDE DEF actions
<1>5. ToSet(p) = MigrateSet(v, withData, withHistory, actions)
  BY MigratePlan
<1>6. c.file = "schema" /\ c.value = v /\ e.file = "history" /\ e.value = Append(history, actions)
  BY DEF Write
<1>7. \A w \in ToSet(p) : (w.file = "schema" <=> w = c) /\ (w.file = "history" <=> w = e)
  BY <1>5 DEF MigrateSet, Write
<1>8. c \in ToSet(p) /\ e \in ToSet(p)
  BY <1>2, <1>5 DEF MigrateSet
<1> HIDE DEF p, c, e
<1>9. Ends(p, "schema", schema) = {v} /\ Ends(p, "history", history) = {Append(history, actions)}
  BY <1>6, <1>7, <1>8 DEF Ends
<1> QED
  BY <1>4, <1>9

LEMMA WriteNextTold ==
    ASSUME Recording, WriteNext
    PROVE  LeadsToTold'
<1> DEFINE p == cmd.writes
           w == Head(p)
           q == Tail(p)
           Put(name, old) == IF w.file = name THEN w.value ELSE old
<1>1. /\ schema' = Put("schema", schema) /\ history' = Put("history", history)
      /\ cmd' = [cmd EXCEPT !.writes = q] /\ p # <<>> /\ only' = only
  BY DEF WriteNext
<1>2. cmd'.writes = q
  BY <1>1 DEF Recording, Safe, Shapes
<1>3. PICK S : p \in Seq(S)
  BY DEF Recording, Safe, Shapes, IsPlan
<1>4. \A file, now : Ends(q, file, Put(file, now)) \subseteq Ends(p, file, now)
  BY <1>1, <1>3, EndsShrink
<1>5. /\ Ends(q, "schema", schema') \subseteq Ends(p, "schema", schema)
      /\ Ends(q, "history", history') \subseteq Ends(p, "history", history)
  BY <1>1, <1>4
<1> QED
  BY <1>1, <1>2, <1>5 DEF Recording, LeadsToTold, Recorded

\* A command whose writes touch neither file, or that is over, changes nothing.
LEMMA OtherTold ==
    ASSUME Recording, Backup \/ Restore \/ Finish \/ (\E t \in Tables : Fill(t))
    PROVE  LeadsToTold'
<1>1. UNCHANGED <<schema, history>> /\ cmd.writes = <<>> /\ (Recorded' => Recorded)
  BY DEF Backup, Restore, Finish, Fill, Start, files, Recorded, Recording, Safe, Shapes
<1>2. \A w \in ToSet(cmd'.writes) : w.file \notin {"schema", "history"}
  <2>1. CASE Backup
    <3>1. cmd'.writes = <<Write("backup", data)>>
      BY <2>1 DEF Backup, Start
    <3>2. Write("backup", data).file = "backup"
      BY DEF Write
    <3> QED
      BY <3>1, <3>2, PlanOfOne
  <2>2. CASE Restore
    <3> DEFINE a == Write("dataRb", data)
               b == Write("data", backup)
               S == {a, b}
    <3>1. cmd'.writes = Optional(data # NoFile, <<a>>) \o <<b>>
      BY <2>2 DEF Restore, Start
    <3>2. a.file = "dataRb" /\ b.file = "data"
      BY DEF Write
    <3>3. a \in S /\ b \in S
      OBVIOUS
    <3> HIDE DEF a, b, S
    <3>4. Optional(data # NoFile, <<a>>) \in Seq(S) /\ ToSet(Optional(data # NoFile, <<a>>)) \subseteq {a}
      BY <3>3, OptionalPiece
    <3>5. <<b>> \in Seq(S) /\ ToSet(<<b>>) = {b}
      BY <3>3, OnePiece
    <3> DEFINE h == Optional(data # NoFile, <<a>>)
               t == <<b>>
    <3>6. h \in Seq(S) /\ t \in Seq(S)
      BY <3>4, <3>5
    <3> HIDE DEF h, t
    <3>7. ToSet(h \o t) = ToSet(h) \cup ToSet(t)
      BY <3>6, Joined
    <3>8. cmd'.writes = h \o t /\ ToSet(h) \subseteq {a} /\ ToSet(t) = {b}
      BY <3>1, <3>4, <3>5 DEF h, t
    <3> QED
      BY <3>2, <3>7, <3>8
  <2>3. CASE Finish \/ \E t \in Tables : Fill(t)
    <3>1. Finish => cmd'.writes = <<>>
      BY DEF Finish, Idle
    <3>2. (\E t \in Tables : Fill(t)) => cmd' = cmd
      BY DEF Fill
    <3>3. cmd'.writes = <<>>
      BY <1>1, <2>3, <3>1, <3>2
    <3> QED
      BY <3>3, OnePiece
  <2> QED
    BY <2>1, <2>2, <2>3
<1>3. /\ Ends(cmd'.writes, "schema", schema) = {schema}
      /\ Ends(cmd'.writes, "history", history) = {history}
  BY <1>2 DEF Ends
<1>4. Recorded => Told(history, schema)
  BY <1>1, EndsNow DEF Recording, LeadsToTold
<1> QED
  BY <1>1, <1>3, <1>4 DEF LeadsToTold

LEMMA NextRecording == Recording /\ [Next]_vars => Recording'
<1> SUFFICES ASSUME Recording, [Next]_vars PROVE LeadsToTold'
  BY NextSafe DEF Recording
<1>1. CASE \E v \in Versions, withData, withHistory \in BOOLEAN : Migrate(v, withData, withHistory)
  BY <1>1, MigrateTold
<1>2. CASE \E withData \in BOOLEAN : Rollback(withData)
  BY <1>2 DEF Rollback, LeadsToTold, Recorded
<1>3. CASE Backup \/ Restore \/ Finish \/ \E t \in Tables : Fill(t)
  BY <1>3, OtherTold
<1>4. CASE WriteNext
  BY <1>4, WriteNextTold
<1>5. CASE Abort
  BY <1>5 DEF Abort, LeadsToTold, Recorded
<1>6. CASE UNCHANGED vars
  BY <1>6 DEF vars, Recording, LeadsToTold, Recorded
<1> QED
  BY <1>1, <1>2, <1>3, <1>4, <1>5, <1>6 DEF Next

(***************************************************************************)
(* The properties.                                                         *)
(***************************************************************************)

\* db migrate, rollback and the runs of the program between them: where every
\* command had the data file and none was cut short, the rows have exactly the
\* fields of the schema, for every history of schemas.
THEOREM RowsFitTheSchema == Spec => []SchemaDataAgree
<1>1. Safe => SchemaDataAgree
  <2> SUFFICES ASSUME Safe, cmd.name = "none", Paired, schema # NoFile
               PROVE  \A t \in Rows(data) : t \in DOMAIN schema /\ DOMAIN data[t] = Fields(schema, t)
    BY DEF SchemaDataAgree, Paired
  <2> QED
    BY SafeAtRest DEF Good, Agree, SchemaOf
<1> QED
  BY InitSafe, NextSafe, <1>1, PTL DEF Spec

\* cmd_db_apply_with_data and cmd_db_restore, cut short at any write: the data
\* the command started from is the data file or its .rollback.
THEOREM NoCutLosesTheData == Spec => []DataBeforeSurvives
<1>1. Safe => DataBeforeSurvives
  BY DEF Safe, DataKept, DataBeforeSurvives
<1> QED
  BY InitSafe, NextSafe, <1>1, PTL DEF Spec

\* cmd_db_rollback_with_data: a rollback that ends has put back the schema and
\* the data that the last migrate started from.
THEOREM RollbackIsExact == Spec => RollbackUndoes
<1> DEFINE Undone == cmd.name = "rollback" /\ cmd' = Idle /\ {"paired", "migrations", "whole"} \subseteq only'
                     => schema = before.schema /\ data = before.data
<1>1. Safe /\ [Next]_vars => Undone
  <2> SUFFICES ASSUME Safe, [Next]_vars, cmd.name = "rollback", cmd' = Idle, Paired'
               PROVE  schema = before.schema /\ data = before.data
    BY DEF Paired
  <2>1. cmd'.name = "none"
    BY DEF Idle
  <2>2. Finish \/ Abort
    BY <2>1 DEF Next, vars, Migrate, Rollback, Backup, Restore, Start, WriteNext, Fill, Safe, Shapes
  <2>3. Finish /\ Paired
    BY <2>2 DEF Finish, Abort, Paired
  <2>4. Good(cmd.name, before, schema, schemaRb, data, dataRb)
    BY <2>3, EndsNow DEF Safe, LeadsToGood, Finish
  <2> QED
    BY <2>4 DEF Good
<1>2. Safe /\ [Next]_vars => [Undone]_vars
  BY <1>1
<1> QED
  BY InitSafe, NextSafe, <1>2, PTL DEF Spec, RollbackUndoes

\* db migrate and db squash: where every migrate recorded its history, none was
\* cut short and nothing was rolled back, the actions of the history lead from
\* nothing to the schema applied, for every history of schemas.
THEOREM HistoryTellsTheSchema == Spec => []SquashTellsSchema
<1>1. Recording => SquashTellsSchema
  <2> SUFFICES ASSUME Recording, cmd.name = "none", Recorded, schema # NoFile
               PROVE  Replayed(history) = [t \in DOMAIN schema |-> Fields(schema, t)]
    BY DEF SquashTellsSchema, Recorded
  <2>1. cmd.writes = <<>>
    BY DEF Recording, Safe, Shapes
  <2>2. Told(history, schema)
    BY <2>1, EndsNow DEF Recording, LeadsToTold
  <2> QED
    BY <2>2, ReplayedIsEnd DEF Told, FieldSets, SchemaOf
<1> QED
  BY InitRecording, NextRecording, <1>1, PTL DEF Spec

-----------------------------------------------------------------------------
(* Archives.                                                               *)

(***************************************************************************)
(* The inductive invariant.                                                *)
(***************************************************************************)

Record == [kind : {"op", "checkpoint"}, ts : Nat, state : Nat, end : {"half", "line"}]

\* What every copy of the log is, whole or cut short, of now or of long ago: the
\* writes of its records follow one another, each with its stamp; it begins with
\* the first write or with a checkpoint, stamped no earlier than what it stands for.
Consistent(f) ==
    /\ \A i \in 1..Len(f) : f[i].state \in 1..Len(stamps) /\ stamps[f[i].state] <= f[i].ts
    /\ \A i \in 1..Len(f) : f[i].kind = "op" => f[i].ts = stamps[f[i].state]
    /\ \A i \in 1..Len(f) : f[i].state = f[1].state + i - 1
    /\ \A i \in 1..Len(f) : i > 1 => f[i].kind = "op"
    /\ \A i \in 1..Len(f) : i < Len(f) => f[i].end = "line"
    /\ Len(f) > 0 /\ f[1].kind = "op" => f[1].state = 1

Logs == {f \in Seq(Record) : Consistent(f)}
Manifest == [wal : Logs, target : {"none", "file", "http"}]
Limit == [by : {"none", "record", "time"}, n : Nat]
Requests == [file : {"wal"}, body : Logs] \cup [file : {"manifest"}, body : Manifest]
Commands == [pc : {"none", "manifest", "copy_wal", "copy_manifest", "read_wal", "send_wal", "send_manifest", "done"},
             kind : {"none", "file", "http"}, wal : Logs, body : Logs, attempt : Nat, late : BOOLEAN]
Recoveries == [pc : {"none", "fill", "load", "done", "refused"}, limit : Limit, wal : Logs,
               path : {"none", "wal", "target", "cache"}, touched : BOOLEAN, loaded : Nat]

Typed ==
    /\ wal \in Logs \cup {NoCopy}
    /\ stamps \in Seq(Nat)
    /\ clock \in Nat
    /\ manifest \in Manifest \cup {NoCopy}
    /\ target \in [{"file", "http"} -> [wal : Logs \cup {NoCopy}, manifest : Manifest \cup {NoCopy}]]
    /\ flight \subseteq Requests
    /\ arch \in Commands
    /\ rec \in [Recoverers -> Recoveries]

\* The clock is not set back, and the program's log ends with the last write.
Ordered ==
    /\ \A v, w \in 1..Len(stamps) : v <= w => stamps[v] <= stamps[w]
    /\ \A w \in 1..Len(stamps) : stamps[w] <= clock
    /\ wal # NoCopy => \A i \in 1..Len(wal) : wal[i].ts <= clock
    /\ wal # NoCopy => IF wal = <<>> THEN stamps = <<>> ELSE wal[Len(wal)].state = Len(stamps)

\* How far the archive command has come tells what the target has.
Stored ==
    /\ arch.pc \notin {"none", "manifest"} =>
         manifest \in Manifest /\ manifest.wal = arch.wal /\ manifest.target = arch.kind
    /\ arch.pc \in {"copy_wal", "copy_manifest"} => arch.kind = "file"
    /\ arch.pc \in {"read_wal", "send_wal", "send_manifest"} => arch.kind = "http"
    /\ arch.pc = "copy_manifest" => target["file"].wal = arch.body
    /\ arch.pc = "send_manifest" /\ ~arch.late => target["http"].wal = arch.body
    /\ arch.pc = "done" /\ arch.kind # "none" /\ ~arch.late =>
         target[arch.kind] = [wal |-> arch.body, manifest |-> manifest]

\* The file that was verified is still the archived log when it is loaded, or was touched.
Verified ==
    \A p \in Recoverers :
      /\ rec[p].pc = "fill" => rec[p].path = "cache"
      /\ rec[p].pc = "load" => rec[p].path # "none"
      /\ rec[p].pc = "load" /\ rec[p].path = "target" => target["file"].wal \in Logs
      /\ rec[p].pc = "load" /\ ~rec[p].touched =>
           /\ rec[p].path = "wal" => wal # NoCopy /\ wal = rec[p].wal
           /\ rec[p].path = "target" => target["file"].wal = rec[p].wal
      /\ rec[p].pc = "done" /\ ~rec[p].touched => rec[p].loaded = Load(rec[p].wal, rec[p].limit)

Inv == Typed /\ Ordered /\ Stored /\ Verified

(***************************************************************************)
(* Reading a log.                                                          *)
(***************************************************************************)

\* A set of positions that has all positions before each of its own is an interval.
LEMMA InitialSegment ==
    ASSUME NEW n \in Nat, NEW S \in SUBSET (1..n), \A i \in S : \A j \in 1..i : j \in S
    PROVE  Cardinality(S) \in 0..n /\ S = 1..Cardinality(S)
<1> DEFINE c == Cardinality(S)
<1>1. IsFiniteSet(1..n) /\ Cardinality(1..n) = n
  BY FS_Interval
<1>2. IsFiniteSet(S) /\ c \in Nat /\ c <= n
  BY <1>1, FS_Subset, FS_CardinalityType
<1>3. IsFiniteSet(1..c) /\ Cardinality(1..c) = c
  BY <1>2, FS_Interval
<1>4. c + 1 \notin S
  <2> SUFFICES ASSUME c + 1 \in S PROVE FALSE
    OBVIOUS
  <2>1. (1..(c + 1)) \in SUBSET S
    BY <1>2
  <2>2. Cardinality(1..(c + 1)) = c + 1
    BY <1>2, FS_Interval
  <2>3. Cardinality(1..(c + 1)) <= c
    BY <2>1, <1>2, FS_Subset
  <2> QED
    BY <2>2, <2>3, <1>2
<1>5. S \in SUBSET (1..c)
  <2> SUFFICES ASSUME NEW i \in S PROVE i \in 1..c
    OBVIOUS
  <2>1. i \in Nat /\ i >= 1
    OBVIOUS
  <2>2. ~(c + 1 \in 1..i)
    BY <1>4
  <2> QED
    BY <2>1, <2>2, <1>2
<1>6. S = 1..c
  BY <1>5, <1>3, FS_Subset
<1> QED
  BY <1>2, <1>6

LEMMA UpToStops ==
    ASSUME NEW rs \in Seq(Record), NEW t \in Nat
    PROVE  /\ UpTo(rs, t) \in 0..Len(rs)
           /\ \A i \in 1..UpTo(rs, t) : rs[i].ts <= t
           /\ UpTo(rs, t) < Len(rs) => rs[UpTo(rs, t) + 1].ts > t
<1> DEFINE S == {i \in 1..Len(rs) : \A j \in 1..i : rs[j].ts <= t}
           c == Cardinality(S)
           P(k) == (\A i \in 1..k : rs[i].ts <= t) /\ (k < Len(rs) => rs[k + 1].ts > t)
<1>1. Len(rs) \in Nat /\ \A i \in 1..Len(rs) : rs[i].ts \in Nat
  <2>1. \A i \in 1..Len(rs) : rs[i] \in Record
    BY ElementOfSeq
  <2> QED
    BY <2>1, LenProperties DEF Record
<1>2. c \in 0..Len(rs) /\ S = 1..c
  <2>1. \A i \in S : \A j \in 1..i : j \in S
    BY <1>1
  <2>2. S \in SUBSET (1..Len(rs))
    OBVIOUS
  <2> QED
    BY <2>1, <2>2, <1>1, InitialSegment
<1>3. \A i \in 1..c : rs[i].ts <= t
  BY <1>2
<1>4. c < Len(rs) => rs[c + 1].ts > t
  <2> SUFFICES ASSUME c < Len(rs) PROVE rs[c + 1].ts > t
    OBVIOUS
  <2> HIDE DEF c
  <2>1. c + 1 \notin S /\ c + 1 \in 1..Len(rs)
    BY <1>2, <1>1
  <2>2. \E j \in 1..(c + 1) : ~(rs[j].ts <= t)
    BY <2>1
  <2>3. \A j \in 1..(c + 1) : j \in 1..c \/ j = c + 1
    BY <1>2
  <2>4. ~(rs[c + 1].ts <= t)
    BY <2>2, <2>3, <1>3
  <2> QED
    BY <2>4, <2>1, <1>1
<1> HIDE DEF c
<1>5. \E k \in 0..Len(rs) : P(k)
  BY <1>2, <1>3, <1>4
<1>6. UpTo(rs, t) = CHOOSE k \in 0..Len(rs) : P(k)
  BY DEF UpTo
<1> HIDE DEF P
<1>7. UpTo(rs, t) \in 0..Len(rs) /\ P(UpTo(rs, t))
  BY <1>5, <1>6, Zenon
<1> QED
  BY <1>7 DEF P

LEMMA RecordsOfLog ==
    ASSUME NEW f \in Logs
    PROVE  /\ Records(f) \in Seq(Record)
           /\ Len(Records(f)) <= Len(f)
           /\ \A i \in 1..Len(Records(f)) : Records(f)[i] = f[i]
<1>1. f \in Seq(Record) /\ Len(f) \in Nat
  BY LenProperties DEF Logs
<1>2. CASE f # <<>> /\ Last(f).end = "half"
  <2>1. Records(f) = SubSeq(f, 1, Len(f) - 1)
    BY <1>2 DEF Records, Front
  <2>2. Len(f) > 0
    BY <1>1, <1>2, EmptySeq
  <2> QED
    BY <1>1, <2>1, <2>2, SubSeqProperties
<1>3. CASE ~(f # <<>> /\ Last(f).end = "half")
  BY <1>1, <1>3 DEF Records
<1> QED
  BY <1>2, <1>3
(***************************************************************************)
(* The writes a recovery has.                                              *)
(***************************************************************************)

LEMMA LoadType ==
    ASSUME NEW f \in Logs, NEW limit \in Limit
    PROVE  Load(f, limit) \in Nat
<1> DEFINE rs == Records(f)
           k  == CASE limit.by = "none"   -> Len(rs)
                   [] limit.by = "record" -> IF limit.n < Len(rs) THEN limit.n ELSE Len(rs)
                   [] limit.by = "time"   -> UpTo(rs, limit.n)
<1>1. rs \in Seq(Record) /\ Len(rs) \in Nat
  BY RecordsOfLog, LenProperties
<1>2. limit.by \in {"none", "record", "time"} /\ limit.n \in Nat
  BY DEF Limit
<1>3. UpTo(rs, limit.n) \in 0..Len(rs)
  BY <1>1, <1>2, UpToStops
<1>4. k \in 0..Len(rs)
  BY <1>1, <1>2, <1>3
<1> HIDE DEF k
<1>5. Load(f, limit) = IF k = 0 THEN 0 ELSE rs[k].state
  BY DEF Load, k
<1>6. k # 0 => rs[k].state \in Nat
  <2> SUFFICES ASSUME k # 0 PROVE rs[k].state \in Nat
    OBVIOUS
  <2>1. k \in 1..Len(rs)
    BY <1>1, <1>4
  <2> HIDE DEF rs
  <2>2. rs[k] \in Record
    BY <2>1, <1>1, ElementOfSeq
  <2> QED
    BY <2>2 DEF Record
<1> QED
  BY <1>5, <1>6

\* Without a limit a recovery has every write of the log.
LEMMA LoadWhole ==
    ASSUME NEW f \in Logs, NEW limit \in Limit, limit.by = "none"
    PROVE  Load(f, limit) = LastWrite(f)
<1>1. Records(f) \in Seq(Record) /\ Len(Records(f)) \in Nat
  BY RecordsOfLog, LenProperties
<1>2. Records(f) = <<>> <=> Len(Records(f)) = 0
  BY <1>1, EmptySeq
<1> QED
  BY <1>2 DEF Load, LastWrite, Last

\* The records of a log are consistent as the log is.
LEMMA RecordsConsistent ==
    ASSUME NEW f \in Logs
    PROVE  LET rs == Records(f)
           IN  /\ \A i \in 1..Len(rs) : rs[i].state \in 1..Len(stamps) /\ stamps[rs[i].state] <= rs[i].ts
               /\ \A i \in 1..Len(rs) : rs[i].kind = "op" => rs[i].ts = stamps[rs[i].state]
               /\ \A i \in 1..Len(rs) : rs[i].state = rs[1].state + i - 1
               /\ Len(rs) > 0 /\ rs[1].kind = "op" => rs[1].state = 1
               /\ \A i \in 1..Len(rs) : rs[i].kind = f[i].kind /\ rs[i].ts = f[i].ts
<1> DEFINE rs == Records(f)
<1>1. /\ Len(rs) \in Nat /\ Len(f) \in Nat /\ Len(rs) <= Len(f)
      /\ \A i \in 1..Len(rs) : rs[i] = f[i]
  BY RecordsOfLog, LenProperties DEF Logs
<1>2. \A i \in 1..Len(rs) : i \in 1..Len(f)
  BY <1>1
<1>3. Len(rs) > 0 => 1 \in 1..Len(rs) /\ Len(f) > 0
  BY <1>1
<1> HIDE DEF rs
<1>4. \A i \in 1..Len(rs) : rs[i].state = rs[1].state + i - 1
  <2> SUFFICES ASSUME NEW i \in 1..Len(rs) PROVE rs[i].state = rs[1].state + i - 1
    OBVIOUS
  <2>1. rs[i] = f[i] /\ rs[1] = f[1]
    BY <1>1, <1>3
  <2> QED
    BY <2>1, <1>2 DEF Logs, Consistent
<1>5. \A i \in 1..Len(rs) : /\ rs[i].state \in 1..Len(stamps) /\ stamps[rs[i].state] <= rs[i].ts
                            /\ rs[i].kind = "op" => rs[i].ts = stamps[rs[i].state]
  BY <1>1, <1>2 DEF Logs, Consistent
<1>6. Len(rs) > 0 /\ rs[1].kind = "op" => rs[1].state = 1
  BY <1>1, <1>3 DEF Logs, Consistent
<1> QED
  BY <1>1, <1>4, <1>5, <1>6 DEF rs

\* With a limit in time it has none of the writes made after it; and all that were
\* made by then, where no checkpoint is later.
LEMMA LoadAsOf ==
    ASSUME NEW f \in Logs, NEW limit \in Limit, limit.by = "time", stamps \in Seq(Nat), Ordered
    PROVE  LET made == Cardinality({w \in 1..LastWrite(f) : stamps[w] <= limit.n})
           IN  /\ Load(f, limit) <= made
               /\ (\A i \in 1..Len(f) : f[i].kind = "checkpoint" => f[i].ts <= limit.n) => Load(f, limit) = made
<1> DEFINE rs == Records(f)
           t  == limit.n
           k  == UpTo(rs, t)
           S  == {w \in 1..LastWrite(f) : stamps[w] <= t}
           c  == Cardinality(S)
<1>1. /\ rs \in Seq(Record) /\ Len(rs) \in Nat /\ Len(f) \in Nat /\ Len(rs) <= Len(f) /\ t \in Nat
      /\ \A i \in 1..Len(rs) : rs[i] \in Record
  BY RecordsOfLog, LenProperties, ElementOfSeq DEF Limit, Logs
<1>2. /\ \A i \in 1..Len(rs) : rs[i].state \in 1..Len(stamps) /\ stamps[rs[i].state] <= rs[i].ts
      /\ \A i \in 1..Len(rs) : rs[i].kind = "op" => rs[i].ts = stamps[rs[i].state]
      /\ \A i \in 1..Len(rs) : rs[i].state = rs[1].state + i - 1
      /\ Len(rs) > 0 /\ rs[1].kind = "op" => rs[1].state = 1
      /\ \A i \in 1..Len(rs) : rs[i].kind = f[i].kind /\ rs[i].ts = f[i].ts
  BY RecordsConsistent
<1>3. k \in 0..Len(rs) /\ (\A i \in 1..k : rs[i].ts <= t) /\ (k < Len(rs) => rs[k + 1].ts > t)
  BY <1>1, UpToStops
<1>4. Load(f, limit) = IF k = 0 THEN 0 ELSE rs[k].state
  BY DEF Load
<1>5. LastWrite(f) = IF Len(rs) = 0 THEN 0 ELSE rs[Len(rs)].state
  <2>1. rs = <<>> <=> Len(rs) = 0
    BY <1>1, EmptySeq
  <2> QED
    BY <2>1 DEF LastWrite, Last
<1>6. Len(stamps) \in Nat /\ \A w \in 1..Len(stamps) : stamps[w] \in Nat
  BY LenProperties, ElementOfSeq
<1> HIDE DEF rs, k
<1>7. LastWrite(f) \in 0..Len(stamps)
  <2>1. Len(rs) # 0 => Len(rs) \in 1..Len(rs)
    BY <1>1
  <2> QED
    BY <1>2, <1>5, <1>6, <2>1
<1>8. c \in 0..LastWrite(f) /\ S = 1..c
  <2>1. \A i \in S : \A j \in 1..i : j \in S
    <3> SUFFICES ASSUME NEW i \in S, NEW j \in 1..i PROVE j \in S
      OBVIOUS
    <3>1. i \in 1..Len(stamps) /\ j \in 1..Len(stamps) /\ j <= i /\ j \in 1..LastWrite(f)
      BY <1>6, <1>7
    <3>2. stamps[j] <= stamps[i] /\ stamps[i] <= t
      BY <3>1 DEF Ordered
    <3> QED
      BY <3>1, <3>2, <1>1, <1>6
  <2>2. S \in SUBSET (1..LastWrite(f)) /\ LastWrite(f) \in Nat
    BY <1>7
  <2> HIDE DEF S
  <2> QED
    BY <2>1, <2>2, InitialSegment DEF c
<1>9. k # 0 => k \in 1..Len(rs) /\ rs[k].state \in 1..LastWrite(f) /\ stamps[rs[k].state] <= t
  <2> SUFFICES ASSUME k # 0 PROVE k \in 1..Len(rs) /\ rs[k].state \in 1..LastWrite(f) /\ stamps[rs[k].state] <= t
    OBVIOUS
  <2>1. k \in 1..Len(rs) /\ k \in 1..k /\ Len(rs) \in 1..Len(rs) /\ 1 \in 1..Len(rs)
    BY <1>1, <1>3
  <2>2. rs[k].state = rs[1].state + k - 1 /\ rs[Len(rs)].state = rs[1].state + Len(rs) - 1 /\ rs[1].state \in Nat
    BY <1>1, <1>2, <2>1 DEF Record
  <2>3. stamps[rs[k].state] <= rs[k].ts /\ rs[k].ts <= t /\ rs[k].state \in 1..Len(stamps) /\ rs[k].ts \in Nat
    BY <1>1, <1>2, <1>3, <2>1 DEF Record
  <2>4. rs[k].state \in 1..rs[Len(rs)].state
    <3>1. k \in Int /\ Len(rs) \in Int /\ k <= Len(rs)
      BY <1>1, <2>1
    <3>2. rs[k].state <= rs[Len(rs)].state /\ rs[Len(rs)].state \in Int
      BY <2>2, <3>1
    <3>3. rs[k].state \in Int /\ 1 <= rs[k].state
      BY <1>6, <2>3
    <3> QED
      BY <3>2, <3>3
  <2>5. LastWrite(f) = rs[Len(rs)].state
    BY <1>5, <2>1
  <2>6. stamps[rs[k].state] <= t
    BY <1>1, <1>6, <2>3
  <2> QED
    BY <2>1, <2>4, <2>5, <2>6
<1>10. Load(f, limit) <= c
  <2>1. k # 0 => rs[k].state \in S
    BY <1>9
  <2> QED
    BY <1>4, <1>8, <2>1
<1>11. ASSUME \A i \in 1..Len(f) : f[i].kind = "checkpoint" => f[i].ts <= t
       PROVE  c <= Load(f, limit)
  <2>1. CASE k = Len(rs)
    BY <2>1, <1>4, <1>5, <1>8
  <2>2. CASE k < Len(rs)
    <3>1. k + 1 \in 1..Len(rs) /\ k + 1 \in 1..Len(f) /\ 1 \in 1..Len(rs) /\ Len(rs) > 0
      BY <1>1, <1>3, <2>2
    <3>2. rs[k + 1].ts > t /\ rs[k + 1].ts \in Nat /\ rs[k + 1].kind \in {"op", "checkpoint"}
      BY <1>1, <1>3, <2>2, <3>1 DEF Record
    <3>3. rs[k + 1].kind = "op"
      <4>1. rs[k + 1].kind = f[k + 1].kind /\ rs[k + 1].ts = f[k + 1].ts
        BY <1>2, <3>1
      <4>2. f[k + 1].kind = "checkpoint" => f[k + 1].ts <= t
        BY <1>11, <3>1
      <4> QED
        BY <1>1, <3>2, <4>1, <4>2
    <3>4. stamps[rs[k + 1].state] > t /\ rs[k + 1].state \in 1..Len(stamps)
      BY <1>2, <3>1, <3>2, <3>3
    <3>5. rs[k + 1].state = Load(f, limit) + 1
      <4>1. rs[k + 1].state = rs[1].state + (k + 1) - 1 /\ rs[1].state \in Nat
        BY <1>1, <1>2, <3>1 DEF Record
      <4>2. CASE k = 0
        BY <1>2, <1>4, <3>1, <3>3, <4>2
      <4>3. CASE k # 0
        <5>1. rs[k].state = rs[1].state + k - 1
          BY <1>2, <1>9, <4>3
        <5> QED
          BY <1>3, <1>4, <4>1, <4>3, <5>1
      <4> QED
        BY <4>2, <4>3
    <3>6. rs[k + 1].state \notin S
      BY <3>4, <1>1, <1>6
    <3>7. Load(f, limit) \in Nat
      BY LoadType
    <3> HIDE DEF S, c
    <3>8. ~(Load(f, limit) + 1 \in 1..c) /\ c \in Nat
      BY <1>7, <1>8, <3>5, <3>6
    <3> QED
      BY <3>7, <3>8
  <2> QED
    BY <1>3, <1>1, <2>1, <2>2
<1>12. Load(f, limit) \in Nat /\ c \in Nat
  BY <1>7, <1>8, LoadType
<1> HIDE DEF S, c
<1>13. (\A i \in 1..Len(f) : f[i].kind = "checkpoint" => f[i].ts <= t) => Load(f, limit) = c
  BY <1>10, <1>11, <1>12
<1> QED
  BY <1>10, <1>13 DEF S, c
(***************************************************************************)
(* Copies of the log.                                                      *)
(***************************************************************************)

LEMMA LogFacts ==
    ASSUME NEW f \in Logs
    PROVE  /\ f \in Seq(Record) /\ Len(f) \in Nat
           /\ \A i \in 1..Len(f) : f[i] \in Record
           /\ f = <<>> <=> Len(f) = 0
<1>1. f \in Seq(Record)
  BY DEF Logs
<1> QED
  BY <1>1, LenProperties, ElementOfSeq, EmptySeq

LEMMA EmptyLog == <<>> \in Logs
BY EmptySeq DEF Logs, Consistent

LEMMA SameLogs ==
    ASSUME UNCHANGED stamps
    PROVE  /\ Logs' = Logs /\ Manifest' = Manifest /\ Requests' = Requests
           /\ Commands' = Commands /\ Recoveries' = Recoveries
<1>1. Logs' = Logs
  BY DEF Logs, Consistent
<1>2. Manifest' = Manifest
  BY <1>1 DEF Manifest
<1> QED
  BY <1>1, <1>2 DEF Requests, Commands, Recoveries

\* A copy stays consistent as the program goes on writing.
LEMMA LogsGrow ==
    ASSUME stamps \in Seq(Nat), NEW c \in Nat, stamps' = Append(stamps, c)
    PROVE  Logs \subseteq Logs'
<1> SUFFICES ASSUME NEW f \in Logs PROVE f \in Logs'
  OBVIOUS
<1>1. Len(stamps) \in Nat /\ Len(stamps') = Len(stamps) + 1 /\ \A w \in 1..Len(stamps) : stamps'[w] = stamps[w]
  BY LenProperties, AppendProperties
<1>2. f \in Seq(Record) /\ Consistent(f)
  BY DEF Logs
<1>3. \A i \in 1..Len(f) : /\ f[i].state \in 1..Len(stamps') /\ stamps'[f[i].state] = stamps[f[i].state]
                           /\ f[i].state \in 1..Len(stamps)
  BY <1>1, <1>2 DEF Consistent
<1>4. Consistent(f)'
  BY <1>2, <1>3 DEF Consistent
<1> QED
  BY <1>2, <1>4 DEF Logs

\* A copy cut short is a log.
LEMMA TornLogs ==
    ASSUME NEW f \in Logs
    PROVE  Torn(f) \subseteq Logs
<1>1. f \in Seq(Record) /\ Len(f) \in Nat /\ Consistent(f) /\ \A i \in 1..Len(f) : f[i] \in Record
  BY LogFacts DEF Logs
<1>2. ASSUME NEW k \in 0..Len(f) - 1
      PROVE  /\ SubSeq(f, 1, k) \in Seq(Record) /\ Len(SubSeq(f, 1, k)) = k
             /\ \A i \in 1..k : SubSeq(f, 1, k)[i] = f[i]
             /\ k + 1 \in 1..Len(f) /\ k \in Nat
  <2>1. \A i \in 1..k : f[i] \in Record
    BY <1>1
  <2>2. k \in Nat
    BY <1>1
  <2>3. Len(SubSeq(f, 1, k)) = IF 1 <= k THEN k - 1 + 1 ELSE 0
    BY <2>1, <2>2, SubSeqProperties
  <2>4. \A i \in 1..k - 1 + 1 : SubSeq(f, 1, k)[i] = f[1 + i - 1]
    BY <2>1, <2>2, SubSeqProperties
  <2>5. SubSeq(f, 1, k) \in Seq(Record)
    BY <2>1, <2>2, SubSeqProperties
  <2> QED
    BY <1>1, <2>2, <2>3, <2>4, <2>5
<1>3. ASSUME NEW k \in 0..Len(f) - 1 PROVE SubSeq(f, 1, k) \in Logs
  <2> DEFINE g == SubSeq(f, 1, k)
  <2>1. g \in Seq(Record) /\ Len(g) = k /\ k \in Nat /\ k < Len(f) /\ \A i \in 1..k : g[i] = f[i] /\ i \in 1..Len(f)
    BY <1>1, <1>2
  <2>2. k > 0 => 1 \in 1..k
    BY <2>1
  <2> HIDE DEF g
  <2>3. \A i \in 1..Len(g) : i < Len(g) => g[i].end = "line"
    <3> SUFFICES ASSUME NEW i \in 1..Len(g) PROVE g[i].end = "line"
      OBVIOUS
    <3>1. i \in 1..Len(f) /\ i < Len(f) /\ g[i] = f[i]
      BY <1>1, <2>1
    <3> QED
      BY <1>1, <3>1 DEF Consistent
  <2>4. \A i \in 1..Len(g) : /\ g[i].state \in 1..Len(stamps) /\ stamps[g[i].state] <= g[i].ts
                             /\ g[i].kind = "op" => g[i].ts = stamps[g[i].state]
                             /\ g[i].state = g[1].state + i - 1
                             /\ i > 1 => g[i].kind = "op"
    <3> SUFFICES ASSUME NEW i \in 1..Len(g)
                 PROVE  /\ g[i].state \in 1..Len(stamps) /\ stamps[g[i].state] <= g[i].ts
                        /\ g[i].kind = "op" => g[i].ts = stamps[g[i].state]
                        /\ g[i].state = g[1].state + i - 1
                        /\ i > 1 => g[i].kind = "op"
      OBVIOUS
    <3>1. i \in 1..Len(f) /\ g[i] = f[i] /\ g[1] = f[1]
      BY <2>1, <2>2
    <3> QED
      BY <1>1, <3>1 DEF Consistent
  <2>5. Len(g) > 0 /\ g[1].kind = "op" => g[1].state = 1
    BY <1>1, <2>1, <2>2 DEF Consistent
  <2>6. Consistent(g)
    BY <2>3, <2>4, <2>5 DEF Consistent
  <2> QED
    BY <2>1, <2>6 DEF Logs, g
<1>4. ASSUME NEW k \in 0..Len(f) - 1
      PROVE  Append(SubSeq(f, 1, k), [f[k + 1] EXCEPT !.end = "half"]) \in Logs
  <2> DEFINE e == [f[k + 1] EXCEPT !.end = "half"]
             g == Append(SubSeq(f, 1, k), e)
  <2>1. f[k + 1] \in Record
    BY <1>1, <1>2
  <2>2. e \in Record /\ e.kind = f[k + 1].kind /\ e.ts = f[k + 1].ts /\ e.state = f[k + 1].state
    BY <2>1 DEF Record
  <2> HIDE DEF e
  <2>3. /\ g \in Seq(Record) /\ Len(g) = k + 1 /\ k \in Nat /\ g[k + 1] = e
        /\ \A i \in 1..k : g[i] = f[i]
    BY <1>2, <2>2, AppendProperties
  <2> HIDE DEF g
  <2>4. \A i \in 1..k + 1 : /\ i \in 1..Len(f) /\ (i < k + 1 => i \in 1..k /\ i < Len(f))
                            /\ g[i].state = f[i].state /\ g[i].kind = f[i].kind /\ g[i].ts = f[i].ts
    <3> SUFFICES ASSUME NEW i \in 1..k + 1
                 PROVE  /\ i \in 1..Len(f) /\ (i < k + 1 => i \in 1..k /\ i < Len(f))
                        /\ g[i].state = f[i].state /\ g[i].kind = f[i].kind /\ g[i].ts = f[i].ts
      OBVIOUS
    <3>1. CASE i = k + 1
      BY <1>2, <2>2, <2>3, <3>1
    <3>2. CASE i \in 1..k
      BY <1>1, <1>2, <2>3, <3>2
    <3> QED
      BY <2>3, <3>1, <3>2
  <2>5. 1 \in 1..k + 1 /\ Len(f) > 0
    BY <2>3, <1>1
  <2>6. \A i \in 1..Len(g) : i < Len(g) => g[i].end = "line"
    <3> SUFFICES ASSUME NEW i \in 1..Len(g), i < Len(g) PROVE g[i].end = "line"
      OBVIOUS
    <3>1. i \in 1..k + 1 /\ i < k + 1
      BY <2>3
    <3>2. i \in 1..k /\ i \in 1..Len(f) /\ i < Len(f) /\ g[i] = f[i]
      BY <2>3, <2>4, <3>1
    <3> QED
      BY <1>1, <3>2 DEF Consistent
  <2>7. \A i \in 1..Len(g) : /\ g[i].state \in 1..Len(stamps) /\ stamps[g[i].state] <= g[i].ts
                             /\ g[i].kind = "op" => g[i].ts = stamps[g[i].state]
                             /\ g[i].state = g[1].state + i - 1
                             /\ i > 1 => g[i].kind = "op"
    BY <1>1, <2>3, <2>4, <2>5 DEF Consistent
  <2>8. Len(g) > 0 /\ g[1].kind = "op" => g[1].state = 1
    BY <1>1, <2>4, <2>5 DEF Consistent
  <2>9. Consistent(g)
    BY <2>6, <2>7, <2>8 DEF Consistent
  <2> QED
    BY <2>3, <2>9 DEF Logs, g, e
<1> QED
  BY <1>3, <1>4 DEF Torn
(***************************************************************************)
(* What a write does to the recover commands.                              *)
(***************************************************************************)

LEMMA TouchedRecoveries ==
    ASSUME Typed, NEW paths
    PROVE  /\ Touched(paths) \in [Recoverers -> Recoveries]
           /\ \A p \in Recoverers :
                /\ Touched(paths)[p].pc = rec[p].pc /\ Touched(paths)[p].limit = rec[p].limit
                /\ Touched(paths)[p].wal = rec[p].wal /\ Touched(paths)[p].path = rec[p].path
                /\ Touched(paths)[p].loaded = rec[p].loaded
                /\ ~Touched(paths)[p].touched => ~rec[p].touched /\ ~(rec[p].pc = "load" /\ rec[p].path \in paths)
<1>1. \A p \in Recoverers : rec[p] \in Recoveries
  BY DEF Typed
<1>2. ASSUME NEW p \in Recoverers
      PROVE  /\ Touched(paths)[p] \in Recoveries
             /\ Touched(paths)[p].pc = rec[p].pc /\ Touched(paths)[p].limit = rec[p].limit
             /\ Touched(paths)[p].wal = rec[p].wal /\ Touched(paths)[p].path = rec[p].path
             /\ Touched(paths)[p].loaded = rec[p].loaded
             /\ ~Touched(paths)[p].touched => ~rec[p].touched /\ ~(rec[p].pc = "load" /\ rec[p].path \in paths)
  <2>1. Touched(paths)[p] = IF rec[p].pc = "load" /\ rec[p].path \in paths THEN [rec[p] EXCEPT !.touched = TRUE] ELSE rec[p]
    BY DEF Touched
  <2>2. CASE rec[p].pc = "load" /\ rec[p].path \in paths
    BY <1>1, <2>1, <2>2 DEF Recoveries
  <2>3. CASE ~(rec[p].pc = "load" /\ rec[p].path \in paths)
    BY <1>1, <2>1, <2>3
  <2> QED
    BY <2>2, <2>3
<1>3. Touched(paths) = [p \in Recoverers |-> Touched(paths)[p]]
  BY DEF Touched
<1> QED
  BY <1>2, <1>3

\* A file that is written is told to the commands that have verified it.
LEMMA WritesAreTold ==
    ASSUME Typed, Verified, NEW paths, rec' = Touched(paths), Logs \subseteq Logs',
           "wal" \in paths \/ wal' = wal,
           \/ "target" \in paths /\ target'["file"].wal \in Logs'
           \/ target'["file"].wal = target["file"].wal
    PROVE  Verified' /\ rec' \in [Recoverers -> Recoveries]
<1>1. rec' \in [Recoverers -> Recoveries]
  BY TouchedRecoveries
<1>2. ASSUME NEW p \in Recoverers
      PROVE  /\ rec'[p].pc = "fill" => rec'[p].path = "cache"
             /\ rec'[p].pc = "load" => rec'[p].path # "none"
             /\ rec'[p].pc = "load" /\ rec'[p].path = "target" => target'["file"].wal \in Logs'
             /\ rec'[p].pc = "load" /\ ~rec'[p].touched =>
                  /\ rec'[p].path = "wal" => wal' # NoCopy /\ wal' = rec'[p].wal
                  /\ rec'[p].path = "target" => target'["file"].wal = rec'[p].wal
             /\ rec'[p].pc = "done" /\ ~rec'[p].touched => rec'[p].loaded = Load(rec'[p].wal, rec'[p].limit)
  <2>1. /\ rec'[p].pc = rec[p].pc /\ rec'[p].limit = rec[p].limit
        /\ rec'[p].wal = rec[p].wal /\ rec'[p].path = rec[p].path /\ rec'[p].loaded = rec[p].loaded
        /\ ~rec'[p].touched => ~rec[p].touched /\ ~(rec[p].pc = "load" /\ rec[p].path \in paths)
    BY TouchedRecoveries
  <2> QED
    BY <2>1 DEF Verified
<1> QED
  BY <1>1, <1>2 DEF Verified

LEMMA FilesAreKept ==
    ASSUME Verified, UNCHANGED program, rec' = rec, target'["file"].wal = target["file"].wal
    PROVE  Verified'
<1>1. wal' = wal /\ Logs' = Logs
  BY SameLogs DEF program
<1> QED
  BY <1>1 DEF Verified

(***************************************************************************)
(* The program's steps.                                                    *)
(***************************************************************************)

\* Everything typed but the log, the stamps and the clock stays so as the logs grow.
LEMMA ProgramTyped ==
    ASSUME Typed, UNCHANGED archived, Logs \subseteq Logs',
           wal' \in Logs' \cup {NoCopy}, stamps' \in Seq(Nat), clock' \in Nat,
           rec' \in [Recoverers -> Recoveries]
    PROVE  Typed'
<1>1. Manifest \subseteq Manifest' /\ Commands \subseteq Commands' /\ Recoveries \subseteq Recoveries'
  BY DEF Manifest, Commands, Recoveries
<1>2. Requests \subseteq Requests'
  BY <1>1 DEF Requests
<1>3. rec' \in [Recoverers -> Recoveries']
  BY <1>1
<1>4. manifest' \in Manifest' \cup {NoCopy}
  BY <1>1 DEF Typed, archived
<1>5. target' \in [{"file", "http"} -> [wal : Logs' \cup {NoCopy}, manifest : Manifest' \cup {NoCopy}]]
  BY <1>1 DEF Typed, archived
<1>6. flight' \subseteq Requests' /\ arch' \in Commands'
  BY <1>1, <1>2 DEF Typed, archived
<1> QED
  BY <1>3, <1>4, <1>5, <1>6 DEF Typed

LEMMA StoredKept ==
    ASSUME Typed, Stored, UNCHANGED archived, Logs \subseteq Logs'
    PROVE  Stored'
<1>1. Manifest \subseteq Manifest'
  BY DEF Manifest
<1> QED
  BY <1>1 DEF Stored, archived

LEMMA AppendHalfKeeps ==
    ASSUME Inv, AppendHalf
    PROVE  Inv'
<1> DEFINE n == Len(stamps) + 1
           r == [kind |-> "op", ts |-> clock', state |-> n, end |-> "half"]
<1>1. /\ wal \in Logs /\ wal # NoCopy /\ stamps \in Seq(Nat) /\ clock \in Nat
      /\ clock' \in Nat /\ clock <= clock' /\ wal' = Append(wal, r) /\ stamps' = Append(stamps, clock')
      /\ Source = wal
  BY TimeAssumption DEF Inv, Typed, AppendHalf, Source
<1>2. /\ Len(stamps) \in Nat /\ stamps' \in Seq(Nat) /\ Len(stamps') = n /\ stamps'[n] = clock'
      /\ \A w \in 1..Len(stamps) : stamps'[w] = stamps[w] /\ stamps[w] \in Nat
  BY <1>1, AppendProperties, LenProperties, ElementOfSeq
<1>3. r \in Record
  BY <1>1, <1>2 DEF Record
<1>4. wal \in Seq(Record) /\ Len(wal) \in Nat /\ Consistent(wal) /\ (wal = <<>> <=> Len(wal) = 0)
      /\ \A i \in 1..Len(wal) : wal[i] \in Record
  BY <1>1, LogFacts DEF Logs
<1>5. /\ wal' \in Seq(Record) /\ wal' # <<>> /\ Len(wal') = Len(wal) + 1 /\ wal'[Len(wal) + 1] = r
      /\ \A i \in 1..Len(wal) : wal'[i] = wal[i]
  <2>1. wal' = Append(wal, r) /\ wal \in Seq(Record) /\ r \in Record
    BY <1>1, <1>3, <1>4
  <2> HIDE DEF r
  <2> QED
    BY <2>1, AppendProperties
<1>6. IF wal = <<>> THEN n = 1 ELSE wal[Len(wal)].state = Len(stamps) /\ wal[Len(wal)].end = "line"
  <2>1. stamps = <<>> => Len(stamps) = 0
    BY EmptySeq
  <2>2. wal # <<>> => wal[Len(wal)].end = "line"
    BY <1>1 DEF AppendHalf, Whole, Last
  <2> QED
    BY <1>1, <2>1, <2>2 DEF Inv, Ordered
<1> HIDE DEF n
<1>7. n = Len(stamps) + 1
  BY DEF n
<1>8. \A i \in 1..Len(wal') : i \in 1..Len(wal) \/ i = Len(wal) + 1
  BY <1>4, <1>5
<1>9. \A i \in 1..Len(wal) : /\ wal[i].state \in 1..Len(stamps) /\ stamps'[wal[i].state] = stamps[wal[i].state]
                             /\ wal[i].state \in 1..n
  BY <1>2, <1>4, <1>7 DEF Consistent
<1>10. Len(wal) > 0 => Len(wal) \in 1..Len(wal) /\ 1 \in 1..Len(wal)
  BY <1>4
<1>11. Consistent(wal)'
  <2>1. \A i \in 1..Len(wal') : wal'[i].state \in 1..Len(stamps') /\ stamps'[wal'[i].state] <= wal'[i].ts
    <3>1. \A i \in 1..Len(wal) : wal'[i].state \in 1..Len(stamps') /\ stamps'[wal'[i].state] <= wal'[i].ts
      BY <1>2, <1>4, <1>5, <1>9 DEF Consistent
    <3>2. r.state \in 1..Len(stamps') /\ stamps'[r.state] <= r.ts
      BY <1>1, <1>2, <1>7
    <3> QED
      BY <1>5, <1>8, <3>1, <3>2
  <2>2. \A i \in 1..Len(wal') : wal'[i].kind = "op" => wal'[i].ts = stamps'[wal'[i].state]
    <3>1. \A i \in 1..Len(wal) : wal'[i].kind = "op" => wal'[i].ts = stamps'[wal'[i].state]
      BY <1>4, <1>5, <1>9 DEF Consistent
    <3> QED
      BY <1>2, <1>5, <1>8, <3>1
  <2>3. \A i \in 1..Len(wal') : wal'[i].state = wal'[1].state + i - 1
    <3>1. CASE Len(wal) = 0
      <4>1. n = 1
        BY <1>4, <1>6, <3>1
      <4> QED
        BY <1>5, <1>8, <3>1, <4>1
    <3>2. CASE Len(wal) > 0
      <4>1. wal'[1] = wal[1] /\ wal[1].state \in Nat
        BY <1>4, <1>5, <1>10, <3>2 DEF Record
      <4>2. \A i \in 1..Len(wal) : wal'[i].state = wal'[1].state + i - 1
        BY <1>4, <1>5, <4>1 DEF Consistent
      <4>3. Len(stamps) = wal[1].state + Len(wal) - 1
        BY <1>4, <1>6, <1>10, <3>2 DEF Consistent
      <4>4. n = wal'[1].state + (Len(wal) + 1) - 1
        BY <1>2, <1>4, <1>7, <4>1, <4>3
      <4> QED
        BY <1>5, <1>8, <4>2, <4>4
    <3> QED
      BY <1>4, <3>1, <3>2
  <2>4. \A i \in 1..Len(wal') : i > 1 => wal'[i].kind = "op"
    BY <1>4, <1>5, <1>8 DEF Consistent
  <2>5. \A i \in 1..Len(wal') : i < Len(wal') => wal'[i].end = "line"
    <3> SUFFICES ASSUME NEW i \in 1..Len(wal'), i < Len(wal') PROVE wal'[i].end = "line"
      OBVIOUS
    <3>1. i \in 1..Len(wal)
      BY <1>4, <1>5
    <3>2. CASE i < Len(wal)
      BY <1>4, <1>5, <3>1, <3>2 DEF Consistent
    <3>3. CASE i = Len(wal)
      BY <1>4, <1>5, <1>6, <3>1, <3>3
    <3> QED
      BY <1>4, <3>1, <3>2, <3>3
  <2>6. Len(wal') > 0 /\ wal'[1].kind = "op" => wal'[1].state = 1
    <3>1. CASE Len(wal) = 0
      BY <1>4, <1>5, <1>6, <3>1
    <3>2. CASE Len(wal) > 0
      BY <1>4, <1>5, <1>10, <3>2 DEF Consistent
    <3> QED
      BY <1>4, <3>1, <3>2
  <2> QED
    BY <2>1, <2>2, <2>3, <2>4, <2>5, <2>6 DEF Consistent
<1>12. wal' \in Logs' /\ Logs \subseteq Logs'
  BY <1>1, <1>5, <1>11, LogsGrow DEF Logs
<1>13. UNCHANGED archived /\ rec' = Touched({"wal"})
  BY DEF AppendHalf
<1>14. Verified' /\ rec' \in [Recoverers -> Recoveries]
  <2>1. target' = target
    BY <1>13 DEF archived
  <2> QED
    BY <1>12, <1>13, <2>1, WritesAreTold DEF Inv
<1>15. Typed'
  BY <1>1, <1>2, <1>12, <1>13, <1>14, ProgramTyped DEF Inv
<1>16. Stored'
  BY <1>12, <1>13, StoredKept DEF Inv
<1>17. Ordered'
  <2>1. \A w \in 1..Len(stamps') : w \in 1..Len(stamps) \/ w = n
    BY <1>2, <1>7
  <2>2. \A w \in 1..Len(stamps') : stamps'[w] \in Nat /\ stamps'[w] <= clock'
    <3>1. \A w \in 1..Len(stamps) : stamps[w] <= clock
      BY DEF Inv, Ordered
    <3> QED
      BY <1>1, <1>2, <2>1, <3>1
  <2>3. \A v, w \in 1..Len(stamps') : v <= w => stamps'[v] <= stamps'[w]
    <3> SUFFICES ASSUME NEW v \in 1..Len(stamps'), NEW w \in 1..Len(stamps'), v <= w
                 PROVE  stamps'[v] <= stamps'[w]
      OBVIOUS
    <3>1. CASE w = n
      BY <1>2, <2>2, <3>1
    <3>2. CASE w \in 1..Len(stamps)
      <4>1. v \in 1..Len(stamps)
        BY <1>2, <3>2
      <4> QED
        BY <1>2, <3>2, <4>1 DEF Inv, Ordered
    <3> QED
      BY <2>1, <3>1, <3>2
  <2>4. \A i \in 1..Len(wal') : wal'[i].ts <= clock'
    <3>1. \A i \in 1..Len(wal) : wal'[i].ts <= clock'
      <4>1. \A i \in 1..Len(wal) : wal[i].ts <= clock /\ wal[i].ts \in Nat
        BY <1>1, <1>4 DEF Inv, Ordered, Record
      <4> QED
        BY <1>1, <1>5, <4>1
    <3> QED
      BY <1>1, <1>5, <1>8, <3>1
  <2>5. wal'[Len(wal')].state = Len(stamps') /\ wal' # <<>>
    BY <1>2, <1>5
  <2> QED
    BY <2>2, <2>3, <2>4, <2>5 DEF Ordered
<1> QED
  BY <1>14, <1>15, <1>16, <1>17 DEF Inv
LEMMA AppendRestKeeps ==
    ASSUME Inv, AppendRest
    PROVE  Inv'
<1> DEFINE n == Len(wal)
           r == [wal[n] EXCEPT !.end = "line"]
<1>1. /\ wal \in Logs /\ wal # NoCopy /\ wal' = [wal EXCEPT ![Len(wal)].end = "line"]
      /\ UNCHANGED <<stamps, clock>> /\ UNCHANGED archived /\ rec' = Touched({"wal"})
      /\ wal # <<>>
  BY DEF Inv, Typed, AppendRest, Whole, Source
<1>2. /\ wal \in Seq(Record) /\ n \in Nat /\ Consistent(wal) /\ n > 0 /\ n \in 1..n
      /\ \A i \in 1..n : wal[i] \in Record
  BY <1>1, LogFacts DEF Logs
<1>3. r \in Record /\ r.kind = wal[n].kind /\ r.ts = wal[n].ts /\ r.state = wal[n].state /\ r.end = "line"
  BY <1>2 DEF Record
<1>4. wal' = [wal EXCEPT ![n] = r]
  BY <1>1
<1> HIDE DEF r
<1>5. /\ wal' \in Seq(Record) /\ Len(wal') = n
      /\ \A i \in 1..n : wal'[i] = IF i = n THEN r ELSE wal[i]
  BY <1>2, <1>3, <1>4, ExceptSeq
<1> HIDE DEF n
<1>6. \A i \in 1..n : /\ wal'[i].kind = wal[i].kind /\ wal'[i].ts = wal[i].ts /\ wal'[i].state = wal[i].state
                      /\ i < n => wal'[i].end = wal[i].end
  BY <1>3, <1>5
<1>7. n = Len(wal) /\ 1 \in 1..n
  BY <1>2 DEF n
<1>8. wal' # <<>>
  BY <1>2, <1>5, EmptySeq
<1>9. Consistent(wal)'
  BY <1>1, <1>2, <1>5, <1>6, <1>7 DEF Consistent
<1>10. Logs' = Logs
  BY <1>1 DEF Logs, Consistent
<1>11. wal' \in Logs'
  BY <1>5, <1>9 DEF Logs
<1>12. Verified' /\ rec' \in [Recoverers -> Recoveries]
  <2>1. target' = target
    BY <1>1 DEF archived
  <2> QED
    BY <1>1, <1>10, <2>1, WritesAreTold DEF Inv
<1>13. stamps' \in Seq(Nat) /\ clock' \in Nat
  BY <1>1 DEF Inv, Typed
<1>14. Typed' /\ Stored'
  BY <1>1, <1>10, <1>11, <1>12, <1>13, ProgramTyped, StoredKept DEF Inv
<1>15. Ordered'
  <2>1. \A i \in 1..n : wal'[i].ts <= clock
    BY <1>1, <1>6, <1>7 DEF Inv, Ordered
  <2>2. wal'[n].state = Len(stamps)
    BY <1>1, <1>2, <1>6, <1>7 DEF Inv, Ordered
  <2> QED
    BY <1>1, <1>5, <1>8, <2>1, <2>2 DEF Inv, Ordered
<1> QED
  BY <1>12, <1>14, <1>15 DEF Inv

LEMMA CheckpointKeeps ==
    ASSUME Inv, Checkpoint
    PROVE  Inv'
<1> DEFINE r == [kind |-> "checkpoint", ts |-> clock', state |-> Len(stamps), end |-> "line"]
<1>1. /\ wal \in Logs /\ wal # NoCopy /\ wal # <<>> /\ wal' = <<r>>
      /\ clock \in Nat /\ clock' \in Nat /\ clock <= clock' /\ stamps \in Seq(Nat)
      /\ UNCHANGED <<stamps>> /\ UNCHANGED archived /\ rec' = Touched({"wal"})
  BY TimeAssumption DEF Inv, Typed, Checkpoint
<1>2. Len(stamps) \in Nat /\ \A w \in 1..Len(stamps) : stamps[w] \in Nat
  BY <1>1, LenProperties, ElementOfSeq
<1>3. Len(stamps) \in 1..Len(stamps)
  <2>1. Len(wal) \in 1..Len(wal)
    BY <1>1, LogFacts
  <2>2. wal[Len(wal)].state \in 1..Len(stamps)
    BY <1>1, <2>1 DEF Logs, Consistent
  <2> QED
    BY <1>1, <2>2 DEF Inv, Ordered
<1>4. r \in Record
  BY <1>1, <1>2 DEF Record
<1> HIDE DEF r
<1>5. wal' \in Seq(Record) /\ Len(wal') = 1 /\ wal'[1] = r /\ wal' # <<>>
  BY <1>1, <1>4
<1>6. r.kind = "checkpoint" /\ r.ts = clock' /\ r.state = Len(stamps) /\ r.end = "line"
  BY DEF r
<1>7. stamps[Len(stamps)] <= clock'
  BY <1>1, <1>2, <1>3 DEF Inv, Ordered
<1>8. \A i \in 1..Len(wal') : i = 1
  BY <1>5
<1>9. Consistent(wal)'
  BY <1>1, <1>2, <1>3, <1>5, <1>6, <1>7, <1>8 DEF Consistent
<1>10. Logs' = Logs
  BY <1>1 DEF Logs, Consistent
<1>11. wal' \in Logs'
  BY <1>5, <1>9 DEF Logs
<1>12. Verified' /\ rec' \in [Recoverers -> Recoveries]
  <2>1. target' = target
    BY <1>1 DEF archived
  <2> QED
    BY <1>1, <1>10, <2>1, WritesAreTold DEF Inv
<1>13. Typed' /\ Stored'
  BY <1>1, <1>10, <1>11, <1>12, ProgramTyped, StoredKept DEF Inv
<1>14. Ordered'
  <2>1. \A w \in 1..Len(stamps) : stamps[w] <= clock'
    BY <1>1, <1>2 DEF Inv, Ordered
  <2>2. \A i \in 1..Len(wal') : wal'[i].ts <= clock'
    BY <1>1, <1>5, <1>6, <1>8
  <2> QED
    BY <1>1, <1>5, <1>6, <2>1, <2>2 DEF Inv, Ordered
<1> QED
  BY <1>12, <1>13, <1>14 DEF Inv

LEMMA LoseSourceKeeps ==
    ASSUME Inv, LoseSource
    PROVE  Inv'
<1>1. /\ wal' = NoCopy /\ UNCHANGED <<stamps, clock>> /\ UNCHANGED archived /\ rec' = Touched({"wal"})
      /\ stamps' \in Seq(Nat) /\ clock' \in Nat
  BY DEF Inv, Typed, LoseSource
<1>2. Logs' = Logs
  BY <1>1 DEF Logs, Consistent
<1>3. Verified' /\ rec' \in [Recoverers -> Recoveries]
  <2>1. target' = target
    BY <1>1 DEF archived
  <2> QED
    BY <1>1, <1>2, <2>1, WritesAreTold DEF Inv
<1>4. Typed' /\ Stored'
  BY <1>1, <1>2, <1>3, ProgramTyped, StoredKept DEF Inv
<1>5. Ordered'
  BY <1>1 DEF Inv, Ordered
<1> QED
  BY <1>3, <1>4, <1>5 DEF Inv

(***************************************************************************)
(* The archive command's steps, which leave the program alone.             *)
(***************************************************************************)

LEMMA SameOrder ==
    ASSUME Ordered, UNCHANGED program
    PROVE  Ordered'
BY DEF Ordered, program

\* A step of the archive command need only show what it does to the manifest, the
\* target, the requests and the command.
LEMMA CommandTyped ==
    ASSUME Typed, UNCHANGED program,
           manifest' \in Manifest \cup {NoCopy},
           target' \in [{"file", "http"} -> [wal : Logs \cup {NoCopy}, manifest : Manifest \cup {NoCopy}]],
           flight' \subseteq Requests, arch' \in Commands, rec' \in [Recoverers -> Recoveries]
    PROVE  Typed'
<1>1. UNCHANGED <<wal, stamps, clock>>
  BY DEF program
<1> QED
  BY <1>1, SameLogs DEF Typed

LEMMA NotRunningType == NotRunning \in Commands /\ NotRunning.pc = "none"
BY EmptyLog DEF NotRunning, Commands

LEMMA ArchiveKeeps ==
    ASSUME Inv, NEW kind \in Kinds, Archive(kind)
    PROVE  Inv'
<1>1. /\ wal \in Logs /\ arch' = [NotRunning EXCEPT !.pc = "manifest", !.kind = kind, !.wal = wal]
      /\ UNCHANGED <<program, manifest, target, flight, rec>>
  BY DEF Inv, Typed, Archive
<1>2. arch' \in Commands /\ arch'.pc = "manifest"
  BY <1>1, NotRunningType, KindsAssumption DEF Commands
<1>3. Typed'
  BY <1>1, <1>2, CommandTyped DEF Inv, Typed
<1>4. Stored'
  BY <1>2 DEF Stored
<1>5. Verified' /\ Ordered'
  BY <1>1, FilesAreKept, SameOrder DEF Inv, program
<1> QED
  BY <1>3, <1>4, <1>5 DEF Inv

LEMMA WriteManifestKeeps ==
    ASSUME Inv, WriteManifest
    PROVE  Inv'
<1>1. /\ arch \in Commands /\ arch.pc = "manifest"
      /\ manifest' = [wal |-> arch.wal, target |-> arch.kind]
      /\ arch' = [arch EXCEPT !.pc = CASE arch.kind = "none" -> "done"
                                       [] arch.kind = "file" -> "copy_wal"
                                       [] arch.kind = "http" -> "read_wal"]
      /\ UNCHANGED <<program, target, flight, archives, rec>>
  BY DEF Inv, Typed, WriteManifest
<1>2. manifest' \in Manifest /\ manifest'.wal = arch.wal /\ manifest'.target = arch.kind
  BY <1>1 DEF Commands, Manifest
<1>3. /\ arch' \in Commands /\ arch'.wal = arch.wal /\ arch'.kind = arch.kind
      /\ <<arch'.kind, arch'.pc>> \in {<<"none", "done">>, <<"file", "copy_wal">>, <<"http", "read_wal">>}
  BY <1>1 DEF Commands
<1>4. Typed'
  BY <1>1, <1>2, <1>3, CommandTyped DEF Inv, Typed
<1>5. Stored'
  <2>1. Manifest' = Manifest
    BY <1>1, SameLogs DEF program
  <2> QED
    BY <1>2, <1>3, <2>1 DEF Stored
<1>6. Verified' /\ Ordered'
  BY <1>1, FilesAreKept, SameOrder DEF Inv, program
<1> QED
  BY <1>4, <1>5, <1>6 DEF Inv
LEMMA CopyWalKeeps ==
    ASSUME Inv, CopyWal
    PROVE  Inv'
<1>1. /\ arch \in Commands /\ arch.pc = "copy_wal" /\ wal \in Logs
      /\ target' = [target EXCEPT !["file"].wal = wal]
      /\ arch' = [arch EXCEPT !.pc = "copy_manifest", !.body = wal]
      /\ rec' = Touched({"target"})
      /\ UNCHANGED <<program, manifest, flight, archives>>
      /\ target \in [{"file", "http"} -> [wal : Logs \cup {NoCopy}, manifest : Manifest \cup {NoCopy}]]
  BY DEF Inv, Typed, CopyWal
<1>2. /\ target' \in [{"file", "http"} -> [wal : Logs \cup {NoCopy}, manifest : Manifest \cup {NoCopy}]]
      /\ target'["file"].wal = wal
  BY <1>1
<1>3. /\ arch' \in Commands /\ arch'.pc = "copy_manifest" /\ arch'.body = wal
      /\ arch'.wal = arch.wal /\ arch'.kind = arch.kind
  BY <1>1 DEF Commands
<1>4. Verified' /\ rec' \in [Recoverers -> Recoveries]
  <2>1. wal' = wal /\ Logs' = Logs
    BY <1>1, SameLogs DEF program
  <2> QED
    BY <1>1, <1>2, <2>1, WritesAreTold DEF Inv
<1>5. Typed'
  BY <1>1, <1>2, <1>3, <1>4, CommandTyped DEF Inv, Typed
<1>6. Stored'
  <2>1. Manifest' = Manifest
    BY <1>1, SameLogs DEF program
  <2> QED
    BY <1>1, <1>2, <1>3, <2>1 DEF Inv, Stored
<1>7. Ordered'
  BY <1>1, SameOrder DEF Inv
<1> QED
  BY <1>4, <1>5, <1>6, <1>7 DEF Inv

LEMMA CopyManifestKeeps ==
    ASSUME Inv, CopyManifest
    PROVE  Inv'
<1>1. /\ arch \in Commands /\ arch.pc = "copy_manifest" /\ manifest \in Manifest \cup {NoCopy}
      /\ target' = [target EXCEPT !["file"].manifest = manifest]
      /\ arch' = [arch EXCEPT !.pc = "done"]
      /\ UNCHANGED <<program, manifest, flight, archives, rec>>
      /\ target \in [{"file", "http"} -> [wal : Logs \cup {NoCopy}, manifest : Manifest \cup {NoCopy}]]
  BY DEF Inv, Typed, CopyManifest
<1>2. /\ target' \in [{"file", "http"} -> [wal : Logs \cup {NoCopy}, manifest : Manifest \cup {NoCopy}]]
      /\ target'["file"] = [wal |-> target["file"].wal, manifest |-> manifest]
  BY <1>1
<1>3. /\ arch' \in Commands /\ arch'.pc = "done" /\ arch'.body = arch.body
      /\ arch'.wal = arch.wal /\ arch'.kind = arch.kind
  BY <1>1 DEF Commands
<1>4. Typed'
  BY <1>1, <1>2, <1>3, CommandTyped DEF Inv, Typed
<1>5. Stored'
  <2>1. Manifest' = Manifest
    BY <1>1, SameLogs DEF program
  <2> QED
    BY <1>1, <1>2, <1>3, <2>1 DEF Inv, Stored
<1>6. Verified' /\ Ordered'
  BY <1>1, <1>2, FilesAreKept, SameOrder DEF Inv, program
<1> QED
  BY <1>4, <1>5, <1>6 DEF Inv

LEMMA AbortKeeps ==
    ASSUME Inv, AbortArchive
    PROVE  Inv'
<1> DEFINE Targets == [{"file", "http"} -> [wal : Logs \cup {NoCopy}, manifest : Manifest \cup {NoCopy}]]
<1>1. /\ arch' = NotRunning /\ UNCHANGED <<program, manifest, flight, archives>> /\ target \in Targets
      /\ wal' = wal /\ Logs' = Logs
  BY SameLogs DEF Inv, Typed, AbortArchive, program
<1>2. target' \in Targets /\ Verified' /\ rec' \in [Recoverers -> Recoveries]
  <2>1. CASE target' = target /\ rec' = rec
    BY <1>1, <2>1, FilesAreKept DEF Inv, Typed
  <2>2. CASE target' = [target EXCEPT !["file"].manifest = NoCopy] /\ rec' = rec
    <3>1. target' \in Targets /\ target'["file"].wal = target["file"].wal
      BY <1>1, <2>2
    <3> QED
      BY <1>1, <2>2, <3>1, FilesAreKept DEF Inv, Typed
  <2>3. CASE /\ wal # NoCopy /\ rec' = Touched({"target"})
             /\ \E part \in Torn(wal) : target' = [target EXCEPT !["file"].wal = part]
    <3>1. PICK part \in Torn(wal) : target' = [target EXCEPT !["file"].wal = part]
      BY <2>3
    <3>2. part \in Logs
      BY <2>3, TornLogs DEF Inv, Typed
    <3>3. target' \in Targets /\ target'["file"].wal \in Logs
      BY <1>1, <3>1, <3>2
    <3>4. Verified' /\ rec' \in [Recoverers -> Recoveries]
      BY <1>1, <2>3, <3>3, WritesAreTold DEF Inv
    <3> QED
      BY <3>3, <3>4
  <2> QED
    BY <2>1, <2>2, <2>3 DEF AbortArchive
<1>3. Typed'
  BY <1>1, <1>2, NotRunningType, CommandTyped DEF Inv, Typed
<1>4. Stored'
  BY <1>1, NotRunningType DEF Stored
<1>5. Ordered'
  BY <1>1, SameOrder DEF Inv
<1> QED
  BY <1>2, <1>3, <1>4, <1>5 DEF Inv

LEMMA ReadWalKeeps ==
    ASSUME Inv, ReadWal
    PROVE  Inv'
<1>1. /\ arch \in Commands /\ arch.pc = "read_wal" /\ wal \in Logs
      /\ arch' = [arch EXCEPT !.pc = "send_wal", !.body = wal, !.attempt = 1]
      /\ UNCHANGED <<program, manifest, target, flight, archives, rec>>
  BY DEF Inv, Typed, ReadWal
<1>2. /\ arch' \in Commands /\ arch'.pc = "send_wal" /\ arch'.wal = arch.wal /\ arch'.kind = arch.kind
  BY <1>1 DEF Commands
<1>3. Typed'
  BY <1>1, <1>2, CommandTyped DEF Inv, Typed
<1>4. Stored'
  <2>1. Manifest' = Manifest
    BY <1>1, SameLogs DEF program
  <2> QED
    BY <1>1, <1>2, <2>1 DEF Inv, Stored
<1>5. Verified' /\ Ordered'
  BY <1>1, FilesAreKept, SameOrder DEF Inv, program
<1> QED
  BY <1>3, <1>4, <1>5 DEF Inv

\* A request of the command, while it sends.
LEMMA RequestType ==
    ASSUME Inv, Running, Sending
    PROVE  /\ arch.pc \in {"send_wal", "send_manifest"} /\ arch.kind = "http" /\ arch \in Commands
           /\ Request \in Requests
           /\ Request.file = "wal" <=> arch.pc = "send_wal"
           /\ Request.file = "wal" => Request.body = arch.body
           /\ Request.file = "manifest" => Request.body = manifest
<1>1. arch.pc \in {"send_wal", "send_manifest"} /\ arch \in Commands
  BY DEF Running, Sending, Ended, Inv, Typed
<1>2. arch.kind = "http" /\ manifest \in Manifest
  BY <1>1 DEF Inv, Stored
<1>3. Request = [file |-> "wal", body |-> arch.body] \/ Request = [file |-> "manifest", body |-> manifest]
  BY DEF Request
<1>4. CASE arch.pc = "send_wal"
  BY <1>1, <1>2, <1>4 DEF Request, Requests, Commands
<1>5. CASE arch.pc = "send_manifest"
  BY <1>1, <1>2, <1>5 DEF Request, Requests
<1> QED
  BY <1>1, <1>2, <1>4, <1>5

\* A request lands at the server.
LEMMA LandedTarget ==
    ASSUME Typed, NEW r \in Requests, target' = [target EXCEPT !["http"][r.file] = r.body]
    PROVE  /\ target' \in [{"file", "http"} -> [wal : Logs \cup {NoCopy}, manifest : Manifest \cup {NoCopy}]]
           /\ target'["file"] = target["file"]
           /\ r.file \in {"wal", "manifest"}
           /\ r.file = "wal" => target'["http"] = [wal |-> r.body, manifest |-> target["http"].manifest]
           /\ r.file = "manifest" => target'["http"] = [wal |-> target["http"].wal, manifest |-> r.body]
<1>1. target \in [{"file", "http"} -> [wal : Logs \cup {NoCopy}, manifest : Manifest \cup {NoCopy}]]
  BY DEF Typed
<1>2. CASE r.file = "wal"
  <2>1. r.body \in Logs
    BY <1>2 DEF Requests
  <2>2. target' = [target EXCEPT !["http"].wal = r.body]
    BY <1>2
  <2> QED
    BY <1>1, <1>2, <2>1, <2>2
<1>3. CASE r.file = "manifest"
  <2>1. r.body \in Manifest
    BY <1>3 DEF Requests
  <2>2. target' = [target EXCEPT !["http"].manifest = r.body]
    BY <1>3
  <2> QED
    BY <1>1, <1>3, <2>1, <2>2
<1>4. r.file \in {"wal", "manifest"}
  BY DEF Requests
<1> QED
  BY <1>2, <1>3, <1>4

LEMMA SentKeeps ==
    ASSUME Inv, Running, Sent
    PROVE  Inv'
<1>1. /\ arch.pc \in {"send_wal", "send_manifest"} /\ arch.kind = "http" /\ arch \in Commands
      /\ Request \in Requests
      /\ Request.file = "wal" <=> arch.pc = "send_wal"
      /\ Request.file = "wal" => Request.body = arch.body
      /\ Request.file = "manifest" => Request.body = manifest
  BY RequestType DEF Sent
<1>2. /\ target' = [target EXCEPT !["http"][Request.file] = Request.body]
      /\ arch' = [arch EXCEPT !.pc = IF @ = "send_wal" THEN "send_manifest" ELSE "done", !.attempt = 1]
      /\ UNCHANGED <<program, manifest, flight, archives, rec>>
  BY DEF Sent
<1> HIDE DEF Request
<1>3. /\ target' \in [{"file", "http"} -> [wal : Logs \cup {NoCopy}, manifest : Manifest \cup {NoCopy}]]
      /\ target'["file"] = target["file"]
      /\ Request.file \in {"wal", "manifest"}
      /\ Request.file = "wal" => target'["http"] = [wal |-> Request.body, manifest |-> target["http"].manifest]
      /\ Request.file = "manifest" => target'["http"] = [wal |-> target["http"].wal, manifest |-> Request.body]
  BY <1>1, <1>2, LandedTarget DEF Inv
<1>4. /\ arch' \in Commands /\ arch'.wal = arch.wal /\ arch'.kind = arch.kind /\ arch'.body = arch.body
      /\ arch'.late = arch.late
      /\ arch'.pc = IF arch.pc = "send_wal" THEN "send_manifest" ELSE "done"
  BY <1>1, <1>2 DEF Commands
<1>5. Typed'
  BY <1>2, <1>3, <1>4, CommandTyped DEF Inv, Typed
<1>6. Stored'
  <2>1. Manifest' = Manifest /\ manifest' = manifest
    BY <1>2, SameLogs DEF program
  <2>2. manifest \in Manifest /\ manifest.wal = arch.wal /\ manifest.target = arch.kind
    BY <1>1 DEF Inv, Stored
  <2>3. CASE arch.pc = "send_wal"
    <3>1. target'["http"].wal = arch.body
      BY <1>1, <1>3, <2>3
    <3> QED
      BY <1>1, <1>4, <2>1, <2>2, <2>3, <3>1 DEF Stored
  <2>4. CASE arch.pc = "send_manifest"
    <3>1. ~arch.late => target["http"].wal = arch.body
      BY <2>4 DEF Inv, Stored
    <3>2. ~arch.late => target'["http"] = [wal |-> arch.body, manifest |-> manifest]
      BY <1>1, <1>3, <2>4, <3>1
    <3> QED
      BY <1>1, <1>4, <2>1, <2>2, <2>4, <3>2 DEF Stored
  <2> QED
    BY <1>1, <2>3, <2>4
<1>7. Verified' /\ Ordered'
  BY <1>2, <1>3, FilesAreKept, SameOrder DEF Inv, program
<1> QED
  BY <1>5, <1>6, <1>7 DEF Inv

LEMMA LostKeeps ==
    ASSUME Inv, Running, Lost
    PROVE  Inv'
<1>1. /\ arch.pc \in {"send_wal", "send_manifest"} /\ arch \in Commands /\ Request \in Requests
  BY RequestType DEF Lost
<1>2. /\ flight' = flight \/ flight' = flight \cup {Request}
      /\ arch' = [arch EXCEPT !.attempt = @ + 1] \/ arch' = NotRunning
      /\ UNCHANGED <<program, manifest, target, archives, rec>>
  BY DEF Lost
<1>3. flight' \subseteq Requests
  BY <1>1, <1>2 DEF Inv, Typed
<1>4. arch' \in Commands
  BY <1>1, <1>2, NotRunningType DEF Commands
<1>5. Typed'
  BY <1>2, <1>3, <1>4, CommandTyped DEF Inv, Typed
<1>6. Stored'
  <2>1. Manifest' = Manifest
    BY <1>2, SameLogs DEF program
  <2>2. CASE arch' = NotRunning
    BY <2>2, NotRunningType DEF Stored
  <2>3. CASE arch' = [arch EXCEPT !.attempt = @ + 1]
    <3>1. /\ arch'.pc = arch.pc /\ arch'.wal = arch.wal /\ arch'.kind = arch.kind
          /\ arch'.body = arch.body /\ arch'.late = arch.late
      BY <1>1, <2>3 DEF Commands
    <3> QED
      BY <1>2, <2>1, <3>1 DEF Inv, Stored
  <2> QED
    BY <1>2, <2>2, <2>3
<1>7. Verified' /\ Ordered'
  BY <1>2, FilesAreKept, SameOrder DEF Inv, program
<1> QED
  BY <1>5, <1>6, <1>7 DEF Inv

LEMMA DeniedKeeps ==
    ASSUME Inv, Denied
    PROVE  Inv'
<1>1. arch' = NotRunning /\ UNCHANGED <<program, manifest, target, flight, archives, rec>>
  BY DEF Denied
<1>2. Typed'
  BY <1>1, NotRunningType, CommandTyped DEF Inv, Typed
<1>3. Stored'
  BY <1>1, NotRunningType DEF Stored
<1>4. Verified' /\ Ordered'
  BY <1>1, FilesAreKept, SameOrder DEF Inv, program
<1> QED
  BY <1>2, <1>3, <1>4 DEF Inv

LEMMA LandKeeps ==
    ASSUME Inv, Running, NEW r \in flight, Land(r)
    PROVE  Inv'
<1>1. r \in Requests /\ arch \in Commands /\ arch.pc # "done"
  BY DEF Inv, Typed, Running, Ended
<1>2. /\ flight' = flight \ {r} /\ target' = [target EXCEPT !["http"][r.file] = r.body]
      /\ arch' = [arch EXCEPT !.late = @ \/ r.body # (IF r.file = "wal" THEN arch.body ELSE manifest)]
      /\ UNCHANGED <<program, manifest, archives, rec>>
  BY DEF Land
<1>3. /\ target' \in [{"file", "http"} -> [wal : Logs \cup {NoCopy}, manifest : Manifest \cup {NoCopy}]]
      /\ target'["file"] = target["file"]
      /\ r.file \in {"wal", "manifest"}
      /\ r.file = "wal" => target'["http"] = [wal |-> r.body, manifest |-> target["http"].manifest]
      /\ r.file = "manifest" => target'["http"] = [wal |-> target["http"].wal, manifest |-> r.body]
  BY <1>1, <1>2, LandedTarget DEF Inv
<1>4. /\ arch' \in Commands /\ arch'.pc = arch.pc /\ arch'.wal = arch.wal /\ arch'.kind = arch.kind
      /\ arch'.body = arch.body
      /\ ~arch'.late => ~arch.late /\ (r.file = "wal" => r.body = arch.body)
  BY <1>1, <1>2 DEF Commands
<1>5. flight' \subseteq Requests
  BY <1>2 DEF Inv, Typed
<1>6. Typed'
  BY <1>2, <1>3, <1>4, <1>5, CommandTyped DEF Inv, Typed
<1>7. Stored'
  <2>1. Manifest' = Manifest /\ manifest' = manifest
    BY <1>2, SameLogs DEF program
  <2>2. ASSUME arch.pc = "send_manifest", ~arch'.late PROVE target'["http"].wal = arch.body
    <3>1. target["http"].wal = arch.body
      BY <1>4, <2>2 DEF Inv, Stored
    <3> QED
      BY <1>3, <1>4, <2>2, <3>1
  <2> QED
    BY <1>1, <1>3, <1>4, <2>1, <2>2 DEF Inv, Stored
<1>8. Verified' /\ Ordered'
  BY <1>2, <1>3, FilesAreKept, SameOrder DEF Inv, program
<1> QED
  BY <1>6, <1>7, <1>8 DEF Inv
(***************************************************************************)
(* The recover commands' steps, which change nothing but the command.      *)
(***************************************************************************)

LEMMA NotStartedType ==
    /\ NotStarted \in Recoveries /\ NotStarted.pc = "none" /\ ~NotStarted.touched
    /\ Limits \subseteq Limit
<1>1. NotStarted \in Recoveries /\ NotStarted.pc = "none" /\ ~NotStarted.touched
  BY EmptyLog DEF NotStarted, Recoveries, Limit
<1>2. Limits \subseteq Limit
  BY TimeAssumption DEF Limits, Limit
<1> QED
  BY <1>1, <1>2

\* What a recover command says of its file, in the files as they are.
Sound(c) ==
    /\ c.pc = "fill" => c.path = "cache"
    /\ c.pc = "load" => c.path # "none"
    /\ c.pc = "load" /\ c.path = "target" => target["file"].wal \in Logs
    /\ c.pc = "load" /\ ~c.touched =>
         /\ c.path = "wal" => wal # NoCopy /\ wal = c.wal
         /\ c.path = "target" => target["file"].wal = c.wal
    /\ c.pc = "done" /\ ~c.touched => c.loaded = Load(c.wal, c.limit)

LEMMA CommandKeeps ==
    ASSUME Inv, UNCHANGED <<program, archived>>, NEW p \in Recoverers, NEW c \in Recoveries, Sound(c),
           rec' = [rec EXCEPT ![p] = c]
    PROVE  Inv'
<1>1. UNCHANGED <<wal, stamps, clock, target, manifest, flight, arch>>
  BY DEF program, archived
<1>2. rec' \in [Recoverers -> Recoveries]
  BY DEF Inv, Typed
<1>3. Typed'
  BY <1>1, <1>2, CommandTyped DEF Inv, Typed
<1>4. \A q \in Recoverers : rec'[q] = IF q = p THEN c ELSE rec[q]
  BY DEF Inv, Typed
<1>5. Manifest' = Manifest /\ Logs' = Logs
  BY <1>1, SameLogs
<1>6. Verified'
  BY <1>1, <1>4, <1>5 DEF Inv, Verified, Sound
<1>7. Stored' /\ Ordered'
  BY <1>1, <1>5 DEF Inv, Stored, Ordered
<1> QED
  BY <1>3, <1>6, <1>7 DEF Inv

LEMMA RecoverWalKeeps ==
    ASSUME Inv, NEW p \in Recoverers, NEW limit \in Limits, RecoverWal(p, limit)
    PROVE  Inv'
<1> DEFINE c == [NotStarted EXCEPT !.pc = "done", !.limit = limit, !.wal = Source, !.loaded = Load(Source, limit)]
<1>1. rec' = [rec EXCEPT ![p] = c] /\ UNCHANGED <<program, archived>>
  BY DEF RecoverWal
<1>2. Source \in Logs
  BY EmptyLog DEF Source, Inv, Typed
<1>3. limit \in Limit /\ Load(Source, limit) \in Nat
  BY <1>2, NotStartedType, LoadType
<1>4. c \in Recoveries /\ c.pc = "done" /\ c.limit = limit /\ c.wal = Source /\ c.loaded = Load(Source, limit)
  BY <1>2, <1>3, NotStartedType DEF Recoveries
<1> HIDE DEF c
<1>5. Sound(c)
  BY <1>4 DEF Sound
<1> QED
  BY <1>1, <1>4, <1>5, CommandKeeps

LEMMA RecoverKeeps ==
    ASSUME Inv, NEW p \in Recoverers, NEW m \in Manifests, Recover(p, m)
    PROVE  Inv'
<1>1. m \in Manifest /\ UNCHANGED <<program, archived>>
  <2>1. m # NoCopy /\ UNCHANGED <<program, archived>>
    BY DEF Recover
  <2>2. m = manifest \/ m = target["file"].manifest \/ m = target["http"].manifest
    BY DEF Manifests, Inv, Typed
  <2> QED
    BY <2>1, <2>2 DEF Inv, Typed
<1>2. m.wal \in Logs
  BY <1>1 DEF Manifest
<1> DEFINE C(pc, path) == [NotStarted EXCEPT !.pc = pc, !.path = path, !.wal = m.wal]
<1>3. \/ \E path \in {"wal", "target", "cache"} : rec' = [rec EXCEPT ![p] = C("refused", path)]
      \/ rec' = [rec EXCEPT ![p] = C("load", "target")] /\ Verify(m, target["file"].wal)
      \/ rec' = [rec EXCEPT ![p] = C("load", "wal")] /\ Verify(m, wal)
      \/ rec' = [rec EXCEPT ![p] = C("fill", "cache")]
  BY DEF Recover
<1>4. ASSUME NEW pc \in {"refused", "load", "fill"}, NEW path \in {"wal", "target", "cache"}
      PROVE  /\ C(pc, path) \in Recoveries
             /\ C(pc, path).pc = pc /\ C(pc, path).path = path /\ C(pc, path).wal = m.wal
  BY <1>2, NotStartedType DEF Recoveries
<1> HIDE DEF C
<1>5. \A path \in {"wal", "target", "cache"} : Sound(C("refused", path))
  BY <1>4 DEF Sound
<1>6. Sound(C("fill", "cache"))
  BY <1>4 DEF Sound
<1>7. Verify(m, target["file"].wal) => Sound(C("load", "target"))
  BY <1>2, <1>4 DEF Sound, Verify
<1>8. Verify(m, wal) => Sound(C("load", "wal"))
  BY <1>4 DEF Sound, Verify
<1>9. \E c \in Recoveries : rec' = [rec EXCEPT ![p] = c] /\ Sound(c)
  BY <1>3, <1>4, <1>5, <1>6, <1>7, <1>8
<1> QED
  BY <1>1, <1>9, CommandKeeps

LEMMA CacheFilledKeeps ==
    ASSUME Inv, NEW p \in Recoverers, CacheFilled(p)
    PROVE  Inv'
<1> DEFINE c == [rec[p] EXCEPT !.pc = "load"]
<1>1. rec[p] \in Recoveries /\ rec[p].path = "cache"
  BY DEF Inv, Typed, Verified, CacheFilled
<1>2. rec' = [rec EXCEPT ![p] = c] /\ UNCHANGED <<program, archived>>
  BY DEF CacheFilled
<1>3. c \in Recoveries /\ c.pc = "load" /\ c.path = "cache"
  BY <1>1 DEF Recoveries
<1> HIDE DEF c
<1>4. Sound(c)
  BY <1>3 DEF Sound
<1> QED
  BY <1>2, <1>3, <1>4, CommandKeeps

\* What is loaded is what was archived, whichever file it is read from.
LEMMA FinishKeeps ==
    ASSUME Inv, NEW p \in Recoverers, NEW limit \in Limits, FinishRecover(p, limit)
    PROVE  Inv'
<1> DEFINE touched == rec[p].touched \/ (rec[p].path = "cache" /\ Filling(p))
           c == [rec[p] EXCEPT !.pc = "done", !.limit = limit, !.loaded = Load(FileAt(p), limit), !.touched = touched]
<1>1. rec[p] \in Recoveries /\ rec[p].pc = "load" /\ rec[p].path \in {"wal", "target", "cache"}
  BY DEF Inv, Typed, Verified, FinishRecover, Recoveries
<1>2. rec' = [rec EXCEPT ![p] = c] /\ UNCHANGED <<program, archived>>
  BY DEF FinishRecover, Inv, Typed
<1>3. touched \in BOOLEAN
  OBVIOUS
<1>4. ~touched => FileAt(p) = rec[p].wal
  <2> SUFFICES ASSUME ~touched PROVE FileAt(p) = rec[p].wal
    OBVIOUS
  <2>1. CASE rec[p].path = "wal"
    BY <1>1, <2>1 DEF FileAt, Source, Inv, Verified
  <2>2. CASE rec[p].path = "target"
    BY <1>1, <2>2 DEF FileAt, Inv, Verified
  <2>3. CASE rec[p].path = "cache"
    BY <1>1, <2>3 DEF FileAt
  <2> QED
    BY <1>1, <2>1, <2>2, <2>3
<1>5. FileAt(p) \in Logs
  <2>1. CASE rec[p].path = "wal"
    BY <1>1, <2>1, EmptyLog DEF FileAt, Source, Inv, Typed
  <2>2. CASE rec[p].path = "target"
    BY <1>1, <2>2 DEF FileAt, Inv, Verified
  <2>3. CASE rec[p].path = "cache"
    BY <1>1, <2>3, EmptyLog DEF FileAt, Recoveries
  <2> QED
    BY <1>1, <2>1, <2>2, <2>3
<1>6. limit \in Limit /\ Load(FileAt(p), limit) \in Nat
  BY <1>5, NotStartedType, LoadType
<1> HIDE DEF touched
<1>7. /\ c \in Recoveries /\ c.pc = "done" /\ c.limit = limit /\ c.wal = rec[p].wal
      /\ c.touched = touched /\ c.loaded = Load(FileAt(p), limit)
  BY <1>1, <1>3, <1>6 DEF Recoveries
<1> HIDE DEF c
<1>8. Sound(c)
  BY <1>4, <1>7 DEF Sound
<1> QED
  BY <1>2, <1>7, <1>8, CommandKeeps

(***************************************************************************)
(* The invariant, and what follows from it.                                *)
(***************************************************************************)

LEMMA ExitKeeps ==
    ASSUME Inv, Exit
    PROVE  Inv'
<1>1. /\ arch' = NotRunning \/ arch' = arch
      /\ rec' = [p \in Recoverers |-> IF Ended(rec[p].pc) THEN NotStarted ELSE rec[p]]
      /\ UNCHANGED <<program, manifest, target, flight, archives>>
  BY DEF Exit
<1>2. Manifest' = Manifest /\ Logs' = Logs /\ UNCHANGED <<wal, stamps, clock>>
  BY <1>1, SameLogs DEF program
<1>3. rec' \in [Recoverers -> Recoveries] /\ arch' \in Commands
  BY <1>1, NotStartedType, NotRunningType DEF Inv, Typed
<1>4. Typed'
  BY <1>1, <1>3, CommandTyped DEF Inv, Typed
<1>5. Verified'
  <2>1. \A p \in Recoverers : rec'[p].pc = "none" \/ rec'[p] = rec[p]
    BY <1>1, NotStartedType
  <2> QED
    BY <1>1, <1>2, <2>1 DEF Inv, Verified
<1>6. Stored'
  <2>1. CASE arch' = NotRunning
    BY <2>1, NotRunningType DEF Stored
  <2>2. CASE arch' = arch
    BY <1>1, <1>2, <2>2 DEF Inv, Stored
  <2> QED
    BY <1>1, <2>1, <2>2
<1>7. Ordered'
  BY <1>1, SameOrder DEF Inv
<1> QED
  BY <1>4, <1>5, <1>6, <1>7 DEF Inv

LEMMA InvInit == ArchiveInit => Inv
<1> SUFFICES ASSUME ArchiveInit PROVE Inv
  OBVIOUS
<1>1. Typed
  BY EmptyLog, EmptySeq, NotRunningType, NotStartedType DEF ArchiveInit, Typed
<1>2. Len(stamps) = 0 /\ Len(wal) = 0
  BY EmptySeq DEF ArchiveInit
<1>3. Ordered
  BY <1>2 DEF ArchiveInit, Ordered
<1>4. Stored
  BY NotRunningType DEF ArchiveInit, Stored
<1>5. Verified
  BY NotStartedType DEF ArchiveInit, Verified
<1> QED
  BY <1>1, <1>3, <1>4, <1>5 DEF Inv

LEMMA InvNext == Inv /\ [ArchiveNext]_archiveVars => Inv'
<1> SUFFICES ASSUME Inv, [ArchiveNext]_archiveVars PROVE Inv'
  OBVIOUS
<1>1. CASE Running /\ Step
  <2>1. CASE AppendHalf \/ AppendRest \/ Checkpoint \/ LoseSource
    BY <2>1, AppendHalfKeeps, AppendRestKeeps, CheckpointKeeps, LoseSourceKeeps
  <2>2. CASE \E kind \in Kinds : Archive(kind)
    BY <2>2, ArchiveKeeps
  <2>3. CASE ArchiveStep
    BY <1>1, <2>3, WriteManifestKeeps, CopyWalKeeps, CopyManifestKeeps, ReadWalKeeps, SentKeeps, LostKeeps,
       DeniedKeeps DEF ArchiveStep
  <2>4. CASE AbortArchive
    BY <2>4, AbortKeeps
  <2>5. CASE \E r \in flight : Land(r)
    BY <1>1, <2>5, LandKeeps
  <2>6. ASSUME NEW p \in Recoverers, RecoverStep(p) PROVE Inv'
    BY <2>6, RecoverKeeps, CacheFilledKeeps, RecoverWalKeeps, FinishKeeps DEF RecoverStep
  <2> QED
    BY <1>1, <2>1, <2>2, <2>3, <2>4, <2>5, <2>6 DEF Step
<1>2. CASE Exit
  BY <1>2, ExitKeeps
<1>3. CASE UNCHANGED archiveVars
  <2>1. UNCHANGED <<wal, stamps, clock, manifest, target, flight, arch, rec>>
    BY <1>3 DEF archiveVars
  <2>2. Logs' = Logs /\ Manifest' = Manifest /\ Requests' = Requests /\ Commands' = Commands /\ Recoveries' = Recoveries
    BY <2>1, SameLogs
  <2>3. Typed' /\ Ordered'
    BY <2>1, <2>2 DEF Inv, Typed, Ordered
  <2>4. Stored' /\ Verified'
    BY <2>1, <2>2 DEF Inv, Stored, Verified
  <2> QED
    BY <2>3, <2>4 DEF Inv
<1> QED
  BY <1>1, <1>2, <1>3 DEF ArchiveNext

LEMMA InvHolds == ArchiveSpec => []Inv
BY InvInit, InvNext, PTL DEF ArchiveSpec

\* A recovery from an archive, from whatever copy of the log it finds, gives all the
\* writes the archived log had and no other, or refuses (verify_db_archive_wal).
THEOREM RecoveriesAreArchives == ArchiveSpec => []RecoveredIsArchived
<1>1. Inv => RecoveredIsArchived
  <2> SUFFICES ASSUME Inv, NEW p \in Recoverers, rec[p].pc = "done", rec[p].limit.by = "none", ~rec[p].touched
               PROVE  rec[p].loaded = LastWrite(rec[p].wal)
    BY DEF RecoveredIsArchived
  <2>1. rec[p].loaded = Load(rec[p].wal, rec[p].limit)
    BY DEF Inv, Verified
  <2>2. rec[p].wal \in Logs /\ rec[p].limit \in Limit
    BY DEF Inv, Typed, Recoveries
  <2> QED
    BY <2>1, <2>2, LoadWhole
<1> QED
  BY <1>1, InvHolds, PTL

\* A recovery to a point in time (load_wal_until_unix_ms) has none of the writes made
\* after it and, where the log was not compacted after it, every one made by then.
THEOREM RecoveriesAreOfTheirTime == ArchiveSpec => []RecoveredAsOf
<1>1. Inv => RecoveredAsOf
  <2> SUFFICES ASSUME Inv, NEW p \in Recoverers, rec[p].pc = "done", rec[p].limit.by = "time", ~rec[p].touched
               PROVE  LET f    == rec[p].wal
                          made == Cardinality({w \in 1..LastWrite(f) : stamps[w] <= rec[p].limit.n})
                      IN  /\ rec[p].loaded <= made
                          /\ (\A i \in 1..Len(f) : f[i].kind = "checkpoint" => f[i].ts <= rec[p].limit.n) =>
                               rec[p].loaded = made
    BY DEF RecoveredAsOf
  <2>1. rec[p].loaded = Load(rec[p].wal, rec[p].limit)
    BY DEF Inv, Verified
  <2>2. rec[p].wal \in Logs /\ rec[p].limit \in Limit /\ stamps \in Seq(Nat) /\ Ordered
    BY DEF Inv, Typed, Recoveries
  <2> QED
    BY <2>1, <2>2, LoadAsOf
<1> QED
  BY <1>1, InvHolds, PTL

\* An archive command that reports success leaves its log and its manifest at the
\* target, whichever of its requests were lost, sent twice or answered late
\* (db_archive_http_retry).  The property leaves out a log that was written while
\* the command ran, whose copy is not the one the manifest tells, and a request
\* of an earlier command that lands behind its own.
THEOREM SuccessIsStored == ArchiveSpec => []AcknowledgedIsStored
<1>1. Inv => AcknowledgedIsStored
  BY DEF Inv, Stored, AcknowledgedIsStored
<1> QED
  BY <1>1, InvHolds, PTL
=============================================================================
