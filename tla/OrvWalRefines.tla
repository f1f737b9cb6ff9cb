---------------------------- MODULE OrvWalRefines ----------------------------
(***************************************************************************)
(* OrvWal implements DurableDb.  While the program runs, what it sees is   *)
(* its tables; from a crash to the end of the next start it is what the    *)
(* log file replays to.                                                    *)
(***************************************************************************)
EXTENDS OrvWal

\* A running program that reopens its log (db.wal) keeps its tables meanwhile.
Running == \/ pc \in {"idle", "written", "ended", "saving"}
           \/ pc = "replaying" /\ load.live

Readable(f) == (\A i \in 1..Len(f.lines) : f.lines[i] # Garbled) /\ f.tail # Garbled

Replayed(f) ==
    LET db[i \in 0..Len(f.lines)] ==
            IF i = 0 THEN EmptyDb ELSE Apply(db[i - 1], f.lines[i])
    IN  IF f.tail \in {NoTail, Torn} THEN db[Len(f.lines)]
        ELSE Apply(db[Len(f.lines)], f.tail)

\* What the log holds while no program runs.  A log that every start refuses is
\* never shown again: it stands for any of the states a start was owed.
Held == IF Readable(file) THEN Replayed(file) ELSE CHOOSE db \in promise.op : TRUE

Durable == INSTANCE DurableDb WITH
    visible <- IF Running THEN JsonDb(mem) ELSE Held,
    up      <- Running,
    marks   <- {JsonDb(stack[i].tables) : i \in DOMAIN stack}
               \cup {JsonDb(db) : db \in {savept} \ {NoDb}}

\* A crash loses no acknowledged mutation, adds at most the one under way, and
\* a replay changes nothing: the log handle implements the durable database.
ImplementsDurableDb == Durable!Spec
==============================================================================
