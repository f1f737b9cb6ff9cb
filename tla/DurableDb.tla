------------------------------ MODULE DurableDb ------------------------------
(***************************************************************************)
(* What a logged handle promises its program, with no log in sight: one    *)
(* database, mutated one record at a time, that a stop does not take       *)
(* away.  A stop may at most complete the mutation that was under way.     *)
(* marks are the states a savepoint or an open transaction can go back to. *)
(***************************************************************************)
EXTENDS OrvTables

VARIABLES
    visible,  \* the database, as its JSON image
    up,       \* is a program serving from it?
    marks     \* states that can be restored

vars == <<visible, up, marks>>

JsonMutations == {JsonRec(r) : r \in MutationRecs}

Init ==
    /\ visible = EmptyDb
    /\ up = FALSE
    /\ marks = {}

Change ==
    /\ up
    /\ \E r \in JsonMutations : visible' = Apply(visible, r)
    /\ UNCHANGED <<up, marks>>

Mark ==
    /\ up
    /\ marks' \in SUBSET (marks \cup {visible})
    /\ UNCHANGED <<visible, up>>

Restore ==
    /\ up
    /\ visible' \in marks
    /\ marks' \in SUBSET marks
    /\ UNCHANGED up

Start ==
    /\ ~up
    /\ up' = TRUE
    /\ UNCHANGED <<visible, marks>>

Stop ==
    /\ up' = FALSE
    /\ \/ UNCHANGED visible
       \/ up /\ \E r \in JsonMutations : visible' = Apply(visible, r)
    /\ marks' \in SUBSET marks

Next == Change \/ Mark \/ Restore \/ Start \/ Stop

Spec == Init /\ [][Next]_vars
==============================================================================
