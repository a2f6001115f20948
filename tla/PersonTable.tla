------------------------------ MODULE PersonTable ------------------------------
(***************************************************************************)
(* What saving persons promises: a table that only grows, by one person at *)
(* a time, in which a row is never replaced.  Who is told that the saving  *)
(* failed is not in the table, and never will be.                          *)
(***************************************************************************)
EXTENDS Sequences

CONSTANT Persons

VARIABLES
    table,   \* the persons stored, by their identifiers
    failed   \* those told of a failure

vars == <<table, failed>>

Stored == {table[i] : i \in DOMAIN table}

Init == table = <<>> /\ failed = {}

Store(p) ==
    /\ p \notin Stored \cup failed
    /\ table' = Append(table, p)
    /\ UNCHANGED failed

Fail(p) ==
    /\ p \notin Stored
    /\ failed' = failed \cup {p}
    /\ UNCHANGED table

Next == \E p \in Persons : Store(p) \/ Fail(p)

Spec == Init /\ [][Next]_vars
=============================================================================
