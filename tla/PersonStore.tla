------------------------------ MODULE PersonStore ------------------------------
(***************************************************************************)
(* protobuf/save_person.cpp and protobuf/load_person.cpp: runs of both     *)
(* programs on one persons.db.  A saver computes an identifier in one      *)
(* statement and inserts a row with it in a later one; the runs take turns *)
(* in any way, and any of them may be killed.                              *)
(*                                                                         *)
(* SQLite is external: a statement takes effect as a whole or not at all,  *)
(* and, with no busy timeout set, is refused (SQLITE_BUSY) at any time     *)
(* while another run may be inside a statement of its own.                 *)
(*                                                                         *)
(* The names and the language of a person are the saver they belong to.    *)
(* Time is in hours: day d begins at 24 * d, by the local clock without    *)
(* daylight saving; the time zones are those of the processes and cancel   *)
(* out.                                                                    *)
(***************************************************************************)
EXTENDS Integers, FiniteSetsExt, Functions

CONSTANTS
    Savers,      \* runs of save_person, each of a person of its own
    Loaders,     \* runs of load_person
    Days,        \* birthdays that are typed
    SummerDays,  \* the days with daylight saving time
    UidBits,     \* the width of a uid: 32 in the code
    MaxId        \* bound: the identifiers looked for

ASSUME RunsAssumption == IsFiniteSet(Savers) /\ Savers \cap Loaders = {}
ASSUME DaysAssumption == Days \subseteq Nat
ASSUME UidAssumption == UidBits \in Nat \ {0}
ASSUME MaxIdAssumption == MaxId \in Nat

VARIABLES
    pc,       \* where each run is: "off", "create", "select", "insert",
              \* "print", "done", "load", "failed" (returned 1) or "killed"
    exists,   \* the table persons exists
    rows,     \* its rows, by primary key
    typed,    \* the birthday each saver was given
    person,   \* the Person each saver built, or NoPerson
    error,    \* the savers that printed "Failed to execute statement"
    shown,    \* the row each loader printed, or NoRow
    met       \* history: runs that were not alone between start and insert

vars == <<pc, exists, rows, typed, person, error, shown, met>>

Runs == Savers \cup Loaders
Uids == 0 .. 2 ^ UidBits - 1

\* sqlite3_bind_int and the loader's int: the upper half is negative.
AsInt(uid) == IF uid < 2 ^ (UidBits - 1) THEN uid ELSE uid - 2 ^ UidBits

NoPerson == [id |-> 0]
NoRow == [id |-> 0]

-----------------------------------------------------------------------------
(* Dates: mktime is given tm_isdst = 0, localtime adds the hour. *)

localtime(t) == IF t \div 24 \in SummerDays THEN t + 1 ELSE t

\* Mutant: the end of the day instead of noon.
Birthday_EndOfDay(day) == 24 * day + 23

\* main: 12:00:00 on the day, by the clock without daylight saving.
Birthday(day) == 24 * day + 12

\* formatTimestamp: the text is parsed, taken as a time without daylight
\* saving, and formatted again.
formatTimestamp(text) == localtime(text)

-----------------------------------------------------------------------------

Init ==
    /\ pc = [r \in Runs |-> "off"]
    /\ exists = FALSE
    /\ rows = <<>>
    /\ typed \in [Savers -> Days]
    /\ person = [s \in Savers |-> NoPerson]
    /\ error = {}
    /\ shown = [l \in Loaders |-> NoRow]
    /\ met = {}

InStatements == {r \in Runs : pc[r] \in {"create", "select", "insert", "load"}}
Busy(r) == InStatements \ {r} # {}

Goto(r, where) == pc' = [pc EXCEPT ![r] = where]

\* Both programs open the database, which may fail, and begin their statements.
Begin(r, first) ==
    /\ pc[r] = "off"
    /\ \/ /\ Goto(r, first)
          /\ met' = IF InStatements = {} THEN met ELSE met \cup InStatements \cup {r}
       \/ Goto(r, "failed") /\ UNCHANGED met
    /\ UNCHANGED <<exists, rows, typed, person, error, shown>>

StartSaving(s) == s \in Savers /\ Begin(s, "create")
StartLoading(l) == l \in Loaders /\ Begin(l, "load")

\* CREATE TABLE IF NOT EXISTS; the program returns 1 if it fails.
CreateTable(s) ==
    /\ pc[s] = "create"
    /\ \/ exists' = TRUE /\ Goto(s, "select")
       \/ Busy(s) /\ Goto(s, "failed") /\ UNCHANGED exists
    /\ UNCHANGED <<rows, typed, person, error, shown, met>>

\* Mutant: MAX(id) without the one.
NextId_Taken == IF DOMAIN rows = {} THEN 0 ELSE Max(DOMAIN rows)

\* SELECT MAX(id), NULL for an empty table, plus one
NextId == IF DOMAIN rows = {} THEN 1 ELSE Max(DOMAIN rows) + 1

\* generateUniqueId keeps its 1 when the statement fails, without a word;
\* generateUniqueUid is a random number.
BuildPerson(s) ==
    /\ pc[s] = "select"
    /\ \E id \in {NextId} \cup (IF Busy(s) THEN {1} ELSE {}), uid \in Uids :
         person' = [person EXCEPT ![s] =
                      [id |-> id, uid |-> uid, name |-> s, bdate |-> Birthday(typed[s])]]
    /\ Goto(s, "insert")
    /\ UNCHANGED <<exists, rows, typed, error, shown, met>>

\* The row of a person: proto_data has the whole of it once more.
RowOf(p) ==
    [id |-> p.id, uid |-> AsInt(p.uid), name |-> p.name, bdate |-> localtime(p.bdate), proto_data |-> p]

\* Mutant: INSERT OR REPLACE.
Conflict_Replaced(id) == FALSE

\* INSERT: the primary key is taken
Conflict(id) == id \in DOMAIN rows

\* savePersonToDatabase: a refused row is reported, and main goes on.
SavePerson(s) ==
    /\ pc[s] = "insert"
    /\ \/ /\ ~Conflict(person[s].id)
          /\ rows' = [i \in DOMAIN rows \cup {person[s].id} |->
                        IF i = person[s].id THEN RowOf(person[s]) ELSE rows[i]]
          /\ UNCHANGED error
       \/ /\ Conflict(person[s].id) \/ Busy(s)
          /\ error' = error \cup {s}
          /\ UNCHANGED rows
    /\ Goto(s, "print")
    /\ UNCHANGED <<exists, typed, person, shown, met>>

\* "Person saved with the following details:", the identifier among them
PrintPerson(s) ==
    /\ pc[s] = "print"
    /\ Goto(s, "done")
    /\ UNCHANGED <<exists, rows, typed, person, error, shown, met>>

\* loadPersonFromDatabase: a statement that fails shows nothing, like a row
\* that is not there.
LoadPerson(l) ==
    /\ pc[l] = "load"
    /\ \E id \in 1 .. MaxId :
         \/ id \in DOMAIN rows /\ shown' = [shown EXCEPT ![l] = rows[id]]
         \/ (id \notin DOMAIN rows \/ Busy(l)) /\ UNCHANGED shown
    /\ Goto(l, "done")
    /\ UNCHANGED <<exists, rows, typed, person, error, met>>

Kill(r) ==
    /\ pc[r] \in {"create", "select", "insert", "print", "load"}
    /\ Goto(r, "killed")
    /\ UNCHANGED <<exists, rows, typed, person, error, shown, met>>

Next ==
    \/ \E s \in Savers :
         StartSaving(s) \/ CreateTable(s) \/ BuildPerson(s) \/ SavePerson(s) \/ PrintPerson(s)
    \/ \E l \in Loaders : StartLoading(l) \/ LoadPerson(l)
    \/ \E r \in Runs : Kill(r)

Spec == Init /\ [][Next]_vars

-----------------------------------------------------------------------------
(* What has to be true of it. *)

PersonOf(s) ==
    [id : Nat \ {0}, uid : Uids, name : {s}, bdate : {Birthday(typed[s])}]

TypeOK ==
    /\ pc \in [Runs -> {"off", "create", "select", "insert", "print", "done", "load",
                        "failed", "killed"}]
    /\ exists \in BOOLEAN
    /\ DOMAIN rows \subseteq Nat \ {0}
    /\ typed \in [Savers -> Days]
    /\ DOMAIN person = Savers
    /\ \A s \in Savers : person[s] \in {NoPerson} \cup PersonOf(s)
    /\ error \subseteq Savers /\ met \subseteq Runs
    /\ DOMAIN shown = Loaders

Printed(s) == pc[s] = "done"
Saved(s) == Printed(s) /\ s \notin error

\* A run that no other met is saved, whatever was killed before it
\* (save_person.cpp:16-28): identifiers are not used up.
AloneIsSaved == \A s \in Savers : Printed(s) /\ s \notin met => s \notin error

\* Loading an identifier that a saver printed, unless it reported an error,
\* shows that saver's person, with its uid in both forms and the day of its
\* birthday, though not its hour (save_person.cpp:123-131, load_person.cpp:18).
LoadShowsSaved ==
    \A s \in Savers, l \in Loaders :
        Saved(s) /\ shown[l] # NoRow /\ shown[l].id = person[s].id =>
            /\ shown[l].proto_data = person[s]
            /\ shown[l].name = s
            /\ AsInt(shown[l].proto_data.uid) = shown[l].uid
            /\ formatTimestamp(shown[l].bdate) \div 24 = typed[s]

\* The rows are a table that only grows, whose identifiers have no gaps, and
\* what was reported as failed is not in it: see PersonTable.
Table == INSTANCE PersonTable
    WITH Persons <- Savers,
         table <- [i \in DOMAIN rows |-> rows[i].name],
         failed <- error

TableSteps == Table!Init /\ [][Table!Next]_Table!vars

\* "Person saved with the following details:" (save_person.cpp:147)
SavedIsSaved == \A s \in Savers : Printed(s) => \E i \in DOMAIN rows : rows[i].name = s
=============================================================================
