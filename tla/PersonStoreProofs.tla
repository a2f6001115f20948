--------------------------- MODULE PersonStoreProofs ---------------------------
(***************************************************************************)
(* The table of persons, for any number of savers and loaders that take    *)
(* turns in any way, with statements that are refused and runs that are    *)
(* killed: it only grows, a saver that meets no other is saved, and a      *)
(* person that was saved is loaded as it was.                              *)
(***************************************************************************)
EXTENDS PersonStore, Sequences, TLAPS

Steps == {"off", "create", "select", "insert", "print", "done", "load", "failed", "killed"}
Before == {"off", "create", "select", "insert"}

\* Where each run is, and what it has built by then.
RunsOK ==
    /\ pc \in [Runs -> Steps]
    /\ exists \in BOOLEAN
    /\ typed \in [Savers -> Days]
    /\ DOMAIN person = Savers /\ DOMAIN shown = Loaders
    /\ \A s \in Savers : person[s] \in {NoPerson} \cup PersonOf(s)
    /\ \A s \in Savers : pc[s] \in {"insert", "print", "done"} => person[s] \in PersonOf(s)
    /\ error \subseteq Savers /\ met \subseteq Runs

\* Identifiers have no gaps, and a row is the person of the saver it names,
\* which has passed its INSERT.
RowsOK ==
    /\ \E n \in Nat : DOMAIN rows = 1 .. n
    /\ rows = [i \in DOMAIN rows |-> rows[i]]
    /\ \A i \in DOMAIN rows :
         /\ rows[i].name \in Savers
         /\ person[rows[i].name] \in PersonOf(rows[i].name)
         /\ person[rows[i].name].id = i
         /\ rows[i] = RowOf(person[rows[i].name])
         /\ pc[rows[i].name] \notin Before
         /\ rows[i].name \notin error

\* An identifier that waits for its INSERT leaves no gap; who was not refused
\* has a row; what was shown is there.
SaversOK ==
    /\ \A s \in Savers : pc[s] = "insert" => person[s].id \in DOMAIN rows \cup {NextId}
    /\ \A s \in error : pc[s] \notin Before
    /\ \A s \in Savers : Saved(s) \/ (pc[s] = "print" /\ s \notin error) =>
         person[s].id \in DOMAIN rows /\ rows[person[s].id].name = s
    /\ \A l \in Loaders : shown[l] # NoRow =>
         shown[l].id \in DOMAIN rows /\ shown[l] = rows[shown[l].id]

\* A run that met no other is alone in its statements, and its identifier is
\* still the next one.
AloneOK ==
    /\ \A r \in Runs \ met : r \in InStatements => InStatements = {r}
    /\ \A s \in Savers \ met : pc[s] = "insert" => person[s].id = NextId
    /\ \A s \in Savers \ met : pc[s] \in {"print", "done"} => s \notin error

Inv == RunsOK /\ RowsOK /\ SaversOK /\ AloneOK

-----------------------------------------------------------------------------

\* The greatest element of an interval.
LEMMA MaxIs == ASSUME NEW n \in Nat \ {0} PROVE Max(1 .. n) = n
<1>1. n \in 1 .. n /\ \A y \in 1 .. n : n >= y
  OBVIOUS
<1> QED
  BY <1>1 DEF Max

\* NextId is the first identifier that is free.
LEMMA NextIdIs ==
    ASSUME NEW n \in Nat, DOMAIN rows = 1 .. n
    PROVE  NextId = n + 1
<1>1. CASE n = 0
  BY <1>1 DEF NextId
<1>2. CASE n # 0
  BY <1>2, MaxIs DEF NextId
<1> QED
  BY <1>1, <1>2

\* The invariant.
LEMMA InvInit == Init => Inv
<1> SUFFICES ASSUME Init PROVE Inv
  OBVIOUS
<1>1. DOMAIN rows = {} /\ rows = [i \in DOMAIN rows |-> rows[i]]
  BY DEF Init
<1>2. DOMAIN rows = 1 .. 0
  BY <1>1
<1>3. InStatements = {}
  BY DEF Init, InStatements
<1> QED
  BY <1>1, <1>2, <1>3 DEF Init, Inv, RunsOK, RowsOK, SaversOK, AloneOK, Steps, Runs, NoPerson,
     NoRow, Saved, Printed

\* What a step that leaves the table, the persons and the errors alone has to
\* see to: that no run goes back, and that a run that enters meets the others.
LEMMA Moves ==
    ASSUME Inv, NEW r \in Runs, NEW to \in Steps,
           pc' = [pc EXCEPT ![r] = to],
           exists' \in BOOLEAN, UNCHANGED <<rows, typed, person, error>>,
           DOMAIN shown' = Loaders, met' \subseteq Runs, met \subseteq met',
           \A l \in Loaders : shown'[l] # NoRow =>
               shown'[l].id \in DOMAIN rows /\ shown'[l] = rows[shown'[l].id],
           to \in Before \/ to = "print" => pc[r] \in Before /\ r \notin error,
           to # "insert", to # "print", to = "done" => pc[r] \in {"print", "load"},
           to = "done" /\ r \in Savers => pc[r] = "print",
           to \in Before => pc[r] \in Before,
           InStatements' \subseteq InStatements
           \/ (InStatements = {} /\ InStatements' = {r})
           \/ InStatements' \subseteq met'
    PROVE  Inv'
<1> USE DEF Inv
<1>1. RunsOK'
  BY DEF RunsOK, PersonOf, NoPerson, Runs, Before, Steps, Birthday
<1>2. \A s \in Runs : s # r => pc'[s] = pc[s]
  BY DEF RunsOK
<1>3. pc'[r] = to
  BY DEF RunsOK
<1>4. RowsOK'
  BY <1>2, <1>3 DEF RowsOK, PersonOf, RowOf, Before, Runs
<1>5. NextId' = NextId
  BY DEF NextId
<1>6. SaversOK'
  BY <1>2, <1>3, <1>5 DEF SaversOK, Saved, Printed, Before, Runs
<1>7. AloneOK'
  BY <1>2, <1>3, <1>5 DEF AloneOK, InStatements, Runs
<1> QED
  BY <1>1, <1>4, <1>6, <1>7
\* A person is built with the next identifier, or with 1 if another run is in a
\* statement.
LEMMA BuildPersonStep == ASSUME Inv, NEW s \in Savers, BuildPerson(s) PROVE Inv'
<1> USE DEF Inv
<1>1. /\ pc[s] = "select"
      /\ pc' = [pc EXCEPT ![s] = "insert"]
      /\ UNCHANGED <<exists, rows, typed, error, shown, met>>
  BY DEF BuildPerson, Goto
<1>2. PICK n \in Nat : DOMAIN rows = 1 .. n
  BY DEF RowsOK
<1>3. NextId = n + 1 /\ NextId' = n + 1
  BY <1>1, <1>2, NextIdIs DEF NextId
<1>4. PICK id \in {NextId} \cup (IF Busy(s) THEN {1} ELSE {}), uid \in Uids :
        person' = [person EXCEPT ![s] =
                     [id |-> id, uid |-> uid, name |-> s, bdate |-> Birthday(typed[s])]]
  BY DEF BuildPerson
<1>5. id \in Nat \ {0} /\ id \in DOMAIN rows \cup {NextId}
  BY <1>2, <1>3, <1>4
<1>6. /\ person'[s] = [id |-> id, uid |-> uid, name |-> s, bdate |-> Birthday(typed[s])]
      /\ \A t \in Savers : t # s => person'[t] = person[t]
      /\ DOMAIN person' = Savers
  BY <1>4 DEF RunsOK
<1>7. pc'[s] = "insert" /\ \A r \in Runs : r # s => pc'[r] = pc[r]
  BY <1>1 DEF RunsOK, Runs
<1>8. \A t \in Savers : PersonOf(t)' = PersonOf(t)
  BY <1>1 DEF PersonOf, Birthday
<1>9. person'[s] \in PersonOf(s)
  BY <1>5, <1>6 DEF PersonOf
<1>10. RunsOK'
  BY <1>1, <1>6, <1>7, <1>8, <1>9 DEF RunsOK, Runs, Steps
<1>11. \A i \in DOMAIN rows : rows[i].name # s
  BY <1>1 DEF RowsOK, Before
<1>12. RowsOK'
  BY <1>1, <1>2, <1>6, <1>7, <1>8, <1>11 DEF RowsOK, Runs
<1>13. SaversOK'
  BY <1>1, <1>3, <1>5, <1>6, <1>7 DEF SaversOK, RunsOK, Saved, Printed, Before, Runs
<1>14. InStatements' = InStatements /\ s \in InStatements
  BY <1>1, <1>7 DEF InStatements, Runs
<1>15. s \notin met => id = NextId
  BY <1>4, <1>14 DEF AloneOK, Busy, Runs
<1>16. AloneOK'
  BY <1>1, <1>3, <1>6, <1>7, <1>14, <1>15 DEF AloneOK, Runs
<1> QED
  BY <1>10, <1>12, <1>13, <1>16

\* A row is added behind the others, or a failure is reported.
LEMMA SavePersonStep == ASSUME Inv, NEW s \in Savers, SavePerson(s) PROVE Inv'
<1> USE DEF Inv
<1>1. /\ pc[s] = "insert"
      /\ pc' = [pc EXCEPT ![s] = "print"]
      /\ UNCHANGED <<exists, typed, person, shown, met>>
  BY DEF SavePerson, Goto
<1>2. PICK n \in Nat : DOMAIN rows = 1 .. n
  BY DEF RowsOK
<1>3. pc'[s] = "print" /\ \A r \in Runs : r # s => pc'[r] = pc[r]
  BY <1>1 DEF RunsOK, Runs
<1>4. \A t \in Savers : PersonOf(t)' = PersonOf(t)
  BY <1>1 DEF PersonOf, Birthday
<1>5. s \notin error /\ \A i \in DOMAIN rows : rows[i].name # s
  BY <1>1 DEF RowsOK, SaversOK, Before
<1>6. InStatements' = InStatements \ {s} /\ s \in InStatements
  BY <1>1, <1>3 DEF InStatements, Runs
<1>7. error' \subseteq Savers
  BY DEF SavePerson, RunsOK
<1>8. RunsOK'
  BY <1>1, <1>3, <1>4, <1>7 DEF RunsOK, Runs, Steps
<1>9. CASE /\ ~Conflict(person[s].id)
           /\ rows' = [i \in DOMAIN rows \cup {person[s].id} |->
                         IF i = person[s].id THEN RowOf(person[s]) ELSE rows[i]]
           /\ UNCHANGED error
  <2>1. person[s].id = NextId /\ NextId = n + 1
    BY <1>1, <1>2, <1>9, NextIdIs DEF SaversOK, Conflict
  <2>2. DOMAIN rows' = 1 .. (n + 1)
    BY <1>2, <1>9, <2>1
  <2>3. NextId' = n + 2
    BY <2>2, MaxIs DEF NextId
  <2>4. person[s] \in PersonOf(s)
    BY <1>1 DEF RunsOK
  <2>5. rows'[n + 1] = RowOf(person[s]) /\ RowOf(person[s]).name = s
    BY <1>9, <2>1, <2>4 DEF PersonOf, RowOf
  <2>6. \A i \in 1 .. n : rows'[i] = rows[i]
    BY <1>2, <1>9, <2>1
  <2>7. rows' = [i \in DOMAIN rows' |-> rows'[i]]
    BY <1>9
  <2>8. ASSUME NEW i \in DOMAIN rows'
        PROVE  /\ rows'[i].name \in Savers
               /\ person[rows'[i].name] \in PersonOf(rows'[i].name)
               /\ person[rows'[i].name].id = i
               /\ rows'[i] = RowOf(person[rows'[i].name])
               /\ pc'[rows'[i].name] \notin Before
               /\ rows'[i].name \notin error
    <3>1. CASE i = n + 1
      BY <1>3, <1>5, <2>1, <2>4, <2>5, <3>1 DEF Before
    <3>2. CASE i \in 1 .. n
      BY <1>2, <1>3, <1>5, <2>6, <3>2 DEF RowsOK, Runs
    <3> QED
      BY <2>2, <3>1, <3>2
  <2>9. RowsOK'
    <3>1. \E m \in Nat : DOMAIN rows' = 1 .. m
      BY <2>2
    <3>2. person' = person /\ error' = error
      BY <1>1, <1>9
    <3>3. \A i \in DOMAIN rows' : RowOf(person[rows'[i].name]) = rows'[i]
      BY <2>8
    <3>4. \A i \in DOMAIN rows' :
            person[rows'[i].name] \in [id : Nat \ {0}, uid : Uids, name : {rows'[i].name},
                                      bdate : {24 * typed[rows'[i].name] + 12}]
      BY <2>8 DEF PersonOf, Birthday
    <3> QED
      BY <1>1, <2>7, <2>8, <3>1, <3>2, <3>3, <3>4 DEF RowsOK, PersonOf, Birthday, RowOf, AsInt, localtime
  <2>10. SaversOK'
    BY <1>1, <1>2, <1>3, <1>9, <2>1, <2>2, <2>3, <2>4, <2>5, <2>6
       DEF SaversOK, RunsOK, Saved, Printed, Before, Runs, PersonOf
  <2>11. AloneOK'
    BY <1>1, <1>3, <1>5, <1>6, <1>9 DEF AloneOK, Runs, InStatements
  <2> QED
    BY <1>8, <2>9, <2>10, <2>11
<1>10. CASE /\ Conflict(person[s].id) \/ Busy(s)
            /\ error' = error \cup {s}
            /\ UNCHANGED rows
  <2>1. NextId' = NextId
    BY <1>10 DEF NextId
  <2>2. RowsOK'
    BY <1>1, <1>3, <1>4, <1>5, <1>10 DEF RowsOK, Runs
  <2>3. SaversOK'
    BY <1>1, <1>3, <1>10, <2>1 DEF SaversOK, RunsOK, Saved, Printed, Before, Runs
  <2>4. s \in met
    <3>1. NextId \notin DOMAIN rows
      BY <1>2, NextIdIs
    <3> QED
      BY <1>1, <1>6, <1>10, <3>1 DEF AloneOK, Conflict, Busy, Runs
  <2>5. AloneOK'
    BY <1>1, <1>3, <1>6, <1>10, <2>1, <2>4 DEF AloneOK, Runs
  <2> QED
    BY <1>8, <2>2, <2>3, <2>5
<1> QED
  BY <1>9, <1>10 DEF SavePerson

\* Every step keeps the invariant.
LEMMA InvStep == Inv /\ [Next]_vars => Inv'
<1> SUFFICES ASSUME Inv, [Next]_vars PROVE Inv'
  OBVIOUS
<1> USE DEF Goto, Steps, Before
<1>1. ASSUME NEW r \in Runs, NEW first \in {"create", "load"}, Begin(r, first)
      PROVE  Inv'
  <2>1. /\ pc[r] = "off" /\ r \notin error
        /\ UNCHANGED <<exists, rows, typed, person, error, shown>>
    BY <1>1 DEF Begin, Inv, SaversOK
  <2>2. exists' \in BOOLEAN /\ DOMAIN shown' = Loaders
        /\ \A l \in Loaders : shown'[l] # NoRow =>
               shown'[l].id \in DOMAIN rows /\ shown'[l] = rows[shown'[l].id]
    BY <2>1 DEF Inv, RunsOK, SaversOK
  <2>3. CASE Goto(r, first) /\ met' = IF InStatements = {} THEN met ELSE met \cup InStatements \cup {r}
    <3>1. InStatements' = InStatements \cup {r}
      BY <2>1, <2>3 DEF InStatements, Inv, RunsOK
    <3>2. met' \subseteq Runs /\ met \subseteq met'
          /\ (InStatements = {} \/ InStatements' \subseteq met')
      BY <2>3, <3>1 DEF Inv, RunsOK, InStatements
    <3> QED
      BY <2>1, <2>2, <2>3, <3>1, <3>2, Moves
  <2>4. CASE Goto(r, "failed") /\ UNCHANGED met
    <3>1. InStatements' \subseteq InStatements
      BY <2>1, <2>4 DEF InStatements, Inv, RunsOK
    <3> QED
      BY <2>1, <2>2, <2>4, <3>1, Moves DEF Inv, RunsOK
  <2> QED
    BY <1>1, <2>3, <2>4 DEF Begin
<1>2. ASSUME NEW s \in Savers, StartSaving(s) PROVE Inv'
  BY <1>1, <1>2 DEF StartSaving, Runs
<1>3. ASSUME NEW l \in Loaders, StartLoading(l) PROVE Inv'
  BY <1>1, <1>3 DEF StartLoading, Runs
<1>4. ASSUME NEW s \in Savers, CreateTable(s) PROVE Inv'
  <2>1. PICK to \in {"select", "failed"} : pc' = [pc EXCEPT ![s] = to]
    BY <1>4 DEF CreateTable
  <2>2. /\ pc[s] = "create" /\ s \notin error /\ exists' \in BOOLEAN
        /\ UNCHANGED <<rows, typed, person, error, shown, met>>
    BY <1>4 DEF CreateTable, Inv, RunsOK, SaversOK
  <2>3. InStatements' \subseteq InStatements
    BY <2>1, <2>2 DEF InStatements, Inv, RunsOK
  <2> QED
    BY <2>1, <2>2, <2>3, Moves DEF Runs, Inv, RunsOK, SaversOK
<1>5. ASSUME NEW s \in Savers, BuildPerson(s) PROVE Inv'
  BY <1>5, BuildPersonStep
<1>6. ASSUME NEW s \in Savers, SavePerson(s) PROVE Inv'
  BY <1>6, SavePersonStep
<1>7. ASSUME NEW s \in Savers, PrintPerson(s) PROVE Inv'
  <2>1. /\ pc[s] = "print" /\ pc' = [pc EXCEPT ![s] = "done"]
        /\ UNCHANGED <<exists, rows, typed, person, error, shown, met>>
    BY <1>7 DEF PrintPerson
  <2>2. InStatements' \subseteq InStatements
    BY <2>1 DEF InStatements, Inv, RunsOK
  <2> QED
    BY <2>1, <2>2, Moves DEF Runs, Inv, RunsOK, SaversOK
<1>8. ASSUME NEW l \in Loaders, LoadPerson(l) PROVE Inv'
  <2>1. /\ pc[l] = "load" /\ pc' = [pc EXCEPT ![l] = "done"]
        /\ UNCHANGED <<exists, rows, typed, person, error, met>>
        /\ l \notin Savers
    BY <1>8, RunsAssumption DEF LoadPerson
  <2>2. InStatements' \subseteq InStatements
    BY <2>1 DEF InStatements, Inv, RunsOK
  <2>3. \A i \in DOMAIN rows : rows[i].id = i
    BY DEF Inv, RowsOK, RowOf
  <2>4. DOMAIN shown' = Loaders
        /\ \A k \in Loaders : shown'[k] # NoRow =>
               shown'[k].id \in DOMAIN rows /\ shown'[k] = rows[shown'[k].id]
    BY <1>8, <2>3 DEF LoadPerson, Inv, RunsOK, SaversOK
  <2> QED
    BY <2>1, <2>2, <2>4, Moves DEF Runs, Inv, RunsOK
<1>9. ASSUME NEW r \in Runs, Kill(r) PROVE Inv'
  <2>1. /\ pc' = [pc EXCEPT ![r] = "killed"]
        /\ UNCHANGED <<exists, rows, typed, person, error, shown, met>>
    BY <1>9 DEF Kill
  <2>2. InStatements' \subseteq InStatements
    BY <2>1 DEF InStatements, Inv, RunsOK
  <2> QED
    BY <2>1, <2>2, Moves DEF Inv, RunsOK, SaversOK
<1>10. CASE UNCHANGED vars
  BY <1>10 DEF vars, Inv, RunsOK, RowsOK, SaversOK, AloneOK, NextId, InStatements, PersonOf,
     Birthday, RowOf, AsInt, localtime, Saved, Printed, Uids
<1> QED
  BY <1>2, <1>3, <1>4, <1>5, <1>6, <1>7, <1>8, <1>9, <1>10 DEF Next

-----------------------------------------------------------------------------

\* Persons, identifiers and histories are what they should be, however the runs
\* take turns.
THEOREM StoreTypeCorrect == Spec => []TypeOK
<1>1. Inv => TypeOK
  BY DEF Inv, RunsOK, RowsOK, TypeOK, Steps
<1> QED
  BY <1>1, InvInit, InvStep, PTL DEF Spec

\* A saver that meets no other run between its first statement and its INSERT
\* is saved, whoever was killed before it and wherever.
THEOREM AloneSaves == Spec => []AloneIsSaved
<1>1. Inv => AloneIsSaved
  BY DEF Inv, AloneOK, AloneIsSaved, Printed
<1> QED
  BY <1>1, InvInit, InvStep, PTL DEF Spec

\* Noon, with or without the hour of daylight saving, and with it twice, is on
\* the day that was typed.
LEMMA NoonIsSafe ==
    ASSUME NEW day \in Nat
    PROVE  formatTimestamp(localtime(Birthday(day))) \div 24 = day
BY DEF formatTimestamp, localtime, Birthday

\* What was saved is loaded as it was, on the day that was typed.
THEOREM LoadShows == Spec => []LoadShowsSaved
<1>1. Inv => LoadShowsSaved
  <2> SUFFICES ASSUME Inv, NEW s \in Savers, NEW l \in Loaders,
                      Saved(s), shown[l] # NoRow, shown[l].id = person[s].id
               PROVE  /\ shown[l].proto_data = person[s]
                      /\ shown[l].name = s
                      /\ AsInt(shown[l].proto_data.uid) = shown[l].uid
                      /\ formatTimestamp(shown[l].bdate) \div 24 = typed[s]
    BY DEF LoadShowsSaved
  <2>1. person[s] \in PersonOf(s)
    BY DEF Inv, RunsOK, Saved, Printed
  <2>2. rows[person[s].id].name = s /\ person[s].id \in DOMAIN rows
    BY DEF Inv, SaversOK
  <2>3. shown[l] = RowOf(person[s])
    BY <2>2 DEF Inv, SaversOK, RowsOK
  <2>4. person[s].name = s /\ person[s].bdate = Birthday(typed[s])
    BY <2>1 DEF PersonOf
  <2>5. typed[s] \in Nat
    BY DaysAssumption DEF Inv, RunsOK
  <2> QED
    BY <2>3, <2>4, <2>5, NoonIsSafe DEF RowOf
<1> QED
  BY <1>1, InvInit, InvStep, PTL DEF Spec

\* The table as a sequence.
names == [i \in DOMAIN rows |-> rows[i].name]

\* Its identifiers have no gaps.
LEMMA NamesIsSeq == Inv => names \in Seq(Savers)
<1> SUFFICES ASSUME Inv PROVE names \in Seq(Savers)
  OBVIOUS
<1>1. PICK n \in Nat : DOMAIN rows = 1 .. n
  BY DEF Inv, RowsOK
<1>2. names \in [1 .. n -> Savers]
  BY <1>1 DEF Inv, RowsOK, names
<1> QED
  BY <1>1, <1>2

\* Every step of the runs is a step of the table or leaves it alone: no row is
\* replaced or removed, and who was told of a failure is not in it.
THEOREM StoreIsTable == Spec => TableSteps
<1>1. Init => Table!Init
  BY DEF Init, Table!Init
<1>2. Inv /\ [Next]_vars => [Table!Next]_Table!vars
  <2> SUFFICES ASSUME Inv, [Next]_vars PROVE [Table!Next]_Table!vars
    OBVIOUS
  <2>1. CASE UNCHANGED <<rows, error>>
    BY <2>1 DEF Table!vars
  <2>2. ASSUME NEW s \in Savers, SavePerson(s) PROVE [Table!Next]_Table!vars
    <3>1. PICK n \in Nat : DOMAIN rows = 1 .. n
      BY DEF Inv, RowsOK
    <3>2. pc[s] = "insert" /\ person[s].name = s
      BY <2>2 DEF SavePerson, Inv, RunsOK, PersonOf
    <3>3. s \notin error /\ \A i \in DOMAIN rows : rows[i].name # s
      BY <3>2 DEF Inv, RowsOK, SaversOK, Before
    <3>4. CASE /\ ~Conflict(person[s].id)
               /\ rows' = [i \in DOMAIN rows \cup {person[s].id} |->
                             IF i = person[s].id THEN RowOf(person[s]) ELSE rows[i]]
               /\ UNCHANGED error
      <4>1. person[s].id = n + 1
        BY <3>1, <3>2, <3>4, NextIdIs DEF Inv, SaversOK, Conflict
      <4>2. DOMAIN rows' = 1 .. (n + 1) /\ rows'[n + 1].name = s
            /\ \A i \in 1 .. n : rows'[i] = rows[i]
        BY <3>1, <3>2, <3>4, <4>1 DEF RowOf
      <4>3. names \in Seq(Savers) /\ Len(names) = n /\ DOMAIN names = 1 .. n
        BY <3>1, NamesIsSeq DEF names
      <4>4. names' = Append(names, s)
        BY <3>1, <4>2, <4>3 DEF names
      <4> QED
        BY <3>3, <3>4, <4>4 DEF names, Table!Next, Table!Store, Table!Stored
    <3>5. CASE error' = error \cup {s} /\ UNCHANGED rows
      BY <3>3, <3>5 DEF Table!Next, Table!Fail, Table!Stored
    <3> QED
      BY <2>2, <3>4, <3>5 DEF SavePerson
  <2> QED
    BY <2>1, <2>2 DEF Next, vars, StartSaving, StartLoading, Begin, CreateTable, BuildPerson,
       PrintPerson, LoadPerson, Kill
<1> QED
  BY <1>1, <1>2, InvInit, InvStep, PTL DEF Spec, TableSteps
=============================================================================
