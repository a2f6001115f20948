------------------------------ MODULE LogSession ------------------------------
(***************************************************************************)
(* What logging promises the user: rows are written only in a session, a   *)
(* session is opened by one header, and closing it waits for the row that  *)
(* is being written, so that sessions never overlap.  A session is lost,   *)
(* with the process, only in the middle of a row.                          *)
(***************************************************************************)
VARIABLES
    session,   \* "closed", "open", "closing" or "lost"
    writing    \* a row is being written

vars == <<session, writing>>

Init == session = "closed" /\ writing = FALSE

Open == session = "closed" /\ session' = "open" /\ UNCHANGED writing
Close == session = "open" /\ session' = "closing" /\ UNCHANGED writing

\* No row begins once the session closes; one that has begun is finished.
BeginRow == session = "open" /\ ~writing /\ writing' = TRUE /\ UNCHANGED session
EndRow == session \in {"open", "closing"} /\ writing /\ writing' = FALSE /\ UNCHANGED session
Closed == session = "closing" /\ ~writing /\ session' = "closed" /\ UNCHANGED writing

Lose == session \in {"open", "closing"} /\ writing /\ session' = "lost" /\ UNCHANGED writing

Next == Open \/ Close \/ BeginRow \/ EndRow \/ Closed \/ Lose

Spec == Init /\ [][Next]_vars /\ WF_vars(EndRow) /\ WF_vars(Closed)
=============================================================================
