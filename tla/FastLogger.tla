------------------------------ MODULE FastLogger ------------------------------
(***************************************************************************)
(* serial-claude/FastLogger.cpp with its client, the command line of       *)
(* serial-claude/main.cpp: two threads, the main one that executes         *)
(* commands and the logger's, which share the vector of registers to log,  *)
(* the log file, the flag m_isRunning and the serial port.                 *)
(*                                                                         *)
(* The port is a line of replies, in request order (see SerialConnection,  *)
(* whose theorem CalmFramesWhole justifies it): a reply is the register it *)
(* is about.  A field of the log is the register whose reply it shows and  *)
(* the register whose type the reply was decoded with, or NoField.         *)
(*                                                                         *)
(* The vector is its memory: a block of cells of which the first size are  *)
(* the elements.  Nothing synchronises the two threads' accesses; what the *)
(* build does is modelled cell by cell (see LogAdd, LogRemove, Cell).      *)
(***************************************************************************)
EXTENDS Integers, Sequences

CONSTANTS
    RegisterIds,  \* the registers of ST_MPC::RegisterId that are logged
    Junk,         \* what an unused cell of the vector's block holds
    NoField,      \* the empty field written for a reply that does not check
    MaxLine,      \* bound: replies on the line, one kept for the logger's
    StrayTurns    \* bound: turns of a loop between iterators of two blocks

ASSUME JunkAssumption == Junk \notin RegisterIds
ASSUME BoundAssumption == MaxLine \in Nat \ {0, 1} /\ StrayTurns \in Nat

VARIABLES
    process,    \* "up", "ended" or "aborted" (std::terminate)
    main,       \* what the main thread does
    thread,     \* m_loggerThread: "none" when not joinable, else its step
    isRunning,  \* m_isRunning
    block,      \* the vector's memory
    size,       \* the vector's size
    held,       \* the loop's iterators point into block
    it, end,    \* the loop's iterators, as positions
    lock,       \* who holds serialMutex: "free", "main" or "logger"
    line,       \* replies on the serial line
    row,        \* fields of the row being written
    header,     \* columns of the last header written
    edited,     \* history: registers changed since the last header
    disturbed   \* history: a get was sent while logging, or failed

vars == <<process, main, thread, isRunning, block, size, held, it, end,
          lock, line, row, header, edited, disturbed>>

mainVars == <<process, main>>
loopVars == <<held, it, end, row>>
vectorVars == <<block, size>>
fileVars == <<header, edited>>
portVars == <<lock, line>>

m_registers == SubSeq(block, 1, size)
Field(of, as) == [of |-> of, as |-> as]

Init ==
    /\ process = "up"
    /\ main = "prompt"
    /\ thread = "none"
    /\ isRunning = FALSE
    /\ block = <<>> /\ size = 0
    /\ held = TRUE /\ it = 1 /\ end = 0
    /\ lock = "free" /\ line = <<>>
    /\ row = <<>>
    /\ header = <<>>
    /\ edited = FALSE /\ disturbed = FALSE

-----------------------------------------------------------------------------
(* The main thread. *)

Prompt == process = "up" /\ main = "prompt"

\* addRegister: the iterators of a running loop keep pointing into the old
\* block when push_back has to allocate a larger one.
LogAdd(r) ==
    /\ Prompt
    /\ \A k \in 1 .. size : block[k] # r
    /\ IF size < Len(block)
       THEN /\ block' = [block EXCEPT ![size + 1] = r]
            /\ UNCHANGED held
       ELSE /\ block' = Append(block, r) \o [k \in 1 .. size - 1 |-> Junk]
            /\ held' = FALSE
    /\ size' = size + 1
    /\ edited' = TRUE
    /\ UNCHANGED <<mainVars, thread, isRunning, it, end, portVars, row, header, disturbed>>

\* Mutant: erase without looking whether the register was found.
LogRemove_Unchecked(r) ==
    /\ Prompt
    /\ size' = size - 1
    /\ edited' = TRUE
    /\ UNCHANGED <<mainVars, thread, isRunning, block, loopVars, portVars, header, disturbed>>

\* removeRegister: erase moves the later elements down one cell.
LogRemove(r) ==
    /\ Prompt
    /\ \E k \in 1 .. size :
         /\ block[k] = r
         /\ block' = [j \in 1 .. Len(block) |->
                        IF j \in k .. size - 1 THEN block[j + 1] ELSE block[j]]
    /\ size' = size - 1
    /\ edited' = TRUE
    /\ UNCHANGED <<mainVars, thread, isRunning, loopVars, portVars, header, disturbed>>

\* startLogging: assigning to a joinable std::thread terminates the process.
LogStart ==
    /\ Prompt
    /\ ~isRunning
    /\ isRunning' = TRUE
    /\ IF size = 0
       THEN UNCHANGED fileVars
       ELSE header' = m_registers /\ edited' = FALSE
    /\ IF thread = "none"
       THEN thread' = "check" /\ UNCHANGED process
       ELSE process' = "aborted" /\ UNCHANGED thread
    /\ UNCHANGED <<main, vectorVars, loopVars, portVars, disturbed>>

\* Mutant: the flag is not cleared.
StopLogging_FlagKept(next) ==
    /\ main' = next
    /\ UNCHANGED <<process, thread, isRunning, vectorVars, loopVars, portVars, fileVars, disturbed>>

\* stopLogging and the join it ends in, for log-stop and for ~FastLogger.
StopLogging(next) ==
    /\ isRunning' = FALSE
    /\ main' = next
    /\ UNCHANGED <<process, thread, vectorVars, loopVars, portVars, fileVars, disturbed>>

LogStop == Prompt /\ StopLogging("stop")
Exit == Prompt /\ StopLogging("destroy")

\* Mutant: stopLogging does not join.
JoinReturns_AtOnce == TRUE

JoinReturns == thread \in {"none", "returned"}

Joined ==
    /\ process = "up"
    /\ main \in {"stop", "destroy"}
    /\ JoinReturns
    /\ thread' = IF thread = "returned" THEN "none" ELSE thread
    /\ main' = "prompt"
    /\ process' = IF main = "destroy" THEN "ended" ELSE process
    /\ UNCHANGED <<isRunning, vectorVars, loopVars, portVars, fileVars, disturbed>>

\* A get command asks for a register: one request, then one reply, whichever
\* comes next.  Bound: there is room for the reply.
Get ==
    /\ Prompt
    /\ Len(line) < MaxLine - 1
    /\ main' = "send"
    /\ disturbed' = (disturbed \/ thread # "none")
    /\ UNCHANGED <<process, thread, isRunning, vectorVars, loopVars, portVars, fileVars>>

\* sendFrame: the mutex is taken and given back.
SendGet ==
    /\ process = "up"
    /\ main = "send"
    /\ lock = "free"
    /\ \E r \in RegisterIds : line' = Append(line, r)
    /\ main' = "get"
    /\ UNCHANGED <<process, thread, isRunning, vectorVars, loopVars, lock, fileVars, disturbed>>

\* readFrame: the mutex is held until the reply is there.
MainLocks ==
    /\ process = "up"
    /\ main = "get"
    /\ lock = "free" /\ lock' = "main"
    /\ main' = "read"
    /\ UNCHANGED <<process, thread, isRunning, vectorVars, loopVars, line, fileVars, disturbed>>

GetReply ==
    /\ process = "up"
    /\ main = "read"
    /\ line # <<>>
    /\ line' = Tail(line)
    /\ lock' = "free"
    /\ main' = "prompt"
    /\ UNCHANGED <<process, thread, isRunning, vectorVars, loopVars, fileVars, disturbed>>

\* Mutant: processUserCommand without its try.
Caught_Not == process' = "aborted"

Caught == UNCHANGED process

\* Mutant: the mutex unlocked by hand, after the read.
Unlocked_NotThrowing == "main"

\* The lock_guard of a function that throws
Unlocked == "free"

\* processUserCommand catches the exception of either function; a reply that
\* was asked for may still be on the line, and the next readFrame takes it.
GetThrows ==
    /\ process = "up"
    /\ \/ /\ main = "send" /\ lock = "free"
          /\ line' = line \/ \E r \in RegisterIds : line' = Append(line, r)
          /\ UNCHANGED lock
       \/ /\ main = "read"
          /\ line' = line \/ (line # <<>> /\ line' = Tail(line))
          /\ lock' = Unlocked
    /\ main' = "prompt"
    /\ disturbed' = TRUE
    /\ Caught
    /\ UNCHANGED <<thread, isRunning, vectorVars, loopVars, fileVars>>

-----------------------------------------------------------------------------
(* The logger's thread. *)

At(step) == process = "up" /\ thread = step

\* What the loop reads at its iterator: a cell of the vector's block, or of a
\* block freed since, which may hold anything.
Cell == IF held THEN {block[it]} ELSE RegisterIds \cup {Junk}

\* Mutant: a loop that does not look at m_isRunning.
LoopCondition_Always == TRUE

LoopCondition == isRunning

CheckRunning ==
    /\ At("check")
    /\ thread' = IF LoopCondition THEN "begin" ELSE "returned"
    /\ UNCHANGED <<mainVars, isRunning, vectorVars, loopVars, portVars, fileVars, disturbed>>

\* The range-for evaluates begin() and then end().
LoopBegin ==
    /\ At("begin")
    /\ held' = TRUE /\ it' = 1
    /\ thread' = "end"
    /\ UNCHANGED <<mainVars, isRunning, vectorVars, end, portVars, row, fileVars, disturbed>>

\* Iterators of two different blocks make a loop over the memory between them:
\* the process dies of it, or it ends after requests for whatever is there.
LoopEnd ==
    /\ At("end")
    /\ \/ end' \in (IF held THEN {size} ELSE 1 .. StrayTurns)
          /\ thread' = "loop"
          /\ UNCHANGED process
       \/ ~held
          /\ process' = "aborted"
          /\ UNCHANGED <<end, thread>>
    /\ UNCHANGED <<main, isRunning, vectorVars, held, it, portVars, row, fileVars, disturbed>>

SendRequest ==
    /\ At("loop")
    /\ it <= end
    /\ lock = "free"
    /\ Len(line) < MaxLine
    /\ \E r \in Cell : line' = Append(line, r)
    /\ thread' = "read"
    /\ UNCHANGED <<mainVars, isRunning, vectorVars, loopVars, lock, fileVars, disturbed>>

LoggerLocks ==
    /\ At("read")
    /\ lock = "free" /\ lock' = "logger"
    /\ thread' = "reading"
    /\ UNCHANGED <<mainVars, isRunning, vectorVars, loopVars, line, fileVars, disturbed>>

\* Mutant: nothing written for a reply that does not check.
RowsAfter_Skipping(reply, r) == {Append(row, Field(reply, r)), row}

\* The row after a field: the value, or the empty field of a failed check.
RowsAfter(reply, r) == {Append(row, Field(reply, r)), Append(row, NoField)}

\* readFrame, the checks and the field.  regId is a reference: the register's
\* type is looked up with what the cell holds now.
WriteField ==
    /\ At("reading")
    /\ line # <<>>
    /\ line' = Tail(line)
    /\ lock' = "free"
    /\ \E r \in Cell : row' \in RowsAfter(Head(line), r)
    /\ it' = it + 1
    /\ thread' = "loop"
    /\ UNCHANGED <<mainVars, isRunning, vectorVars, held, end, fileVars, disturbed>>

EndRow ==
    /\ At("loop")
    /\ it > end
    /\ row' = <<>>
    /\ thread' = "check"
    /\ UNCHANGED <<mainVars, isRunning, vectorVars, held, it, end, portVars, fileVars, disturbed>>

\* An exception leaves the thread's function: std::terminate.
PortThrows ==
    /\ At("reading") \/ (At("loop") /\ it <= end /\ lock = "free")
    /\ process' = "aborted"
    /\ UNCHANGED <<main, thread, isRunning, vectorVars, loopVars, portVars, fileVars, disturbed>>

Logger ==
    \/ CheckRunning \/ LoopBegin \/ LoopEnd
    \/ SendRequest \/ LoggerLocks \/ WriteField \/ EndRow \/ PortThrows

User ==
    \/ \E r \in RegisterIds : LogAdd(r) \/ LogRemove(r)
    \/ Get \/ LogStart \/ LogStop \/ Exit

Main == Joined \/ SendGet \/ MainLocks \/ GetReply \/ GetThrows

Next == User \/ Main \/ Logger

\* Both threads are scheduled, and neither is kept from the mutex for ever: the
\* logger sleeps without it after every row, the user pauses between commands.
\* The user need not type anything, and at the end of the input cannot.
Spec ==
    /\ Init /\ [][Next]_vars
    /\ WF_vars(Main) /\ SF_vars(SendGet \/ MainLocks)
    /\ WF_vars(Logger) /\ SF_vars(SendRequest \/ LoggerLocks)

-----------------------------------------------------------------------------
(* What has to be true of it. *)

Fields == [of : RegisterIds \cup {Junk}, as : RegisterIds \cup {Junk}] \cup {NoField}

TypeOK ==
    /\ process \in {"up", "ended", "aborted"}
    /\ main \in {"prompt", "send", "get", "read", "stop", "destroy"}
    /\ thread \in {"none", "check", "begin", "end", "loop", "read", "reading", "returned"}
    /\ lock \in {"free", "main", "logger"}
    /\ isRunning \in BOOLEAN /\ held \in BOOLEAN
    /\ edited \in BOOLEAN /\ disturbed \in BOOLEAN
    /\ block \in Seq(RegisterIds \cup {Junk})
    /\ size \in 0 .. Len(block)
    /\ it \in Nat /\ end \in Nat
    /\ line \in Seq(RegisterIds \cup {Junk})
    /\ row \in Seq(Fields)
    /\ header \in Seq(RegisterIds)

\* stopLogging returns only when the logger's thread has returned, so a later
\* log-start assigns to a std::thread that is not joinable (FastLogger.cpp:47)
\* and two threads never write the log file; and the destructors of main.cpp,
\* of which that of the logger comes before that of the port, leave none behind.
RestartSafe ==
    (process = "up" /\ main = "prompt" /\ ~isRunning) \/ process = "ended" => thread = "none"

\* A header is written only when no thread can be in the middle of a row.
HeaderBetweenRows == [][header' # header => thread = "none"]_vars

\* Only two things make the process abort: a port that throws in the logger's
\* thread, or a register added while its loop evaluates begin() and end().  No
\* order of start, stop, exit and get does, and no failure during a command
\* (CommandHandler.cpp:89-93).
AbortCauses ==
    process = "aborted" => thread \in {"loop", "reading"} \/ (thread = "end" /\ edited)

\* The row being written is a whole row.
RowDone == thread = "loop" /\ it > end

\* Unless the registers were changed since the header or a get crossed the
\* logger's requests, every row has one field per column of the header, in its
\* order, and shows each register's own reply decoded as that register's type
\* (FastLogger.cpp:83-137).
RowMatchesHeader ==
    RowDone /\ header # <<>> /\ ~edited /\ ~disturbed =>
        /\ Len(row) = Len(header)
        /\ \A k \in 1 .. Len(row) : row[k] \in {Field(header[k], header[k]), NoField}

\* Logging implements a log session: see LogSession.
Session == INSTANCE LogSession
    WITH session <- IF process = "aborted" THEN "lost"
                    ELSE IF thread = "none" THEN "closed"
                    ELSE IF isRunning THEN "open" ELSE "closing",
         writing <- thread \in {"begin", "end", "loop", "read", "reading"}

\* Every step is a step of a session or leaves it alone, whatever is edited
\* meanwhile and whenever the port fails.
SessionSteps == Session!Init /\ [][Session!Next]_Session!vars

\* Rows and sessions end, too, or are lost.
ImplementsSession == Session!Spec

\* log-stop and exit return: the thread ends its row and looks at m_isRunning.
StopReturns == main \in {"stop", "destroy"} ~> (main = "prompt" \/ process = "aborted")

\* A get returns to the prompt while the logger takes the mutex twice for every
\* field, and after any exception (SerialConnection.cpp:36, :46).
GetReturns == main \in {"send", "get", "read"} ~> (main = "prompt" \/ process = "aborted")
=============================================================================
