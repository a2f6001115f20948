--------------------------- MODULE FastLoggerProofs ---------------------------
(***************************************************************************)
(* The life of the logger's thread, for every set of registers, with edits *)
(* while logging and failures of the port included, and the log session it *)
(* implements; and its rows, which match their header unless edits or gets *)
(* disturb them.                                                           *)
(***************************************************************************)
EXTENDS FastLogger, TLAPS

ThreadSteps == {"check", "begin", "end", "loop", "read", "reading"}
InCommand == {"prompt", "send", "get", "read"}

\* RestartSafe is not inductive: it needs that m_isRunning is set only while
\* the main thread is at its prompt or in a get command, with a thread that
\* has not returned.  Nor is AbortCauses: it needs that iterators that were
\* taken from the vector's block and no longer point into it mean an edit.
Lifecycle ==
    /\ isRunning \in BOOLEAN /\ held \in BOOLEAN /\ edited \in BOOLEAN
    /\ process \in {"up", "ended", "aborted"}
    /\ thread \in ThreadSteps \cup {"none", "returned"}
    /\ main \in InCommand \cup {"stop", "destroy"}
    /\ isRunning => main \in InCommand /\ thread \in ThreadSteps
    /\ process = "up" /\ main \in InCommand /\ ~isRunning => thread = "none"
    /\ process = "ended" => thread = "none"
    /\ thread \in {"end", "loop", "read", "reading"} /\ ~held => edited
    /\ AbortCauses

\* The invariant of the thread holds at the beginning.
LEMMA LifecycleInit == Init => Lifecycle
BY DEF Init, Lifecycle, AbortCauses, InCommand

\* Every step keeps it.
LEMMA LifecycleStep == Lifecycle /\ [Next]_vars => Lifecycle'
<1> SUFFICES ASSUME Lifecycle, [Next]_vars PROVE Lifecycle'
  OBVIOUS
<1> USE DEF Lifecycle, AbortCauses, ThreadSteps, InCommand, mainVars, loopVars, vectorVars, fileVars
<1>1. ASSUME NEW r \in RegisterIds, LogAdd(r) \/ LogRemove(r) PROVE Lifecycle'
  <2>1. /\ UNCHANGED <<process, main, thread, isRunning>>
        /\ edited' = TRUE /\ held' \in BOOLEAN
        /\ process = "up"
    BY <1>1 DEF LogAdd, LogRemove, Prompt
  <2> QED
    BY <2>1
<1>2. CASE LogStart
  BY <1>2 DEF LogStart, Prompt
<1>3. CASE LogStop \/ Exit
  BY <1>3 DEF LogStop, Exit, StopLogging, Prompt
<1>4. CASE Joined
  BY <1>4 DEF Joined, JoinReturns
<1>5. CASE Get \/ SendGet \/ MainLocks \/ GetReply \/ GetThrows
  <2>1. /\ main \in InCommand /\ main' \in InCommand
        /\ UNCHANGED <<process, thread, isRunning, held, edited>>
    BY <1>5 DEF Get, SendGet, MainLocks, GetReply, GetThrows, Caught, Prompt
  <2> QED
    BY <2>1
<1>6. CASE CheckRunning
  BY <1>6 DEF CheckRunning, LoopCondition, At
<1>7. CASE LoopBegin \/ LoopEnd
  <2>1. CASE LoopBegin
    BY <2>1 DEF LoopBegin, At
  <2>2. CASE LoopEnd
    <3>1. /\ UNCHANGED <<main, isRunning, held, edited>>
          /\ process = "up" /\ thread = "end"
          /\ \/ thread' = "loop" /\ process' = process
             \/ ~held /\ process' = "aborted" /\ thread' = thread
      BY <2>2 DEF LoopEnd, At
    <3> QED
      BY <3>1
  <2> QED
    BY <1>7, <2>1, <2>2
<1>8. CASE SendRequest \/ LoggerLocks \/ WriteField \/ EndRow
  BY <1>8 DEF SendRequest, LoggerLocks, WriteField, EndRow, At
<1>9. CASE PortThrows
  BY <1>9 DEF PortThrows, At
<1>10. CASE UNCHANGED vars
  BY <1>10 DEF vars
<1> QED
  BY <1>1, <1>2, <1>3, <1>4, <1>5, <1>6, <1>7, <1>8, <1>9, <1>10 DEF Next, User, Main, Logger

\* log-start never assigns to a joinable thread: whenever the prompt is back
\* and m_isRunning is false, the last thread has been joined.  Nor does the
\* process end with the logger's thread still running.
THEOREM RestartIsSafe == Spec => []RestartSafe
<1>1. Lifecycle => RestartSafe
  BY DEF Lifecycle, RestartSafe
<1> QED
  BY <1>1, LifecycleInit, LifecycleStep, PTL DEF Spec

\* The process aborts only in the logger's thread: when the port throws there,
\* or when a register was added between its begin() and its end().
THEOREM AbortsAreExplained == Spec => []AbortCauses
<1>1. Lifecycle => AbortCauses
  BY DEF Lifecycle
<1> QED
  BY <1>1, LifecycleInit, LifecycleStep, PTL DEF Spec

\* A header is never written into the middle of a row.
THEOREM HeadersBetweenRows == Spec => HeaderBetweenRows
<1>1. Lifecycle /\ [Next]_vars => [header' # header => thread = "none"]_vars
  <2> SUFFICES ASSUME Lifecycle, Next, header' # header PROVE thread = "none"
    BY DEF vars
  <2>1. LogStart
    BY DEF Next, User, Main, Logger, LogAdd, LogRemove, Get, LogStop, Exit, StopLogging,
           Joined, SendGet, MainLocks, GetReply, GetThrows, CheckRunning, LoopBegin,
           LoopEnd, SendRequest, LoggerLocks, WriteField, EndRow, PortThrows, fileVars
  <2> QED
    BY <2>1 DEF LogStart, Prompt, Lifecycle
<1> QED
  BY <1>1, LifecycleInit, LifecycleStep, PTL DEF Spec, HeaderBetweenRows

\* Every step of the logger and its client is a step of a log session or
\* leaves it alone: sessions do not overlap, a session that closes waits for
\* its row, and no row begins once closing has been seen.
THEOREM LoggerIsSession == Spec => SessionSteps
<1>1. Init => Session!Init
  BY DEF Init, Session!Init
<1>2. Lifecycle /\ [Next]_vars => [Session!Next]_Session!vars
  <2> SUFFICES ASSUME Lifecycle, [Next]_vars PROVE [Session!Next]_Session!vars
    OBVIOUS
  <2> USE DEF Session!vars, ThreadSteps, mainVars, loopVars, vectorVars, fileVars
  <2>1. ASSUME NEW r \in RegisterIds, LogAdd(r) \/ LogRemove(r)
        PROVE  UNCHANGED Session!vars
    BY <2>1 DEF LogAdd, LogRemove
  <2>2. CASE LogStart
    <3>1. /\ thread = "none" /\ thread' = "check" /\ isRunning'
          /\ process = "up" /\ process' = "up"
      BY <2>2 DEF LogStart, Prompt, Lifecycle
    <3>2. Session!Open
      BY <3>1 DEF Session!Open
    <3> QED
      BY <3>2 DEF Session!Next
  <2>3. CASE LogStop \/ Exit
    <3>1. /\ thread' = thread /\ isRunning' = FALSE
          /\ process = "up" /\ process' = "up"
      BY <2>3 DEF LogStop, Exit, StopLogging, Prompt
    <3>2. CASE isRunning
      BY <3>1, <3>2 DEF Lifecycle, Session!Close, Session!Next
    <3>3. CASE ~isRunning
      BY <3>1, <3>3 DEF Lifecycle
    <3> QED
      BY <3>2, <3>3
  <2>4. CASE Joined
    <3>1. /\ thread \in {"none", "returned"} /\ thread' = "none" /\ ~isRunning
          /\ process = "up" /\ process' # "aborted"
      BY <2>4 DEF Joined, JoinReturns, Lifecycle
    <3> QED
      BY <3>1 DEF Session!Closed, Session!Next
  <2>5. CASE Get \/ SendGet \/ MainLocks \/ GetReply \/ GetThrows
    BY <2>5 DEF Get, SendGet, MainLocks, GetReply, GetThrows, Caught
  <2>6. CASE CheckRunning
    <3>1. /\ thread = "check" /\ isRunning' = isRunning
          /\ process = "up" /\ process' = "up"
          /\ thread' = IF isRunning THEN "begin" ELSE "returned"
      BY <2>6 DEF CheckRunning, LoopCondition, At
    <3> QED
      BY <3>1 DEF Lifecycle, Session!BeginRow, Session!Next
  <2>7. CASE LoopBegin \/ SendRequest \/ LoggerLocks \/ WriteField
    BY <2>7 DEF LoopBegin, SendRequest, LoggerLocks, WriteField, At
  <2>8. CASE LoopEnd \/ PortThrows
    <3>1. /\ thread \in {"end", "loop", "reading"} /\ isRunning' = isRunning /\ process = "up"
          /\ \/ process' = "aborted" /\ thread' = thread
             \/ process' = "up" /\ thread' \in {"end", "loop"}
      BY <2>8 DEF LoopEnd, PortThrows, At
    <3> QED
      BY <3>1 DEF Session!Lose, Session!Next
  <2>9. CASE EndRow
    BY <2>9 DEF EndRow, At, Session!EndRow, Session!Next
  <2>10. CASE UNCHANGED vars
    BY <2>10 DEF vars
  <2> QED
    BY <2>1, <2>2, <2>3, <2>4, <2>5, <2>6, <2>7, <2>8, <2>9, <2>10
    DEF Next, User, Main, Logger
<1> QED
  BY <1>1, <1>2, LifecycleInit, LifecycleStep, PTL DEF Spec, SessionSteps

-----------------------------------------------------------------------------
(* The rows. *)

InRow == {"loop", "read", "reading"}
Cells == RegisterIds \cup {Junk}

\* What the vector's memory and the loop's positions are: an element is a
\* register, and an iterator that points into the block is at a cell of it.
Memory ==
    /\ block \in Seq(Cells) /\ size \in 0 .. Len(block)
    /\ \A k \in 1 .. size : block[k] \in RegisterIds
    /\ it \in Nat \ {0} /\ end \in Nat
    /\ thread \in {"read", "reading"} => it <= end
    /\ thread \in InRow /\ held => end <= Len(block)

\* The log and the line of replies.
Written ==
    /\ line \in Seq(Cells) /\ row \in Seq(Fields) /\ header \in Seq(RegisterIds)
    /\ disturbed \in BOOLEAN /\ lock \in {"free", "main", "logger"}

\* Without an edit, the columns are the registers, and the row being written
\* has reached the iterator.
Aligned ==
    /\ thread \notin InRow => row = <<>>
    /\ thread = "end" => it = 1
    /\ ~edited => header = m_registers
    /\ thread \in InRow /\ ~edited => end = size /\ Len(row) = it - 1 /\ it <= end + 1

\* Without a get in between, the one reply on the line is the logger's.
OneReply ==
    ~disturbed =>
        /\ main = "send" => thread = "none" /\ line = <<>>
        /\ main \in {"get", "read"} => thread = "none" /\ Len(line) = 1
        /\ main \notin {"send", "get", "read"} /\ thread \notin {"read", "reading"} => line = <<>>
        /\ thread \in {"read", "reading"} => Len(line) = 1
        /\ thread \in {"read", "reading"} /\ ~edited => line[1] = block[it]

\* RowMatchesHeader is not inductive: this is what holds of a row in the making.
RowSoFar ==
    thread \in InRow /\ ~edited /\ ~disturbed =>
        \A k \in 1 .. Len(row) : row[k] \in {Field(header[k], header[k]), NoField}

RowInv == Memory /\ Written /\ Aligned /\ OneReply /\ RowSoFar

\* The vector of an edit: its elements are registers.
LEMMA EditsMemory ==
    ASSUME Memory, NEW r \in RegisterIds, LogAdd(r) \/ LogRemove(r)
    PROVE  Memory'
<1>1. CASE LogAdd(r) /\ size < Len(block)
  <2>1. /\ block' = [block EXCEPT ![size + 1] = r] /\ size' = size + 1
        /\ UNCHANGED <<thread, held, it, end>>
    BY <1>1 DEF LogAdd
  <2>2. block' \in Seq(Cells) /\ Len(block') = Len(block)
    BY <1>1, <2>1 DEF Memory, Cells
  <2>3. \A k \in 1 .. size + 1 : block'[k] \in RegisterIds
    BY <1>1, <2>1 DEF Memory
  <2> QED
    BY <1>1, <2>1, <2>2, <2>3 DEF Memory
<1>2. CASE LogAdd(r) /\ ~(size < Len(block))
  <2> DEFINE rest == [k \in 1 .. size - 1 |-> Junk]
  <2>1. /\ block' = Append(block, r) \o rest /\ size' = size + 1 /\ held' = FALSE
        /\ UNCHANGED <<thread, it, end>> /\ size = Len(block)
    <3>1. /\ ~(size < Len(block))
          /\ IF size < Len(block)
             THEN block' = [block EXCEPT ![size + 1] = r] /\ UNCHANGED held
             ELSE block' = Append(block, r) \o rest /\ held' = FALSE
      BY <1>2, Zenon DEF LogAdd
    <3>2. size' = size + 1 /\ UNCHANGED <<thread, it, end>>
      BY <1>2 DEF LogAdd
    <3>3. size = Len(block)
      BY <3>1 DEF Memory
    <3> HIDE DEF rest
    <3> QED
      BY <3>1, <3>2, <3>3
  <2>2. rest \in Seq(Cells)
    <3>1. CASE size = 0
      <4>1. rest = <<>>
        BY <3>1
      <4> HIDE DEF rest
      <4> QED
        BY <4>1
    <3>2. CASE size # 0
      <4>1. size - 1 \in Nat
        BY <3>2 DEF Memory
      <4>2. rest \in [1 .. size - 1 -> Cells]
        BY DEF Cells
      <4> HIDE DEF rest
      <4> QED
        BY <4>1, <4>2
    <3> QED
      BY <3>1, <3>2
  <2>3. /\ Append(block, r) \in Seq(Cells) /\ Len(Append(block, r)) = size + 1
        /\ \A k \in 1 .. size + 1 : Append(block, r)[k] \in RegisterIds
    BY <2>1 DEF Memory, Cells
  <2> HIDE DEF rest
  <2>4. /\ block' \in Seq(Cells) /\ size + 1 <= Len(block')
        /\ \A k \in 1 .. size + 1 : block'[k] = Append(block, r)[k]
    <3> DEFINE a == Append(block, r)
    <3>1. a \in Seq(Cells) /\ rest \in Seq(Cells) /\ Len(a) = size + 1 /\ size \in Nat
      BY <2>2, <2>3 DEF Memory
    <3> HIDE DEF a
    <3>2. /\ a \o rest \in Seq(Cells) /\ size + 1 <= Len(a \o rest)
          /\ \A k \in 1 .. size + 1 : (a \o rest)[k] = a[k]
      BY <3>1
    <3> QED
      BY <2>1, <3>2 DEF a
  <2> QED
    BY <2>1, <2>3, <2>4 DEF Memory
<1>3. CASE LogRemove(r)
  <2>1. /\ UNCHANGED <<thread, held, it, end>> /\ size' = size - 1 /\ size >= 1
    BY <1>3 DEF LogRemove, loopVars, Memory
  <2> PICK k \in 1 .. size :
        block' = [j \in 1 .. Len(block) |-> IF j \in k .. size - 1 THEN block[j + 1] ELSE block[j]]
    BY <1>3 DEF LogRemove
  <2>2. block' \in [1 .. Len(block) -> Cells] /\ Len(block) \in Nat
    BY DEF Memory, Cells
  <2>3. block' \in Seq(Cells) /\ Len(block') = Len(block)
    BY <2>2
  <2>4. \A j \in 1 .. size - 1 : block'[j] \in RegisterIds
    BY <2>1 DEF Memory
  <2> QED
    BY <2>1, <2>3, <2>4 DEF Memory
<1> QED
  BY <1>1, <1>2, <1>3

\* An edit leaves the log and the line alone, and owns up to itself.
LEMMA EditsRow ==
    ASSUME RowInv, NEW r \in RegisterIds, LogAdd(r) \/ LogRemove(r)
    PROVE  RowInv'
<1>1. /\ edited' = TRUE
      /\ UNCHANGED <<main, thread, it, lock, line, row, header, disturbed>>
  BY DEF LogAdd, LogRemove, mainVars, loopVars, portVars
<1>2. Memory'
  BY EditsMemory DEF RowInv
<1>3. Written' /\ Aligned' /\ OneReply' /\ RowSoFar'
  BY <1>1 DEF RowInv, Written, Aligned, OneReply, RowSoFar
<1> QED
  BY <1>2, <1>3 DEF RowInv

\* The other steps of the main thread.
LEMMA MainRow ==
    ASSUME RowInv, Lifecycle,
           LogStart \/ LogStop \/ Exit \/ Joined \/ Get \/ SendGet \/ MainLocks \/ GetReply \/ GetThrows
    PROVE  RowInv'
<1> USE DEF mainVars, loopVars, vectorVars, fileVars, InRow, RowInv
<1>1. CASE LogStart
  <2>1. /\ UNCHANGED <<main, block, size, held, it, end, lock, line, row, disturbed>>
        /\ main = "prompt" /\ thread = "none" /\ thread' = "check"
        /\ \/ UNCHANGED <<header, edited>>
           \/ header' = m_registers /\ edited' = FALSE
    BY <1>1 DEF LogStart, Prompt, Lifecycle, InCommand, portVars
  <2>2. m_registers \in Seq(RegisterIds)
    BY DEF m_registers, Memory
  <2> QED
    BY <2>1, <2>2 DEF Memory, Written, Aligned, OneReply, RowSoFar, m_registers
<1>2. CASE LogStop \/ Exit
  BY <1>2, SMTT(30) DEF LogStop, Exit, StopLogging, Prompt, portVars,
              Memory, Written, Aligned, OneReply, RowSoFar, m_registers
<1>3. CASE Joined
  BY <1>3 DEF Joined, JoinReturns, portVars,
              Memory, Written, Aligned, OneReply, RowSoFar, m_registers
<1>4. CASE Get \/ SendGet \/ MainLocks \/ GetReply \/ GetThrows
  <2>1. UNCHANGED <<thread, block, size, held, it, end, row, header, edited>>
    BY <1>4 DEF Get, SendGet, MainLocks, GetReply, GetThrows
  <2>2. Memory' /\ Aligned'
    BY <2>1 DEF Memory, Aligned, m_registers
  <2>3. Written'
    <3>1. line' \in Seq(Cells)
      <4>1. line \in Seq(Cells) /\ RegisterIds \subseteq Cells
        BY DEF Written, Cells
      <4>2. CASE Get \/ MainLocks
        BY <1>4, <4>1, <4>2 DEF Get, MainLocks, portVars
      <4>3. CASE SendGet
        BY <4>1, <4>3 DEF SendGet
      <4>4. CASE GetReply
        BY <4>1, <4>4 DEF GetReply
      <4>5. CASE GetThrows
        BY <4>1, <4>5 DEF GetThrows
      <4> QED
        BY <1>4, <4>2, <4>3, <4>4, <4>5
    <3>2. disturbed' \in BOOLEAN
      BY <1>4 DEF Get, SendGet, MainLocks, GetReply, GetThrows, Written
    <3>3. lock' \in {"free", "main", "logger"}
      BY <1>4 DEF Get, SendGet, MainLocks, GetReply, GetThrows, portVars, Unlocked, Written
    <3> QED
      BY <2>1, <3>1, <3>2, <3>3 DEF Written
  <2>4. OneReply'
    <3> SUFFICES ASSUME ~disturbed' PROVE OneReply'
      BY DEF OneReply
    <3>1. CASE Get
      <4>1. main = "prompt" /\ main' = "send" /\ line' = line /\ ~disturbed /\ thread = "none"
        BY <3>1 DEF Get, Prompt, portVars, Written
      <4> QED
        BY <2>1, <4>1 DEF OneReply
    <3>2. CASE SendGet
      <4>1. main = "send" /\ main' = "get" /\ ~disturbed
        BY <3>2 DEF SendGet
      <4> PICK r \in RegisterIds : line' = Append(line, r)
        BY <3>2 DEF SendGet
      <4>2. line = <<>> /\ thread = "none"
        BY <4>1 DEF OneReply
      <4>3. Len(line') = 1
        BY <4>2
      <4> QED
        BY <2>1, <4>1, <4>2, <4>3 DEF OneReply
    <3>3. CASE MainLocks
      BY <2>1, <3>3 DEF MainLocks, OneReply
    <3>4. CASE GetReply
      <4>1. main = "read" /\ main' = "prompt" /\ line' = Tail(line) /\ line # <<>> /\ ~disturbed
        BY <3>4 DEF GetReply
      <4>2. Len(line) = 1 /\ thread = "none"
        BY <4>1 DEF OneReply
      <4>3. line' = <<>>
        BY <4>1, <4>2 DEF Written
      <4> QED
        BY <2>1, <4>1, <4>2, <4>3 DEF OneReply
    <3>5. CASE GetThrows
      BY <3>5 DEF GetThrows
    <3> QED
      BY <1>4, <3>1, <3>2, <3>3, <3>4, <3>5
  <2>5. RowSoFar'
    <3>1. ~disturbed' => ~disturbed
      BY <1>4 DEF Get, SendGet, MainLocks, GetReply, GetThrows, Written
    <3> QED
      BY <2>1, <3>1 DEF RowSoFar
  <2> QED
    BY <2>2, <2>3, <2>4, <2>5
<1> QED
  BY <1>1, <1>2, <1>3, <1>4

\* The steps of the logger's thread.
LEMMA LoggerRow ==
    ASSUME RowInv, Lifecycle, Logger
    PROVE  RowInv'
<1> USE DEF mainVars, loopVars, vectorVars, fileVars, portVars, InRow, RowInv, At
<1>1. CASE CheckRunning \/ LoopBegin
  BY <1>1, SMTT(30) DEF CheckRunning, LoopBegin, LoopCondition,
              Memory, Written, Aligned, OneReply, RowSoFar, m_registers
<1>2. CASE LoopEnd
  <2>1. /\ thread = "end" /\ UNCHANGED <<main, block, size, held, it, row, lock, line, header, edited, disturbed>>
        /\ \/ held /\ end' = size /\ thread' = "loop"
           \/ ~held /\ end' \in 1 .. StrayTurns /\ thread' = "loop"
           \/ ~held /\ end' = end /\ thread' = "end"
    <3>1. held => end' = size /\ thread' = "loop"
      BY <1>2, Zenon DEF LoopEnd
    <3>2. ~held => (end' \in 1 .. StrayTurns /\ thread' = "loop") \/ (end' = end /\ thread' = thread)
      BY <1>2 DEF LoopEnd
    <3> QED
      BY <1>2, <3>1, <3>2 DEF LoopEnd
  <2>2. (thread = "end" => it = 1) /\ (~held => edited) /\ (~held => end' \in Nat)
    BY <2>1, BoundAssumption DEF Aligned, Lifecycle, Memory
  <2> QED
    BY <2>1, <2>2 DEF Memory, Written, Aligned, OneReply, RowSoFar, m_registers
<1>3. CASE SendRequest
  <2>1. /\ thread = "loop" /\ thread' = "read" /\ it <= end
        /\ UNCHANGED <<main, block, size, held, it, end, row, lock, header, edited, disturbed>>
    BY <1>3 DEF SendRequest
  <2> PICK r \in Cell : line' = Append(line, r)
    BY <1>3 DEF SendRequest
  <2>2. r \in Cells /\ (held => r = block[it])
    BY <2>1 DEF Cell, Cells, Memory
  <2>3. Memory' /\ Aligned' /\ RowSoFar' /\ Written'
    BY <2>1, <2>2 DEF Memory, Aligned, RowSoFar, Written, m_registers
  <2>4. OneReply'
    <3> SUFFICES ASSUME ~disturbed' PROVE OneReply'
      BY DEF OneReply
    <3>1. line = <<>> /\ main \notin {"send", "get", "read"}
      BY <2>1 DEF OneReply
    <3>2. Len(line') = 1 /\ line'[1] = r
      BY <3>1
    <3>3. ~edited => held
      BY <2>1 DEF Lifecycle
    <3> QED
      BY <2>1, <2>2, <3>1, <3>2, <3>3 DEF OneReply
  <2> QED
    BY <2>3, <2>4
<1>4. CASE LoggerLocks
  BY <1>4 DEF LoggerLocks, Memory, Written, Aligned, OneReply, RowSoFar, m_registers
<1>5. CASE WriteField
  <2>1. /\ thread = "reading" /\ thread' = "loop" /\ line # <<>> /\ line' = Tail(line)
        /\ lock' = "free" /\ it' = it + 1
        /\ UNCHANGED <<main, block, size, held, end, header, edited, disturbed>>
    BY <1>5 DEF WriteField
  <2> PICK r \in Cell : row' \in RowsAfter(Head(line), r)
    BY <1>5 DEF WriteField
  <2>2. r \in Cells /\ (held => r = block[it])
    BY <2>1 DEF Cell, Cells, Memory
  <2>3. Head(line) \in Cells /\ Tail(line) \in Seq(Cells) /\ Head(line) = line[1]
    BY <2>1 DEF Written
  <2> PICK field \in {Field(Head(line), r), NoField} : row' = Append(row, field)
    BY DEF RowsAfter
  <2>4. field \in Fields
    BY <2>2, <2>3 DEF Field, Fields, Cells
  <2>5. /\ row' \in Seq(Fields) /\ Len(row') = Len(row) + 1
        /\ \A k \in 1 .. Len(row) : row'[k] = row[k]
        /\ row'[Len(row) + 1] = field
    BY <2>4 DEF Written
  <2>6. Memory' /\ Written' /\ Aligned'
    BY <2>1, <2>3, <2>5 DEF Memory, Aligned, Written, m_registers
  <2>7. OneReply'
    BY <2>1 DEF OneReply, Written
  <2>8. RowSoFar'
    <3> SUFFICES ASSUME ~edited, ~disturbed, NEW k \in 1 .. Len(row')
                 PROVE  row'[k] \in {Field(header[k], header[k]), NoField}
      BY <2>1 DEF RowSoFar
    <3>1. Len(row) \in Nat /\ Len(row) + 1 = it /\ it <= size
      BY <2>1 DEF Aligned, Memory, Written
    <3>2. CASE k = it
      <4>1. header[it] = block[it]
        BY <2>1, <3>1 DEF Aligned, m_registers, Memory
      <4>2. r = block[it] /\ Head(line) = block[it]
        BY <2>1, <2>2, <2>3 DEF Lifecycle, OneReply
      <4> QED
        BY <2>5, <3>1, <3>2, <4>1, <4>2
    <3>3. CASE k # it
      BY <2>1, <2>5, <3>1, <3>3 DEF RowSoFar
    <3> QED
      BY <3>2, <3>3
  <2> QED
    BY <2>6, <2>7, <2>8
<1>6. CASE EndRow
  BY <1>6 DEF EndRow, Memory, Written, Aligned, OneReply, RowSoFar, m_registers
<1>7. CASE PortThrows
  BY <1>7 DEF PortThrows, Memory, Written, Aligned, OneReply, RowSoFar, m_registers
<1> QED
  BY <1>1, <1>2, <1>3, <1>4, <1>5, <1>6, <1>7 DEF Logger

\* The invariant of the rows, with that of the thread.
LEMMA RowSteps == Spec => [](Lifecycle /\ RowInv)
<1>1. Init => RowInv
  <2> SUFFICES ASSUME Init PROVE RowInv
    OBVIOUS
  <2>1. m_registers = <<>>
    BY DEF Init, m_registers
  <2>2. Memory
    BY DEF Init, Memory, InRow
  <2>3. Written
    <3>1. <<>> \in Seq(Fields) /\ <<>> \in Seq(Cells) /\ <<>> \in Seq(RegisterIds)
      OBVIOUS
    <3>2. line = <<>> /\ header = <<>> /\ row = <<>> /\ lock = "free" /\ disturbed = FALSE
      BY DEF Init
    <3> QED
      BY <3>1, <3>2, Zenon DEF Written
  <2>4. Aligned
    BY <2>1 DEF Init, Aligned, InRow
  <2>5. OneReply /\ RowSoFar
    BY DEF Init, OneReply, RowSoFar, InRow
  <2> QED
    BY <2>2, <2>3, <2>4, <2>5 DEF RowInv
<1>2. Lifecycle /\ RowInv /\ [Next]_vars => RowInv'
  <2> SUFFICES ASSUME Lifecycle, RowInv, [Next]_vars PROVE RowInv'
    OBVIOUS
  <2>1. CASE UNCHANGED vars
    BY <2>1 DEF vars, RowInv, Memory, Written, Aligned, OneReply, RowSoFar, m_registers
  <2>2. CASE Next
    BY <2>2, EditsRow, MainRow, LoggerRow DEF Next, User, Main
  <2> QED
    BY <2>1, <2>2
<1> QED
  BY <1>1, <1>2, LifecycleInit, LifecycleStep, PTL DEF Spec

\* Every variable of the logger and its client keeps its type: the loop's
\* iterators stay within the vector's block as long as they point into it.
THEOREM LoggerTypeCorrect == Spec => []TypeOK
<1>1. Lifecycle /\ RowInv => TypeOK
  BY DEF Lifecycle, RowInv, Memory, Written, TypeOK, ThreadSteps, InCommand, Cells
<1> QED
  BY <1>1, RowSteps, PTL

\* Every row that no edit and no get disturbed has one field per column of the
\* header, in its order, each with the register's own reply, or empty.
THEOREM RowsMatch == Spec => []RowMatchesHeader
<1>1. Lifecycle /\ RowInv => RowMatchesHeader
  <2> SUFFICES ASSUME Lifecycle, RowInv, RowDone, ~edited, ~disturbed
               PROVE  /\ Len(row) = Len(header)
                      /\ \A k \in 1 .. Len(row) : row[k] \in {Field(header[k], header[k]), NoField}
    BY DEF RowMatchesHeader
  <2>1. thread \in InRow /\ it > end
    BY DEF RowDone, InRow
  <2>2. Len(row) = size /\ Len(header) = size
    BY <2>1 DEF RowInv, Aligned, Memory, Written, m_registers
  <2> QED
    BY <2>1, <2>2 DEF RowInv, RowSoFar
<1> QED
  BY <1>1, RowSteps, PTL
=============================================================================
