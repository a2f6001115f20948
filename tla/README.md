# Specifications of various-cplusplus

TLA+ specifications of the concurrent and stateful programs of this repository, the TLC
configurations that check them on small instances, and theorems about them whose proofs TLAPS
checks for every value of the constants. Paths below are relative to the repository.

    tlc -workers 2 -config conn_calm.cfg SerialConnection     # a run
    tlapm SerialConnectionProofs.tla                          # the proofs of a module

`PROJECT.json` lists the components, the runs with their properties, one mutation of the code
per property that makes the property fail (the definitions `X_Something` beside `X`, marked
"Mutant"), the source lines of every definition, the findings, the hazards and the theorems.

## 1. Inventory

The repository is a collection of programs. Those with a core logic of their own:

| program | state | operations | interaction |
|---|---|---|---|
| `serial-claude`: command line and logger for a motor controller behind a serial port | port, `io_service`, `serialMutex`; the vector of registers to log, `m_isRunning`, `m_loggerThread`, the log file | `sendFrame`, `readFrame`; `log-start`, `log-stop`, `log-add`, `log-remove`, `get`, `set`, `exec`, `ramp`, `exit` | the main thread and the logger's thread share the port under a mutex, the flag as an atomic, and the vector without anything; the device answers requests in order |
| `UartCom`: `uart-cli`, and two smaller mains | a thread, a forked `socat`, the log file `socat` appends to, a handle | start `socat`, scan its log, open, read or write, close, destroy | thread and main thread; several processes share the directory's log file and the kernel's ptys |
| `tcp`: server and FEC client | two FIFOs, one TCP connection | `accept`, `open`, `recv`, `write`, `read`, `send` | TCP client, server and FEC, each blocking on the next |
| `serial`: an earlier command line, its signal handler, and `virtual-msc.sh`, the script that takes the motor controller's place | the connection behind a global pointer; a lock file and `response.bin` | commands, signals; lock, trap, loop | a signal arrives at any step; the line keeps what either end leaves; all instances of the script share both files |
| `protobuf`: `save_person`, `load_person` | a SQLite table | `generateUniqueId`, `savePersonToDatabase`, `loadPersonFromDatabase` | several runs on one database |

The rest has no state beyond a call or is somebody else's: the parsers of `xml-parser` and their
output, the Boost tutorials in `boost`, and the trials in `threads`, `commandMapping`, `gtest`,
`cmake-test`, `temp`, `testLinaro`.

What is hard, and what makes each part correct:

* **Serial connection.** Two threads alternate on one port; a request and its reply are two
  critical sections; a read that reaches the deadline of `run_for` is not cancelled and its
  buffers and `error_code` go out of scope. Correct: frames are whole and in order, no reply is
  taken twice, the mutex is always released, every read finds an `io_service` that runs.
* **Logger.** The vector is edited while the loop iterates it; `log-start` assigns to a
  `std::thread`; `exit` destroys the logger while it may be reading; an exception in the thread
  ends the process. Correct: sessions do not overlap and end, a header is never written into a
  row, rows match their header, nothing else aborts the process.
* **Frames.** Widths, signs and a checksum that folds sixteen bits into eight; two decoders of the
  same response. Correct: what was set is what a `get` prints and what the log shows; a changed
  byte is noticed.
* **uart-cli.** The thread stores the pid of `socat` while the main thread may already be
  destroying the object; the log file keeps lines of earlier processes; ptys run out. Correct: no
  `socat` is left behind, the device opened is the process's own, the process ends.
* **Bridge.** Every step of one program blocks on another; TCP cuts and joins lines; the client
  closes, the FEC is killed and restarted. Correct: no standstill, answers belong to their
  requests, nothing typed is sent twice, the FIFOs meet.
* **Serial tool and its script.** `main` and nested signal handlers delete one connection; a lock
  is checked and then taken, and removed by whoever exits; the two ends are closed and opened again
  while bytes are on the line. Correct: one deletion, one instance, and an answer that is the whole
  answer to the own request.
* **Person store.** An identifier is read in one statement and inserted in another, by runs that
  may be killed; a birthday goes through local time and back. Correct: the table only grows, a
  saver alone is saved, and what was saved can be loaded.

## 2. Modules

| module | models | instantiates |
|---|---|---|
| `SerialConnection` | `serial-claude/SerialConnection.cpp` and Boost.Asio as it is used there | `ReplyChannel` |
| `ReplyChannel` | what the connection promises: whole replies, in order, one per read | |
| `FastLogger` | `FastLogger.cpp`, `CommandLine.cpp`, `main.cpp` of `serial-claude` | `LogSession` |
| `LogSession` | what logging promises: sessions that do not overlap, and that end | |
| `FrameCodec` | `FrameBuilder.cpp`, `FrameInterpreter.cpp`, the tables, the logger's decoding: operators only | |
| `FrameExchange` | the commands of both `CommandHandler.cpp` and the logger's sampling, with one register | extends `ToolFrames` |
| `VirtualUart` | `UartCom/main.cpp`, `uart-com.cpp`, `uart-com-sim.cpp`, `VirtualUart.cpp`, `UartApplication.cpp`, `UartCom.cpp` | |
| `FifoBridge` | `tcp/server.c`, `tcp/client.c` | |
| `ToolFrames` | the frames and the decoding of `src/serial`, an earlier `FrameBuilder` and `FrameInterpreter`: operators only | extends `FrameCodec` |
| `SerialTool` | `serial/main.cpp`, `SignalHandler.cpp`, `SerialConnection.cpp`, `CommandHandler.cpp` | |
| `VirtualMsc` | `serial/virtual-msc.sh` | |
| `SerialBench` | the two joined by a line | `SerialTool`, `VirtualMsc` |
| `PersonStore` | `protobuf/save_person.cpp`, `load_person.cpp` | `PersonTable` |
| `PersonTable` | what the store promises: a table that only grows | |
| `MCFrameExchange`, `MCSerialBench`, `MCPersonStore` | the values TLC tries, and symmetries | extend their modules |
| `SerialConnectionProofs`, `FastLoggerProofs`, `FrameCodecProofs`, `FrameExchangeProofs`, `VirtualUartProofs`, `FifoBridgeProofs`, `SerialBenchProofs`, `PersonStoreProofs` | theorems | extend their modules |

### SerialConnection

A byte is where it comes from: `[frame, pos]` in the device's output, or `ZeroByte`, the 0 of a
fresh vector. The line is the interval between the cursors `rd` and `dev`. `SendFrame` is
`sendFrame` as one step, since the mutex covers it and nothing else looks at the port's output.
`readFrame` is taken apart where others can interfere: `BeginRead` (lock, first
`readWithTimeout`), `TakeByte` for every byte, `HeaderDone` (the first `run_for` returns,
`io.reset()`, the second read starts), `BodyDone` (it returns, the frame is copied together,
unlock), and `ReadThrows` for both throws. `RunForReturns` is true when the `io_service` is
stopped, for want of work, or, with `Slow`, at any time: the deadline. With `Faulty` the port
reports errors and a write may throw after reaching the device or not.

`async_read` stays queued on the descriptor when its call returns at the deadline: `ops` keeps it,
with the buffer `"stale"`. Its handler stores through a dangling reference, so what it hits is any
of the outcomes: nothing live, the buffer or the `error_code` of the call that reuses the memory.

### FastLogger

The connection is replaced by what is proved of it in the calm case: `line`, the replies in
request order, of which a read takes the next (`CalmFramesWhole`). A field of the log is the
register whose reply it shows together with the register whose type decoded it.

The vector is its memory: `block` with `size` elements in use, growing by doubling as libstdc++'s
does, `erase` moving cells down. The loop's iterators `it` and `end` are positions, and `held` says
whether they still point into the vector's block. `CheckRunning`, `LoopBegin`, `LoopEnd`,
`SendRequest`, `WriteField` and `EndRow` are the loop's accesses in their order; a read through an
iterator that is not held is any register or `Junk`. If the block was replaced between `begin()` and
`end()`, the loop walks the memory between the two: `LoopEnd` has the process die of it, or end the
row after a few requests for what it finds there (`StrayTurns`). `PortThrows` is the exception that leaves the
thread. `LogStart`, `LogStop`, `Exit`, `LogAdd`, `LogRemove` are the commands. The four commands that
exchange a frame are `Get`, then `SendGet` and `MainLocks`, the two acquisitions of `serialMutex`,
and `GetReply`; `GetThrows` is the exception that `processUserCommand` catches. `lock` is the
mutex, which both threads take for a send and again for a read. `Joined` is the return of the join in `stopLogging`, for `log-stop`
and for the destructor. `edited` and `disturbed` are history, for the properties only.

### FrameCodec and FrameExchange

Frames are sequences of bytes, numbers are two's complement digits, so that widths and signs are
explicit and a 32-bit value needs no arithmetic TLC cannot do. `interpretResponse` is what the
command line prints, `LoggedFields` what the logger may write: a set, because the logger indexes
as many bytes as the type has and may read past the response. `FrameExchange` lets each client
send its request, the external device answer or refuse, the line change one byte, and the client
decode. The clients are the command line and the logger of `serial-claude`, and the tool of
`src/serial`, whose frames are in `ToolFrames`: it sends two bytes to a register of any width and
decodes without types.

### VirtualUart

Each process has its main thread, its thread and its `socat`; they share `log` and `pty`. A line
of the log is the pty it names. `devices` are the ptys a main thread still has to open: the read or
the write device of `uart-cli`, both in turn for `uart-com-sim`, none with wrong arguments
(`Wanted`), and the one it is told for `uart-com` and with `-uart` (`RunWithUart`), where there is
neither a thread nor a `socat`. `io` is what a process does with the pty it has open. `Read` is two
calls: a `select` of at most five seconds, and a `read` without a limit, for the descriptor is
opened without `O_NONBLOCK` (`UartCom.cpp:43`). `Readable` makes the pty readable for one process
after the other, each of those that have it open may take what is there (`Taken`; `ShellReads` for
the shell of a terminal window), and who is past its `select` then is `"starved"`: `ExecuteAndClose`
has to wait for more, or for the pty to go (`HungUp`). `meanwhile` is chosen once: processes run one after the other,
overlap, or are mixed with terminal windows that take and release ptys. `GenerateThrows` ends the
process as `std::terminate` does: `main.cpp` calls `Generate` outside of its `try`, and
`uart-com-sim.cpp` has none.

### FifoBridge

Text is its length and the number of the request it belongs to. `Receive` is one turn from `recv`
to the `write` into the FIFO, with the byte cut off as if it were the newline; `Answer` is the
blocking `read` and the `send`. Of two opens of one FIFO that wait for each other both return, in
`BothOpen`; `FecOpens` is a FEC's open of a FIFO that the server already has. A `read` returns
nothing, and a `write` is killed, when nobody has the other end of that very FIFO (`FecHolds`): a FEC
may have opened one of them only. `smooth` is chosen once: if TRUE, lines arrive whole, none leaves
a piece of one byte, and nobody closes, dies or types nothing.

### SerialTool, VirtualMsc and SerialBench

`SerialTool` is `src/serial/main.cpp` run several times. `main` and the handlers of signals are one
thread: `main` steps only while `handlers` is empty, a signal pushes a handler, and one of another
signal may interrupt it. `HandlerDeletes` and `HandlerClears` are the two statements of
`SignalHandler.cpp:13-14`. `ReadByte` is one iteration of the loop of `readFrame`, which has no
deadline; what a run leaves unread stays on the line.

`VirtualMsc` is one action per command of the script, since the shell runs each as a process of its
own: `Check`, `Cat`, `Ps`, `RemoveStale`, `Create` (the redirection creates or empties the file),
`Echo`, and the loop from `Receive` to `Sent`, with `response.bin` written, counted, and sent a byte
at a time. `CleanUp` is the trap; `Interrupt` covers signals that run it and `SIGKILL`, which does
not, and which may leave a `dd` (`orphans`) that takes a later request. Files are inodes, so that
one that was removed can still be written to. `SerialBench` joins both by the two directions of the
line. `lapsed` (two instances started together, or a cleanup removed a live one's file), `late` (a
signal came during or after a deletion) and `unsettled` (an end was interrupted in the middle of an
exchange) are history, for the properties only.

### PersonStore

One action per statement of SQL, of both programs: `CreateTable`, `BuildPerson` (with
`SELECT MAX(id)`), `SavePerson` (`INSERT`), `PrintPerson`, `LoadPerson`. SQLite is external: a
statement happens as a whole or is refused, and it may be refused as busy while another run is in
a statement. `Kill` ends a run anywhere. Birthdays are hours: `mktime` is given `tm_isdst = 0` and
`localtime` adds the hour of `SummerDays`. `met` is history: the runs that were in statements at
the same time as another.

## 3. Runs

A run that passes shows its properties on the instance below; a run of the second table shows that
what a comment or an output says is not what the code does.

| run | instance | what it shows |
|---|---|---|
| `conn_calm` | two threads, three requests, payloads of 0 and 2 bytes, a device that answers in time | frames are whole and in order (`FramesWhole`), reads start with a running `io_service` (`IoReady`), a sole user gets its own replies (`SoleUserReplies`), the connection implements `ReplyChannel`, whose steps it takes and whose waiting threads it serves (`ImplementsChannel`) |
| `conn_faulty` | two threads, two requests, payloads of 0 and 1 byte, deadlines and port errors | `TypeOK`, `MutualExclusion`, no reply twice or out of order (`NoDuplicateReply`), the mutex is released whatever the device does (`LockReleased`) |
| `log_edit` | two registers, three replies on the line, every command at every step, a failing port | no thread is assigned to or left behind (`RestartSafe`), `HeaderBetweenRows`, `AbortCauses`, `RowMatchesHeader`, stop and exit return (`StopReturns`), a get returns beside the logger (`GetReturns`), and logging implements `LogSession` (`ImplementsSession`) |
| `frame_exchange` | a register of each type, thirteen values around the boundaries of every width, line noise | what was set is what a get prints, in both programs (`SetThenGet`, `ToolSetThenGet`), and what is logged (`LoggedIsValue`); a changed byte is not logged (`NoiseNotLogged`) |
| `uart_cli` | two processes, three ptys | nothing is left behind (`SocatStopped`), the device is the process's own (`OwnDevice`), and a process ends unless somebody with the same pty takes what its `select` saw (`ProcessesEnd`) |
| `person` | three savers and a loader | a saver that met no other is saved (`AloneIsSaved`), what was saved can be loaded (`LoadShowsSaved`), the table only grows (`TableSteps`, the refinement of `PersonTable`) |
| `bench` | two instances of the script, two runs of the tool, two signals in the first of them | the lock file names the instance that runs (`LockHeld`), what is printed is the whole answer to the own request (`ResponseIsOwn`), one deletion (`DeletedOnce`) |
| `bridge` | two lines of 1, 2 or 26 bytes, four pieces, answers of 0 or 12 | `AnswerIsToRequest`, `RequestsAnswered` when all goes smoothly; `NoAnswerTwice`, `FifosMeet` always |

| run | property | finding |
|---|---|---|
| `conn_crossed` | `ReplyIsMine` | the mutex covers each half of an exchange: with both threads waiting, one takes the other's reply (`SerialConnection.cpp:36`, `:46`) |
| `conn_timeout` | `OnlyFrames` | a read that reaches the deadline reports no error: zeros are returned as a frame (`SerialConnection.cpp:83-85`) |
| `person_saved` | `SavedIsSaved` | a refused `INSERT` is reported and forgotten, and "Person saved with the following details" is printed with an identifier that is another person's (`save_person.cpp:144-147`) |
| `bridge_closed` | `ClosingNoticed` | a server that waits in `recv`, with nothing left to receive, and whose client closes: `recv` returns 0, which is not noticed, and the server waits for an answer nobody asked for (`server.c:99-119`) |

Further disagreements are visible in the models and limit the properties that hold:

* **Frames.** A `UInt16` or `UInt32` in its upper half is printed, and a `UInt32` logged, as a
  negative number (the exceptions in `SetThenGet` and `LoggedIsValue`); a refusal passes the
  logger's checks and is logged as a value (`FastLogger.cpp:106-112`), so `LoggedIsValue` is about
  answers that are values. The tool of `src/serial` shows a negative `Int16` as positive and sends
  two bytes to every register (the exceptions in `ToolSetThenGet`).
* **Connection.** A read that throws skips `io.reset()`, so the next one does not wait
  (`ReadThrows`; `IoReady` fails if `Faulty`).
* **Logger.** Edits while logging give rows without the header's columns, for the vector is edited
  under the loop (`FastLogger.cpp:83`, `:92`); `RowMatchesHeader` is about rows that neither an edit
  nor a `get` crossed (`edited`, `disturbed`).
* **uart-cli.** A process ended by `std::terminate` leaves its `socat` (`GenerateThrows`; the guard
  of `SocatStopped`); names from an earlier process's log may be a terminal's by now
  (`VirtualUart.cpp:95`; the guards of `OwnDevice`). The five seconds of `UartCom.cpp:77` are those of
  `select`: with two processes at one pty, the `read` behind it may wait for ever (`:95`; the
  exception in `ProcessesEnd`, without which the run fails with two overlapping readers of the first
  line of the log).
* **Script.** Two instances started together both run (`virtual-msc.sh:21-33`), and an instance
  that is refused removes the lock of the one that runs, for the trap is set before the check
  (`:16`): `lapsed`, the guard of `LockHeld`. An answer that the script refuses, because its bytes
  are not as many as were typed, leaves the tool waiting (`:109`): nothing promises `SerialTool` an
  answer.
* **Tool.** At the end of an input whose last line was not ended, `getline` leaves the line as it
  was, and the last command is sent for ever (`serial/main.cpp:28`). A signal that comes while
  another handler is deleting the connection deletes it again: `late`.
* **Persons.** A `SELECT` that is refused as busy makes identifier 1. `load_person` prints that
  there is no record also when the database was busy (`load_person.cpp:66`). A birthday in summer is
  stored as 13:00, by the clock of summer, and shown as 14:00: the same day, which is what
  `LoadShowsSaved` asks for.

### Bounds

* Two threads are all that `serial-claude` has. Three requests let one thread go round while the
  other's reply waits; in `conn_faulty` two are enough for a read that outlives its call to meet
  the next call. A payload of 0 has no payload bytes, one of 2 more than one; `StrayLens` are the
  lengths a reader takes from a byte that is not a length, shorter and longer than the reply.
* Two registers make the vector grow from 0 to 1 to 2 with a reallocation each time, and leave
  something to shift when the first is removed. A third reply on the line means that a `get` that
  failed, a `get` that waits and the logger have one each. One stray turn is a request for what is
  no element, and the end of such a row.
* Two instances of the script are one that runs and one that is refused, starts too early, or finds
  what the other left; a third would meet the same files. A second run of the tool meets what the
  first left on the line, and two signals are a handler that interrupts a handler. Signals come in
  the first run (`SignalledRuns`): the second starts with nothing of the first's memory, so that
  its signals are those of a first run on another line. The bench is watched until the last run is
  over. `AnswerLens` is one payload byte, `StrayLens` a length that is longer than the answer, with
  which a reader that starts in the middle takes bytes of the next answer. Instances and signals
  are interchangeable, and so are savers: their names appear in no definition.
* Three savers are the two that compute the same identifier and one that comes later and takes the
  maximum of what they left; days are one in winter and one in summer; one bit of `uid` has a
  negative half already.
* The values of `BoundaryInt32s` lie around the ends of every type; one makes the two bytes of the
  checksum's sum carry. `Noise` contains both bytes the checksum confuses, and their neighbours.
* Three ptys are one pair and a half: two processes cannot both have theirs. Five retries are the
  code's own. Only the first two lines of a log are ever used.
* A line of 26 bytes exceeds `TCP_LEN`, 24, by two; 1 and 2 bytes are cut to nothing and to one;
  cutting lines in two gives a piece of one byte at every place. Less than `FIFO_LEN`, 80, bytes
  wait in a FIFO (`Fits`): with 80 or more, a `read` leaves some of them and writes behind its buffer.

### Fairness

* `SerialConnection`: weak fairness of `TakeByte` and of each thread's `Read`: threads and the
  reactor are scheduled, and a mutex that is free is obtained by a waiting thread, which does not
  compete with others that keep taking it, because every thread must send, and requests are
  bounded. The device owes nothing (`LockReleased` holds with a silent one); only `AnsweringSpec`,
  for `ImplementsChannel`, has it answer.
* `FastLogger`: `Main` and `Logger`, the two threads. The user need not type anything. Every request
  sent has its reply on the line, so a read never waits for ever; in the code the deadline of
  `run_for` sees to that (`LockReleased`).
  The mutex needs strong fairness, since it is free again and again while the other thread goes
  round: the logger sleeps 10 ms without it after every row, and the user pauses between commands.
* `VirtualUart`: the two threads of each process. Nothing is assumed of `socat`, nor of those who
  write to a pty (`Readable`): a `select` ends by its deadline, a `read` need not.
* `FifoBridge`: both programs, and the user at the FEC types an answer when asked.
* `SerialTool`, `VirtualMsc`, `PersonStore`: none. Their readers have no deadline, their users owe
  nothing, and a busy database may stay busy; only safety is stated of them.

`CHECK_DEADLOCK FALSE` stands where the system may stop: requests are bounded, processes end, and
a bridge whose client has left waits.

## 4. Proofs

All theorems are for every value of the constants, under the named assumptions of the modules
(`ThreadsAssumption`, `LensAssumption`, `PtysAssumption`, `DaysAssumption` and so on, each beside
the constants it is about), which TLC evaluates in the runs. Every invariant below was checked by
TLC before it was proved.

**SerialConnectionProofs.** `TypeOK` is not inductive: that `Advance` yields a byte, and that a
header has the two bytes `HeaderDone` reads, depends on where the cursors are. `TInv` adds
`LineOK` (the cursors are on frames that were asked for, `rd` not behind `dev`), `BufOK` (buffers
hold bytes that have been on the line), `MutualExclusion` and `HeaderOK`. It holds with deadlines,
port errors and dangling buffers and gives `TypeCorrect` and `OneReader`.

`OnceInv` adds that every byte in a vector is before `rd`, that the frames returned are before the
frame `rd` is in, and that a header being read, once it is not zeros, is younger than all that was
returned. With `WholeIsOld` (a frame put together whole had its last byte taken) it gives
`NoReplyTwice`, also with everything that can go wrong.

For a device in time and a port that does not fail (`~Slow`, `~Faulty`), `CalmInv` says where the
line is at each step of the holder of the mutex: at most one operation is outstanding, it is the
holder's, has taken its first `m` bytes, and `rd` stands `m` bytes further in the current frame; or
it is complete, the `io_service` is stopped and `rd` stands at its end; and with the mutex free,
the line is between two frames. From it follow `CalmFramesWhole`, `CalmIoReady` and
`CalmChannelSteps`, the safety half of the refinement: `BodyDone` is the channel's `Receive`,
`SendFrame` its `Ask`, everything else a stutter. `SoleInv` adds, for a thread that alone has
sent, that requests and frames returned are in step (`InStep`): `CalmSoleUserReplies`.

**FastLoggerProofs.** `Lifecycle` ties the flag, the thread and the main thread together: the flag
is set only with a live thread and the main thread not stopping; at the prompt with the flag
cleared there is no thread; iterators that are not held mean an edit. It holds for all registers,
with edits, and with a failing port, and gives `RestartIsSafe`, `AbortsAreExplained`,
`HeadersBetweenRows` and `LoggerIsSession`, the safety half of the refinement of `LogSession`.

`RowInv` is about the data: `Memory` (elements are registers, an iterator that is held is at a cell
of the block), `Written`, `Aligned` (without an edit the header is the vector, and the row is as
long as the iterator is far), `OneReply` (without a `get` in between, the one reply on the line is
the logger's, for the register at the iterator), `RowSoFar` (the row in the making). It gives
`LoggerTypeCorrect` and `RowsMatch`.

**FrameCodecProofs.** The sum of a frame is a recursive function, the code's loop (`Total`), so that
facts about it for frames of every length come from `SetInduction`, induction over a set of numbers,
which follows from the well-foundedness of the naturals without an operator parameter. `SumsDiffer`:
of two frames that differ in one byte, the sums differ by what the byte does; `SumsBounded`: a sum
of bytes is at most 255 times their number, and so fits in sixteen bits. `ChecksumIs` states the
checksum by the two bytes of the sum, `SameByte` what agreement modulo 256 leaves open, `GrowthSeen`
that only a growth by 255 across a multiple of 256 goes unseen. Together they give
`OneByteDetected`, for sums, and `ChangedByteDetected`, for whole frames of 2 to 258 bytes: a
changed byte, wherever it is, makes an intact frame one that is not, unless it changed between 0x00
and 0xFF.

**FrameExchangeProofs.** None of the properties is inductive, for what is printed was decoded from
bytes that the device made of bytes that a program made of a number. `Exchange` says what each of
them still knows of the number: `Asked` (the frame on its way to the device is what its sender
meant, with the bytes of what was typed), `Told` (an answer that nothing changed is intact and says
what the device did, with its content), `Flipped` (one that noise met differs from an intact frame
in one byte), `Known` (what was set and not overwritten is what the register holds), `Output` (what
is printed or logged is what the answer carries), beside `Types`. The lemmas under it take numbers
to bytes and back, for every width and sign, in each of the two programs' own way. It gives
`ExchangeTypeOK`, `GetShowsSet`, `ToolGetShowsSet`, `NoiseIsNotLogged`, with `ChangedByteDetected`,
and `LoggedFieldIsValue`, for any registers, numbers, codes, noise and uninitialised memory.

**VirtualUartProofs.** `Types` adds to `TypeOK` that a device is there when one is opened, and gives
`UartTypeCorrect`; that the kernel's lowest free number exists is `Lowest`, from the well-foundedness
of the naturals. `Left` says who has to kill which `socat`: one that is alive has its pid stored, or
is about to, or its process was terminated; ptys belong to live `socat`s; a process that ended has
joined its thread. It gives `SocatIsStopped`. For `OpensOwnDevice`, `FirstOwns` says that the log of
the first process in a directory is its own `socat`'s, line by line; and `NextOwns`, for processes
that run one after the other, that all ptys that are taken are the running one's, and that the log
names two different ptys once a process with a `socat` got past its scan, so that a `socat` never runs out of them
while its process has one open.

**FifoBridgeProofs.** `Types` adds that pieces are not empty and that what is in a FIFO is of a
request that was received: `BridgeTypeCorrect`. `OnTheWay` orders answers sent, the answer in the
FIFO, the request at the FEC and the request in the other FIFO: `AnswersInOrder`. `Smooth` and
`Turn` say that, if all goes smoothly, the one request that was not answered is in a FIFO, at the
FEC, or answered in the other FIFO, and that the FEC has both FIFOs when the server has: `SmoothAnswers`. That a line that leaves no piece of one byte
still leaves none after `TCP_LEN` bytes were taken (`SmoothReceive`) is what needs `smooth`.

**SerialBenchProofs.** `MscInv` is `MscTypes` and `Lock`: unless `lapsed`, at most one instance is
starting, what it has found out of the lock is still true at each of its steps, and the instance
that runs is the one the file names. It gives `LockIsHeld`. `ToolInv`: unless a signal was late, a
run is in one of three stages, before the deletion with every handler at its beginning
(`NotYet`), between deletion and null pointer, with the innermost handler there (`Deleting`), or
after it (`Leaving`). It gives `DeletesOnce`; both give `BenchTypeCorrect`.

`LineInv` is about both ends and the line. Unless an end was interrupted in an exchange
(`Settled`), there is one request (`OneRequest`), and what has become of it is in one place: on the
line, at one instance of the script, or in bytes of its answer on the way back (`AtMostOne`), and
nowhere when the tool does not read (`Closed`). While it does (`Open`), what is in `response.bin`
is the answer to it when its bytes are counted and sent, and what the tool has read and what is on
the line are, in this order, the first bytes of that answer (`Carries`). It needs no lock: a second
instance finds nothing on the line while the first has the request, so that it has nothing to
write. What `dd` left behind by a killed instance reads leaves the request open and nowhere. It
gives `OwnResponse`, for any number of instances, whether the lock works or not.

**PersonStoreProofs.** `Inv` is `RunsOK` (what each run has at each step), `RowsOK` (identifiers have
no gaps, and a row is the person of the saver it names, which is past its `INSERT` without an
error), `SaversOK` (an identifier about to be inserted is taken or is the next one; who was saved
and what was shown is in the table) and `AloneOK` (a run that met no other is alone in its
statements, and its identifier is still the next one). It gives `StoreTypeCorrect`, `AloneSaves`,
`LoadShows` and `StoreIsTable`, the refinement of `PersonTable`.

Every invariant and every action property of the passing runs has a theorem, and so has the safety
half of each refinement (`ChannelSteps` and `SessionSteps`, which the runs check as a part of
`ImplementsChannel` and `ImplementsSession`). Only model-checked: liveness (`LockReleased`,
`StopReturns`, `GetReturns`, `ProcessesEnd`, `RequestsAnswered`, `FifosMeet`) and the two
refinements with their fairness (`ImplementsChannel`, `ImplementsSession`), which rest on `ENABLED`
and are beyond the provers.

## 5. Not modelled

* `SerialConnection::readFrame(size)` and `setTimeout`, which nothing calls; the opening and closing
  of the port; `serial-claude/SignalHandler.cpp`, which nothing registers; time stamps.
* In `FastLogger`, a deadline that passes in the middle of a session: the reply then arrives into a
  later read and every column after it is shifted. `conn_timeout` shows the cause in
  `SerialConnection`; the effect on the log needs the composition of section 6.
* The end of the command line's input: `getline` then fails for ever, nothing clears `m_isRunning`,
  and the loop of `CommandLine.cpp:60-69` polls until the process is killed. It is a user who types
  nothing.
* In `UartCom`, what the bytes are that are transferred, and their number beyond none, some or all;
  the functions that set `termios`, which nothing calls (the ptys are as `socat` makes them, and a
  `read` from one waits for a byte); devices that are not ptys. A `write` is taken to fit into the
  pty's buffer, and does not wait.
* Text in the bridge, and a `read` that fills `fifoFromFecBuf` to its end (`Fits`).
* In the tool, the options of the port, and what a handler does to memory it interrupts the
  allocation of: the process is then killed, or stays (`Kill`). In the script, a lock file that
  cannot be written.
* In the person store, `persons.db` damaged by a crash: SQLite's statements are atomic.
* Data races are modelled by what this build does: an `int` or pointer is read or written whole;
  memory that is freed may hold anything. A crash on reading freed memory is not among the outcomes
  of `Cell`.
* The parsers of `xml-parser`, single-threaded generators of text; the tutorials and trials of
  section 1; `plot.py`: no state of their own beyond a call.

## 6. Plan

Done, in this order: connection, logger, frames, `uart-cli`, bridge; person store; tool, script and
bench; proofs of all of them. Left: `SerialCli`, `SerialConnection` and `FastLogger` composed, in
place of the assumed `line`, with deadlines that reach the logger.
