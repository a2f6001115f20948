------------------------------ MODULE VirtualUart ------------------------------
(***************************************************************************)
(* UartCom/main.cpp, uart-com.cpp and uart-com-sim.cpp with VirtualUart.cpp *)
(* and UartApplication.cpp: processes run in one directory.  Each starts a  *)
(* thread that forks socat, which creates two connected ptys and appends    *)
(* their names to a log file, and the main thread takes the names from the  *)
(* file's first two lines; or it is told a device, and has no socat.        *)
(*                                                                         *)
(* The file outlives the processes.  A line is the number of the pty it    *)
(* names, or NotAPty for a line of another form; only its first two lines  *)
(* are ever used, and kept here.  Socat and the kernel, which numbers ptys *)
(* from the lowest free number, are external.                              *)
(***************************************************************************)
EXTENDS Integers, Sequences, FiniteSetsExt

CONSTANTS
    Users,      \* processes of the three programs, each run once
    Ptys,       \* the numbers of ptys there are
    Free,       \* nobody's pty
    Terminal    \* somebody else's: a terminal window

ASSUME OwnersAssumption == Free \notin Users /\ Terminal \notin Users /\ Free # Terminal
ASSUME PtysAssumption == Ptys \subseteq Nat \ {0}

NotAPty == 0
max_retries == 5

VARIABLES
    log,        \* the first two lines of virtual-uart-info.txt
    pty,        \* whose each pty is: a process stands for its socat
    main,       \* the main thread of each process
    thread,     \* its fVirtualUartThread: none, too, if it has no VirtualUart
    socat,      \* its socat
    socat_pid,  \* whether the process knows its socat
    retries,    \* while it scans; 0 else
    devices,    \* the ptys that each process is still going to open
    handle,     \* the pty the process has open, or NotAPty
    io,         \* what it does there: "write", "select", "read" when select has
                \* returned for something to read, "starved" in a read of what
                \* another process has read since, "hangup" if the pty is gone
    meanwhile   \* never changes: "nothing" if the processes run one after the
                \* other, "overlap" if not, "terminals" if terminal windows are
                \* opened and closed between and while they run

vars == <<log, pty, main, thread, socat, socat_pid, retries, devices, handle, io, meanwhile>>

Init ==
    /\ log = <<>>
    /\ meanwhile \in {"nothing", "overlap", "terminals"}
    /\ pty \in [Ptys -> IF meanwhile = "terminals" THEN {Free, Terminal} ELSE {Free}]
    /\ main = [u \in Users |-> "off"]
    /\ thread = [u \in Users |-> "none"]
    /\ socat = [u \in Users |-> "none"]
    /\ socat_pid = [u \in Users |-> FALSE]
    /\ retries = [u \in Users |-> 0]
    /\ devices = [u \in Users |-> <<>>]
    /\ handle = [u \in Users |-> NotAPty]
    /\ io = [u \in Users |-> "none"]

Gone == {"off", "ended", "terminated"}

-----------------------------------------------------------------------------
(* Socat. *)

Logged(line) == log' = IF Len(log) < 2 THEN Append(log, line) ELSE log
FreePtys == {n \in Ptys : pty[n] = Free}
Released(u) == [n \in Ptys |-> IF pty[n] = u THEN Free ELSE pty[n]]

\* Who has one of the ptys open when they go: its select and read return.
HungUp(ns) == [u \in Users |-> IF handle[u] \in ns THEN "hangup" ELSE io[u]]

\* Socat opens its first pty, then its second.
OpensPty(u) ==
    /\ socat[u] \in {"started", "first"}
    /\ FreePtys # {}
    /\ pty' = [pty EXCEPT ![Min(FreePtys)] = u]
    /\ Logged(Min(FreePtys))
    /\ socat' = [socat EXCEPT ![u] = IF @ = "started" THEN "first" ELSE "transfers"]
    /\ UNCHANGED <<main, thread, socat_pid, retries, devices, handle, io, meanwhile>>

\* There is no pty left: socat says so in its log, and exits.
OutOfPtys(u) ==
    /\ socat[u] \in {"started", "first"}
    /\ FreePtys = {}
    /\ Logged(NotAPty)
    /\ pty' = Released(u)
    /\ io' = HungUp({n \in Ptys : pty[n] = u})
    /\ socat' = [socat EXCEPT ![u] = "dead"]
    /\ UNCHANGED <<main, thread, socat_pid, retries, devices, handle, meanwhile>>

TerminalWindow ==
    /\ meanwhile = "terminals"
    /\ \/ FreePtys # {} /\ pty' = [pty EXCEPT ![Min(FreePtys)] = Terminal] /\ UNCHANGED io
       \/ \E n \in Ptys : /\ pty[n] = Terminal
                          /\ pty' = [pty EXCEPT ![n] = Free] /\ io' = HungUp({n})
    /\ UNCHANGED <<log, main, thread, socat, socat_pid, retries, devices, handle, meanwhile>>

\* Who has the pty open that u has.
Sharing(u) == {v \in Users : handle[v] = handle[u]}
Becomes(us, from, to) == [v \in Users |-> IF v \in us /\ io[v] = from THEN to ELSE io[v]]

\* Something to read, from the other pty of the pair: u's select returns, and
\* whoever waits for it in a read has it, too.
Readable(u) ==
    /\ io[u] \in {"select", "starved"}
    /\ io' = [Becomes(Sharing(u), "starved", "read") EXCEPT ![u] = "read"]
    /\ UNCHANGED <<log, pty, main, thread, socat, socat_pid, retries, devices, handle, meanwhile>>

\* What is typed into a terminal window is its shell's, too.
ShellReads ==
    /\ \E u \in Users : /\ io[u] = "read" /\ pty[handle[u]] = Terminal
                        /\ io' = Becomes(Sharing(u), "read", "starved")
    /\ UNCHANGED <<log, pty, main, thread, socat, socat_pid, retries, devices, handle, meanwhile>>

-----------------------------------------------------------------------------
(* The thread of VirtualUart. *)

\* The child becomes socat, or fails to, while the parent still has to store
\* its pid; or there is no child.
Fork(u) ==
    /\ thread[u] = "starting"
    /\ \/ /\ thread' = [thread EXCEPT ![u] = "forked"]
          /\ \E s \in {"started", "dead"} : socat' = [socat EXCEPT ![u] = s]
       \/ /\ thread' = [thread EXCEPT ![u] = "sleeps"]
          /\ UNCHANGED socat
    /\ UNCHANGED <<log, pty, main, socat_pid, retries, devices, handle, io, meanwhile>>

StorePid(u) ==
    /\ thread[u] = "forked"
    /\ socat_pid' = [socat_pid EXCEPT ![u] = TRUE]
    /\ thread' = [thread EXCEPT ![u] = "sleeps"]
    /\ UNCHANGED <<log, pty, main, socat, retries, devices, handle, io, meanwhile>>

ThreadReturns(u) ==
    /\ thread[u] = "sleeps"
    /\ thread' = [thread EXCEPT ![u] = "returned"]
    /\ UNCHANGED <<log, pty, main, socat, socat_pid, retries, devices, handle, io, meanwhile>>

-----------------------------------------------------------------------------
(* The main thread. *)

Starts(u) ==
    /\ main[u] = "off"
    /\ meanwhile = "overlap" \/ \A v \in Users : main[v] \in Gone

Run(u) ==
    /\ Starts(u)
    /\ main' = [main EXCEPT ![u] = "scans"]
    /\ thread' = [thread EXCEPT ![u] = "starting"]
    /\ UNCHANGED <<log, pty, socat, socat_pid, retries, devices, handle, io, meanwhile>>

\* The devices ds are what is left to open; after them, the destructors run.
Proceeds(u, ds) ==
    /\ devices' = [devices EXCEPT ![u] = ds]
    /\ main' = [main EXCEPT ![u] = IF ds = <<>> THEN "joins" ELSE "opens"]

\* uart-cli and uart-com with -uart and a pty; or with wrong arguments.
RunWithUart(u) ==
    /\ Starts(u)
    /\ \E ds \in {<<>>} \cup {<<n>> : n \in Ptys} : Proceeds(u, ds)
    /\ UNCHANGED <<log, pty, thread, socat, socat_pid, retries, handle, io, meanwhile>>

\* Mutant: a retry that is not counted.
Retried_Uncounted(u) == retries' = retries

Retried(u) == retries' = [retries EXCEPT ![u] = @ + 1]

\* Mutant: one retry too many.
RetriesLeft_OneMore(u) == retries[u] <= max_retries

RetriesLeft(u) == retries[u] < max_retries

\* No file, or fewer than two lines.
ScanRetries(u) ==
    /\ main[u] = "scans"
    /\ RetriesLeft(u)
    /\ Len(log) < 2
    /\ Retried(u)
    /\ UNCHANGED <<log, pty, main, thread, socat, socat_pid, devices, handle, io, meanwhile>>

\* uart-cli opens fUartRead if it is given -read, otherwise fUartWrite, and
\* nothing if its arguments are wrong; uart-com-sim writes and then reads.
Wanted == {<<>>, <<log[1]>>, <<log[2]>>, <<log[2], log[1]>>}

ScanUartPairs(u) ==
    /\ main[u] = "scans"
    /\ RetriesLeft(u)
    /\ Len(log) >= 2
    /\ NotAPty \notin {log[1], log[2]}
    /\ \E ds \in Wanted : Proceeds(u, ds)
    /\ retries' = [retries EXCEPT ![u] = 0]
    /\ UNCHANGED <<log, pty, thread, socat, socat_pid, handle, io, meanwhile>>

\* Generate throws: the retries are used up, or a line does not have seven
\* tokens.  main calls it outside of its try: std::terminate.
GenerateThrows(u) ==
    /\ main[u] = "scans"
    /\ ~RetriesLeft(u) \/ (Len(log) >= 2 /\ NotAPty \in {log[1], log[2]})
    /\ main' = [main EXCEPT ![u] = "terminated"]
    /\ thread' = [thread EXCEPT ![u] = "none"]
    /\ retries' = [retries EXCEPT ![u] = 0]
    /\ UNCHANGED <<log, pty, socat, socat_pid, devices, handle, io, meanwhile>>

\* A pty that is named in the log is read from if it is the first, written to
\* if the second; -uart is given with either.
Uses(u, n) ==
    {use \in {"write", "select"} :
        thread[u] # "none" => n = IF use = "select" THEN log[1] ELSE log[2]}

\* A pty that is not there cannot be opened, which ends uart-cli and uart-com;
\* uart-com-sim goes on.
Open(u) ==
    /\ main[u] = "opens"
    /\ IF pty[Head(devices[u])] = Free
       THEN Proceeds(u, Tail(devices[u])) /\ UNCHANGED <<handle, io>>
       ELSE /\ main' = [main EXCEPT ![u] = "executes"]
            /\ handle' = [handle EXCEPT ![u] = Head(devices[u])]
            /\ \E use \in Uses(u, Head(devices[u])) : io' = [io EXCEPT ![u] = use]
            /\ devices' = [devices EXCEPT ![u] = Tail(@)]
    /\ UNCHANGED <<log, pty, thread, socat, socat_pid, retries, meanwhile>>

\* What u has read, if it has, is all there is, or not.
Taken(u) ==
    \/ io' = [io EXCEPT ![u] = "none"]
    \/ io[u] = "read" /\ io' = [Becomes(Sharing(u), "read", "starved") EXCEPT ![u] = "none"]

\* Mutant: the handle left open.
ExecuteAndClose_NotClosed(u) ==
    /\ main[u] = "executes"
    /\ io[u] # "starved"
    /\ Proceeds(u, devices[u])
    /\ Taken(u)
    /\ UNCHANGED <<log, pty, thread, socat, socat_pid, retries, handle, meanwhile>>

\* Write, which fits into the pty; or Read, of which select waits at most five
\* seconds, but read, once select has returned, as long as there is nothing to
\* read.  Then the handle is closed.
ExecuteAndClose(u) ==
    /\ main[u] = "executes"
    /\ io[u] # "starved"
    /\ Proceeds(u, devices[u])
    /\ handle' = [handle EXCEPT ![u] = NotAPty]
    /\ Taken(u)
    /\ UNCHANGED <<log, pty, thread, socat, socat_pid, retries, meanwhile>>

\* Mutant: the thread detached.
JoinReturns_Detached(u) == TRUE

JoinReturns(u) == thread[u] \in {"none", "returned"}

\* ~VirtualUart: join the thread, then kill socat and wait for it.
Destroy(u) ==
    /\ main[u] = "joins"
    /\ JoinReturns(u)
    /\ main' = [main EXCEPT ![u] = "ended"]
    /\ IF socat_pid[u]
       THEN /\ socat' = [socat EXCEPT ![u] = "dead"] /\ pty' = Released(u)
            /\ io' = HungUp({n \in Ptys : pty[n] = u})
       ELSE UNCHANGED <<socat, pty, io>>
    /\ UNCHANGED <<log, thread, socat_pid, retries, devices, handle, meanwhile>>

MainSteps(u) ==
    \/ ScanRetries(u) \/ ScanUartPairs(u) \/ GenerateThrows(u)
    \/ Open(u) \/ ExecuteAndClose(u) \/ Destroy(u)
ThreadSteps(u) == Fork(u) \/ StorePid(u) \/ ThreadReturns(u)

Next ==
    \/ \E u \in Users : \/ Run(u) \/ RunWithUart(u) \/ MainSteps(u) \/ ThreadSteps(u)
                       \/ OpensPty(u) \/ OutOfPtys(u) \/ Readable(u)
    \/ TerminalWindow \/ ShellReads

\* Both threads of a process are scheduled; socat and who writes owe nothing.
Spec == Init /\ [][Next]_vars /\ \A u \in Users : WF_vars(MainSteps(u)) /\ WF_vars(ThreadSteps(u))

-----------------------------------------------------------------------------
(* What has to be true of it. *)

Io == {"none", "write", "select", "read", "starved", "hangup"}

TypeOK ==
    /\ Len(log) <= 2 /\ \A k \in DOMAIN log : log[k] \in Ptys \cup {NotAPty}
    /\ pty \in [Ptys -> Users \cup {Free, Terminal}]
    /\ main \in [Users -> Gone \cup {"scans", "opens", "executes", "joins"}]
    /\ thread \in [Users -> {"none", "starting", "forked", "sleeps", "returned"}]
    /\ socat \in [Users -> {"none", "started", "first", "transfers", "dead"}]
    /\ socat_pid \in [Users -> BOOLEAN]
    /\ retries \in [Users -> 0 .. max_retries]
    /\ \A u \in Users : Len(devices[u]) <= 2 /\ \A k \in DOMAIN devices[u] : devices[u][k] \in Ptys
    /\ handle \in [Users -> Ptys \cup {NotAPty}]
    /\ io \in [Users -> Io]
    /\ meanwhile \in {"nothing", "overlap", "terminals"}

\* A process that ends, other than by std::terminate, leaves no socat and no
\* pty behind, however early the names in an old log let its main thread finish
\* (VirtualUart.cpp:22-33).
SocatStopped ==
    \A u \in Users : main[u] = "ended" =>
        socat[u] \in {"none", "dead"} /\ \A n \in Ptys : pty[n] # u

\* A process that was not told a device opens a pty of its own socat if it is the
\* first one in its directory; or if the processes run one after the other and
\* nobody else opens ptys, although then, from the second on, they take the names
\* from the first one's log: the numbers are free again and are given again.
First(u) == \A v \in Users \ {u} : main[v] = "off"
OwnDevice ==
    \A u \in Users :
        /\ handle[u] # NotAPty /\ thread[u] # "none"
        /\ First(u) \/ (meanwhile = "nothing" /\ \A v \in Users : main[v] # "terminated")
        => pty[handle[u]] = u

\* A process that starts ends, by itself or by std::terminate, whatever socat
\* does (VirtualUart.cpp:79), unless it is starved for ever, or again and again: it
\* reads, without a timeout, what its select saw and somebody else with the same
\* pty took (UartCom.cpp:85, :95).  That cannot be if the processes run one after
\* the other and nobody else opens ptys.
ProcessesEnd ==
    \A u \in Users :
        \/ main[u] \notin Gone ~> main[u] \in Gone
        \/ []<>(io[u] = "starved" /\ meanwhile # "nothing")
=============================================================================
