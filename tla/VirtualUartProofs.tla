--------------------------- MODULE VirtualUartProofs ---------------------------
(***************************************************************************)
(* Theorems about uart-cli, uart-com, uart-com-sim: types, no socat left    *)
(* behind, and whose device a process opens, for any processes and ptys.   *)
(***************************************************************************)
EXTENDS VirtualUart, WellFoundedInduction, TLAPS

Active == {"scans", "opens", "executes", "joins"}
Alive == {"started", "first", "transfers"}

-----------------------------------------------------------------------------
(* Types. *)

\* The kernel's lowest free number is one of the free numbers.
LEMMA Lowest ==
    ASSUME FreePtys # {}
    PROVE  /\ Min(FreePtys) \in FreePtys
           /\ Min(FreePtys) \in Ptys /\ pty[Min(FreePtys)] = Free
<1>1. FreePtys \subseteq Ptys /\ Ptys \subseteq Nat
  BY PtysAssumption DEF FreePtys
<1>2. PICK least \in FreePtys : \A n \in FreePtys : least <= n
  <2> DEFINE less == OpToRel(<, Nat)
  <2>1. IsWellFoundedOn(less, Nat) /\ FreePtys \subseteq Nat
    BY <1>1, NatLessThanWellFounded
  <2>2. \A m, n \in Nat : m < n => <<m, n>> \in less
    BY DEF OpToRel
  <2> HIDE DEF less
  <2>3. PICK least \in FreePtys : \A n \in FreePtys : <<n, least>> \notin less
    BY <2>1, WFMin
  <2>4. \A n \in FreePtys : ~(n < least)
    BY <1>1, <2>2, <2>3
  <2> QED
    BY <1>1, <2>3, <2>4
<1>3. Min(FreePtys) \in FreePtys
  BY <1>2, Zenon DEF Min
<1> QED
  BY <1>3 DEF FreePtys

Lines == Ptys \cup {NotAPty}

\* TypeOK is not inductive: that a handle is a pty depends on a device being
\* there when the main thread opens one.
Types ==
    /\ TypeOK
    /\ log \in Seq(Lines)
    /\ devices \in [Users -> Seq(Ptys)]
    /\ \A u \in Users : main[u] = "opens" => devices[u] # <<>>

\* What a line does to the log.
LEMMA LoggedLine ==
    ASSUME NEW line \in Lines, log \in Seq(Lines), Len(log) <= 2, Logged(line)
    PROVE  /\ log' \in Seq(Lines) /\ Len(log') <= 2
           /\ Len(log) = 2 => log' = log
           /\ Len(log) < 2 => /\ Len(log') = Len(log) + 1 /\ log'[Len(log) + 1] = line
                              /\ \A k \in 1 .. Len(log) : log'[k] = log[k]
<1>1. CASE Len(log) < 2
  BY <1>1 DEF Logged
<1>2. CASE ~(Len(log) < 2)
  BY <1>2 DEF Logged
<1> QED
  BY <1>1, <1>2

\* Nothing is logged at first, and nobody has looked.
LEMMA TypesInit == Init => Types
  BY DEF Init, Types, TypeOK, Lines, Gone, max_retries, Io

\* Who proceeds, opens or joins.
LEMMA ProceedsMain ==
    ASSUME Types, NEW u \in Users, NEW ds, Proceeds(u, ds)
    PROVE  /\ \A v \in Users : v # u => main'[v] = main[v] /\ devices'[v] = devices[v]
           /\ main'[u] \in {"joins", "opens"} /\ devices'[u] = ds
  BY DEF Types, TypeOK, Proceeds

\* What is left to open stays a sequence of at most two ptys.
LEMMA ProceedsTypes ==
    ASSUME Types, NEW u \in Users, NEW ds \in Seq(Ptys), Len(ds) <= 2, Proceeds(u, ds)
    PROVE  /\ devices' \in [Users -> Seq(Ptys)]
           /\ \A v \in Users : devices'[v] = IF v = u THEN ds ELSE devices[v]
           /\ \A v \in Users : Len(devices'[v]) <= 2
                               /\ \A k \in DOMAIN devices'[v] : devices'[v][k] \in Ptys
           /\ main' \in [Users -> Gone \cup Active]
           /\ \A v \in Users : main'[v] = IF v # u THEN main[v]
                                          ELSE IF ds = <<>> THEN "joins" ELSE "opens"
           /\ \A v \in Users : main'[v] = "opens" => devices'[v] # <<>>
<1>1. /\ devices' \in [Users -> Seq(Ptys)]
      /\ \A v \in Users : devices'[v] = IF v = u THEN ds ELSE devices[v]
  BY DEF Types, Proceeds
<1>2. \A v \in Users : main'[v] = IF v # u THEN main[v]
                                 ELSE IF ds = <<>> THEN "joins" ELSE "opens"
  BY DEF Types, TypeOK, Proceeds
<1>3. main' \in [Users -> Gone \cup Active]
  BY DEF Types, TypeOK, Proceeds, Active
<1>4. ASSUME NEW v \in Users
      PROVE  Len(devices'[v]) <= 2 /\ \A k \in DOMAIN devices'[v] : devices'[v][k] \in Ptys
  BY <1>1 DEF Types, TypeOK
<1> QED
  BY <1>1, <1>2, <1>3, <1>4 DEF Types, TypeOK

\* No, one or two ptys.
LEMMA AtMostTwo ==
    ASSUME NEW a \in Ptys, NEW b \in Ptys
    PROVE  /\ <<>> \in Seq(Ptys) /\ Len(<<>>) <= 2
           /\ <<a>> \in Seq(Ptys) /\ Len(<<a>>) <= 2
           /\ <<b, a>> \in Seq(Ptys) /\ Len(<<b, a>>) <= 2
  OBVIOUS

\* What a main thread that went past its scan opens.
LEMMA WantedTypes ==
    ASSUME Types, NEW u \in Users, ScanUartPairs(u), NEW ds \in Wanted
    PROVE  ds \in Seq(Ptys) /\ Len(ds) <= 2
<1>1. log[1] \in Ptys /\ log[2] \in Ptys
  BY DEF ScanUartPairs, Types, TypeOK
<1>2. ds \in {<<>>, <<log[1]>>, <<log[2]>>, <<log[2], log[1]>>}
  BY DEF Wanted
<1> QED
  BY <1>1, <1>2, AtMostTwo

\* What is left after the first.
LEMMA TailTypes ==
    ASSUME Types, NEW u \in Users, main[u] = "opens"
    PROVE  /\ Head(devices[u]) \in Ptys /\ devices[u] # <<>>
           /\ Tail(devices[u]) \in Seq(Ptys) /\ Len(Tail(devices[u])) <= 2
<1>1. devices[u] \in Seq(Ptys) /\ devices[u] # <<>> /\ Len(devices[u]) <= 2
  BY DEF Types, TypeOK
<1> QED
  BY <1>1

\* What a process does with its pty, whoever reads and hangs up.
LEMMA IoTypes == io \in [Users -> Io] /\ [Next]_vars => io' \in [Users -> Io]
<1> SUFFICES ASSUME io \in [Users -> Io], [Next]_vars PROVE io' \in [Users -> Io]
  OBVIOUS
<1>1. ASSUME NEW us, NEW from, NEW to \in Io PROVE Becomes(us, from, to) \in [Users -> Io]
  BY DEF Becomes
<1>2. ASSUME NEW ns PROVE HungUp(ns) \in [Users -> Io]
  BY DEF HungUp, Io
<1>3. {"none", "write", "select", "read", "starved", "hangup"} \subseteq Io
  BY DEF Io
<1>4. ASSUME NEW u \in Users, ExecuteAndClose(u) PROVE io' \in [Users -> Io]
  <2>1. Becomes(Sharing(u), "read", "starved") \in [Users -> Io]
    BY <1>1, <1>3
  <2> QED
    BY <1>3, <1>4, <2>1 DEF ExecuteAndClose, Taken
<1>5. ASSUME NEW u \in Users, Open(u) PROVE io' \in [Users -> Io]
  BY <1>3, <1>5 DEF Open, Uses
<1>6. ASSUME NEW u \in Users, Destroy(u) \/ OutOfPtys(u) PROVE io' \in [Users -> Io]
  BY <1>2, <1>6 DEF Destroy, OutOfPtys
<1>7. ASSUME NEW u \in Users, Readable(u) PROVE io' \in [Users -> Io]
  <2>1. Becomes(Sharing(u), "starved", "read") \in [Users -> Io]
    BY <1>1, <1>3
  <2> QED
    BY <1>3, <1>7, <2>1 DEF Readable
<1>8. CASE TerminalWindow
  BY <1>2, <1>8 DEF TerminalWindow
<1>11. ASSUME NEW u \in Users, io' = Becomes(Sharing(u), "read", "starved")
       PROVE  io' \in [Users -> Io]
  BY <1>1, <1>3, <1>11
<1>12. CASE ShellReads
  BY <1>11, <1>12 DEF ShellReads
<1>9. ASSUME NEW u \in Users,
             ScanRetries(u) \/ ScanUartPairs(u) \/ GenerateThrows(u) \/ ThreadSteps(u)
             \/ Run(u) \/ RunWithUart(u) \/ OpensPty(u)
      PROVE  io' \in [Users -> Io]
  BY <1>9 DEF ScanRetries, ScanUartPairs, GenerateThrows, ThreadSteps, Fork, StorePid,
     ThreadReturns, Run, RunWithUart, OpensPty
<1>10. CASE UNCHANGED vars
  BY <1>10 DEF vars
<1> QED
  BY <1>4, <1>5, <1>6, <1>7, <1>8, <1>9, <1>10, <1>12 DEF Next, MainSteps

\* A step in which something is there to read, or nothing happens.
Idle == (\E u \in Users : Readable(u)) \/ ShellReads \/ UNCHANGED vars

LEMMA IdleKeeps ==
    ASSUME Idle
    PROVE  UNCHANGED <<log, pty, main, thread, socat, socat_pid, retries, devices, handle, meanwhile>>
BY DEF Idle, Readable, ShellReads, vars

\* Every step of a process, of socat and of a terminal window keeps the types.
LEMMA TypesStep == Types /\ [Next]_vars => Types'
<1> SUFFICES ASSUME Types, [Next]_vars PROVE Types'
  OBVIOUS
<1>io. io' \in [Users -> Io]
  BY IoTypes DEF Types, TypeOK
<1> USE DEF Types, TypeOK, Gone
<1>0. log' \in Seq(Lines) => \A k \in DOMAIN log' : log'[k] \in Ptys \cup {NotAPty}
  BY DEF Lines
<1>z. 0 \in 0 .. max_retries
  BY DEF max_retries
<1>1. ASSUME NEW u \in Users, OpensPty(u) PROVE Types'
  <2>1. Min(FreePtys) \in Ptys
    BY <1>1, Lowest DEF OpensPty
  <2>2. Min(FreePtys) \in Lines
    BY <2>1 DEF Lines
  <2>3. log' \in Seq(Lines) /\ Len(log') <= 2
    BY <1>1, <2>2, LoggedLine DEF OpensPty
  <2> QED
    BY <1>io, <1>0, <1>1, <2>1, <2>3 DEF OpensPty
<1>2. ASSUME NEW u \in Users, OutOfPtys(u) PROVE Types'
  <2>1. log' \in Seq(Lines) /\ Len(log') <= 2
    BY <1>2, LoggedLine DEF OutOfPtys, Lines
  <2>2. pty' \in [Ptys -> Users \cup {Free, Terminal}]
    BY <1>2 DEF OutOfPtys, Released
  <2> QED
    BY <1>io, <1>0, <1>2, <2>1, <2>2 DEF OutOfPtys
<1>3. CASE TerminalWindow
  <2>1. FreePtys # {} => Min(FreePtys) \in Ptys
    BY Lowest
  <2> QED
    BY <1>io, <1>3, <2>1 DEF TerminalWindow
<1>4. ASSUME NEW u \in Users, ThreadSteps(u) PROVE Types'
  <2>1. CASE Fork(u)
    <3>1. UNCHANGED <<log, pty, main, socat_pid, retries, devices, handle, meanwhile>>
      BY <2>1 DEF Fork
    <3>2. thread' \in [Users -> {"none", "starting", "forked", "sleeps", "returned"}]
      BY <1>4, <2>1 DEF Fork
    <3>3. socat' \in [Users -> {"none", "started", "first", "transfers", "dead"}]
      BY <1>4, <2>1 DEF Fork
    <3> QED
      BY <1>io, <1>4, <3>1, <3>2, <3>3
  <2>2. CASE StorePid(u)
    BY <1>io, <1>4, <2>2 DEF StorePid
  <2>3. CASE ThreadReturns(u)
    BY <1>io, <1>4, <2>3 DEF ThreadReturns
  <2> QED
    BY <1>4, <2>1, <2>2, <2>3 DEF ThreadSteps
<1>5. ASSUME NEW u \in Users, ScanRetries(u) PROVE Types'
  <2>1. retries' = [retries EXCEPT ![u] = @ + 1] /\ retries[u] < max_retries
    BY <1>5 DEF ScanRetries, RetriesLeft, Retried
  <2>2. retries[u] + 1 \in 0 .. max_retries
    <3> HIDE DEF Types, TypeOK
    <3>1. retries[u] \in 0 .. max_retries
      BY DEF Types, TypeOK
    <3> QED
      BY <2>1, <3>1 DEF max_retries
  <2>3. retries' \in [Users -> 0 .. max_retries]
    BY <2>1, <2>2
  <2> QED
    BY <1>io, <1>5, <2>3 DEF ScanRetries
<1>6. ASSUME NEW u \in Users, Run(u) \/ GenerateThrows(u) PROVE Types'
  <2>1. retries' \in [Users -> 0 .. max_retries]
    BY <1>6, <1>z DEF Run, GenerateThrows
  <2> QED
    BY <1>io, <1>6, <2>1 DEF Run, Starts, GenerateThrows
<1>7. ASSUME NEW u \in Users, NEW ds \in Seq(Ptys), Len(ds) <= 2, Proceeds(u, ds),
             UNCHANGED <<log, pty, thread, socat, socat_pid, meanwhile>>,
             retries' \in [Users -> 0 .. max_retries],
             handle' \in [Users -> Ptys \cup {NotAPty}]
      PROVE  Types'
  <2> HIDE DEF Types, TypeOK
  <2>1. /\ devices' \in [Users -> Seq(Ptys)] /\ main' \in [Users -> Gone \cup Active]
        /\ \A v \in Users : Len(devices'[v]) <= 2
                           /\ \A k \in DOMAIN devices'[v] : devices'[v][k] \in Ptys
        /\ \A v \in Users : main'[v] = "opens" => devices'[v] # <<>>
    BY <1>7, ProceedsTypes
  <2> QED
    BY <1>io, <1>7, <2>1 DEF Types, TypeOK, Active
<1>11. ASSUME NEW u \in Users, RunWithUart(u) \/ ScanUartPairs(u) \/ ExecuteAndClose(u) PROVE Types'
  <2>1. handle' \in [Users -> Ptys \cup {NotAPty}] /\ retries' \in [Users -> 0 .. max_retries]
    BY <1>11, <1>z DEF RunWithUart, ScanUartPairs, ExecuteAndClose
  <2>2. CASE RunWithUart(u)
    <3>1. PICK ds \in {<<>>} \cup {<<n>> : n \in Ptys} : Proceeds(u, ds)
      BY <2>2 DEF RunWithUart
    <3>2. ds \in Seq(Ptys) /\ Len(ds) <= 2
      <4>1. CASE ds = <<>>
        BY <4>1
      <4>2. ASSUME NEW n \in Ptys, ds = <<n>> PROVE ds \in Seq(Ptys) /\ Len(ds) <= 2
        BY <4>2, AtMostTwo
      <4> QED
        BY <3>1, <4>1, <4>2
    <3> QED
      BY <1>7, <2>1, <2>2, <3>1, <3>2 DEF RunWithUart
  <2>3. CASE ScanUartPairs(u)
    <3>1. PICK ds \in Wanted : Proceeds(u, ds)
      BY <2>3 DEF ScanUartPairs
    <3>2. ds \in Seq(Ptys) /\ Len(ds) <= 2
      BY <2>3, <3>1, WantedTypes
    <3> QED
      BY <1>7, <2>1, <2>3, <3>1, <3>2 DEF ScanUartPairs
  <2>4. CASE ExecuteAndClose(u)
    <3>1. devices[u] \in Seq(Ptys) /\ Len(devices[u]) <= 2
      OBVIOUS
    <3> QED
      BY <1>7, <2>1, <2>4, <3>1 DEF ExecuteAndClose
  <2> QED
    BY <1>11, <2>2, <2>3, <2>4
<1>12. ASSUME NEW u \in Users, Open(u) PROVE Types'
  <2>1. /\ main[u] = "opens" /\ Head(devices[u]) \in Ptys
        /\ Tail(devices[u]) \in Seq(Ptys) /\ Len(Tail(devices[u])) <= 2
    BY <1>12, TailTypes DEF Open
  <2>2. CASE pty[Head(devices[u])] = Free
    BY <1>7, <1>12, <2>1, <2>2 DEF Open
  <2>3. CASE pty[Head(devices[u])] # Free
    <3>1. /\ devices' = [devices EXCEPT ![u] = Tail(devices[u])]
          /\ main' = [main EXCEPT ![u] = "executes"]
          /\ handle' = [handle EXCEPT ![u] = Head(devices[u])]
          /\ UNCHANGED <<log, pty, thread, socat, socat_pid, retries, meanwhile>>
      BY <1>12, <2>3 DEF Open
    <3>2. /\ devices' \in [Users -> Seq(Ptys)]
          /\ \A v \in Users : Len(devices'[v]) <= 2
                             /\ \A k \in DOMAIN devices'[v] : devices'[v][k] \in Ptys
      BY <2>1, <3>1
    <3> QED
      BY <1>io, <2>1, <3>1, <3>2
  <2> QED
    BY <2>2, <2>3
<1>8. ASSUME NEW u \in Users, Destroy(u) PROVE Types'
  <2>1. pty' \in [Ptys -> Users \cup {Free, Terminal}]
    BY <1>8 DEF Destroy, Released
  <2> QED
    BY <1>io, <1>8, <2>1 DEF Destroy
<1>9. CASE Idle
  BY <1>io, <1>9, IdleKeeps
<1> QED
  BY <1>1, <1>2, <1>3, <1>4, <1>5, <1>6, <1>8, <1>9, <1>11, <1>12 DEF Next, MainSteps, Idle

\* The type invariant, with every overlap of processes, sockets out of ptys and
\* terminal windows (VirtualUart.cpp, UartApplication.cpp).
THEOREM UartTypeCorrect == Spec => []TypeOK
<1>1. Types => TypeOK
  BY DEF Types
<1> QED
  BY <1>1, TypesInit, TypesStep, PTL DEF Spec

-----------------------------------------------------------------------------
(* Nothing left behind. *)

\* SocatStopped is not inductive: that the destructor kills depends on the pid
\* having been stored by a thread that is joined first.
LeftBy(u) ==
    /\ main[u] = "off" => thread[u] = "none" /\ socat[u] = "none"
    /\ main[u] = "ended" => thread[u] \in {"none", "returned"} /\ socat[u] \in {"none", "dead"}
    /\ thread[u] = "starting" => socat[u] = "none"
    /\ socat[u] \in Alive => socat_pid[u] \/ thread[u] = "forked" \/ main[u] = "terminated"
    /\ \A n \in Ptys : pty[n] = u => socat[u] \in {"first", "transfers"}
    /\ thread[u] = "none" /\ main[u] # "terminated" => socat[u] = "none" /\ ~socat_pid[u]

Left == \A u \in Users : LeftBy(u)

\* Every step keeps account of who has to kill which socat.
LEMMA LeftStep == Types /\ Left /\ [Next]_vars => Left'
<1> SUFFICES ASSUME Types, Left, [Next]_vars PROVE Left'
  OBVIOUS
<1> USE OwnersAssumption DEF Types, TypeOK, Left, LeftBy, Alive
<1>1. ASSUME NEW u \in Users, OpensPty(u) PROVE Left'
  <2>1. Min(FreePtys) \in Ptys
    BY <1>1, Lowest DEF OpensPty
  <2>2. /\ pty' = [pty EXCEPT ![Min(FreePtys)] = u] /\ UNCHANGED <<main, thread, socat_pid>>
        /\ socat[u] \in {"started", "first"}
        /\ socat' = [socat EXCEPT ![u] = IF @ = "started" THEN "first" ELSE "transfers"]
    BY <1>1 DEF OpensPty
  <2>3. /\ \A v \in Users : socat'[v] = IF v # u THEN socat[v]
                               ELSE IF socat[u] = "started" THEN "first" ELSE "transfers"
        /\ \A n \in Ptys : pty'[n] = IF n = Min(FreePtys) THEN u ELSE pty[n]
    BY <2>1, <2>2
  <2> QED
    BY <2>2, <2>3 DEF Left, LeftBy, Alive
<1>2. ASSUME NEW u \in Users, OutOfPtys(u) PROVE Left'
  <2>1. \A n \in Ptys : pty'[n] = IF pty[n] = u THEN Free ELSE pty[n]
    BY <1>2 DEF OutOfPtys, Released
  <2> QED
    BY <1>2, <2>1 DEF OutOfPtys
<1>3. CASE TerminalWindow
  <2>1. FreePtys # {} => Min(FreePtys) \in Ptys
    BY Lowest
  <2> QED
    <3>1. UNCHANGED <<main, thread, socat, socat_pid>>
      BY <1>3 DEF TerminalWindow
    <3>2. \A n \in Ptys : pty'[n] \in {pty[n], Free, Terminal}
      <4>1. \/ FreePtys # {} /\ pty' = [pty EXCEPT ![Min(FreePtys)] = Terminal]
            \/ \E m \in Ptys : pty' = [pty EXCEPT ![m] = Free]
        BY <1>3 DEF TerminalWindow
      <4> QED
        BY <2>1, <4>1
    <3>3. \A v \in Users : \A n \in Ptys : pty'[n] = v => pty[n] = v
      <4> HIDE DEF Types, TypeOK, Left, LeftBy
      <4>1. \A v \in Users : v # Free /\ v # Terminal
        BY OwnersAssumption
      <4> QED
        BY <3>2, <4>1
    <3> HIDE DEF Types, TypeOK
    <3> QED
      BY <3>1, <3>3 DEF Left, LeftBy
<1>4. ASSUME NEW u \in Users, ThreadSteps(u) PROVE Left'
  BY <1>4 DEF ThreadSteps, Fork, StorePid, ThreadReturns
<1>5. ASSUME NEW u \in Users, Run(u) PROVE Left'
  BY <1>5 DEF Run, Starts
<1>6. ASSUME NEW u \in Users, ScanRetries(u) \/ GenerateThrows(u) PROVE Left'
  BY <1>6 DEF ScanRetries, GenerateThrows
<1>7. ASSUME NEW u \in Users, RunWithUart(u) \/ ScanUartPairs(u) \/ Open(u) \/ ExecuteAndClose(u)
      PROVE Left'
  <2>1. UNCHANGED <<pty, thread, socat, socat_pid>> /\ main[u] \notin Gone \ {"off"}
    BY <1>7 DEF RunWithUart, Starts, ScanUartPairs, Open, ExecuteAndClose, Gone
  <2>2. (\E ds : Proceeds(u, ds)) \/ main' = [main EXCEPT ![u] = "executes"]
    BY <1>7 DEF RunWithUart, ScanUartPairs, Open, ExecuteAndClose
  <2>3. /\ \A v \in Users : v # u => main'[v] = main[v]
        /\ main'[u] \in {"joins", "opens", "executes"}
    BY <2>2, ProceedsMain
  <2> QED
    BY <2>1, <2>3 DEF Gone
<1>8. ASSUME NEW u \in Users, Destroy(u) PROVE Left'
  <2>1. CASE socat_pid[u]
    <3>1. \A n \in Ptys : pty'[n] = IF pty[n] = u THEN Free ELSE pty[n]
      BY <1>8, <2>1 DEF Destroy, Released
    <3>2. /\ \A v \in Users : main'[v] = IF v = u THEN "ended" ELSE main[v]
          /\ \A v \in Users : socat'[v] = IF v = u THEN "dead" ELSE socat[v]
          /\ UNCHANGED <<thread, socat_pid>> /\ thread[u] \in {"none", "returned"}
          /\ main[u] = "joins"
      BY <1>8, <2>1 DEF Destroy, JoinReturns
    <3>0. \A v \in Users : v # Free
      BY OwnersAssumption
    <3>3. /\ \A n \in Ptys : pty'[n] # u
          /\ \A v \in Users : v # u => \A n \in Ptys : pty'[n] = v => pty[n] = v
      <4> HIDE DEF Types, TypeOK, Left, LeftBy
      <4>1. ASSUME NEW n \in Ptys PROVE pty'[n] # u
        BY <3>0, <3>1
      <4>2. ASSUME NEW v \in Users, v # u, NEW n \in Ptys, pty'[n] = v PROVE pty[n] = v
        BY <3>0, <3>1, <4>2
      <4> QED
        BY <4>1, <4>2, Zenon
    <3> SUFFICES ASSUME NEW v \in Users PROVE LeftBy(v)'
      BY DEF Left
    <3>4. CASE v = u
      <4>1. thread[u] = "returned"
        BY <2>1, <3>2
      <4>2. main'[u] = "ended" /\ socat'[u] = "dead" /\ thread'[u] = "returned"
        BY <3>2, <4>1
      <4> QED
        BY <3>3, <3>4, <4>2
    <3>5. CASE v # u
      <4>1. main'[v] = main[v] /\ socat'[v] = socat[v] /\ UNCHANGED <<thread, socat_pid>>
        BY <3>2, <3>5
      <4>2. \A n \in Ptys : pty'[n] = v => pty[n] = v
        BY <3>3, <3>5
      <4> QED
        BY <4>1, <4>2
    <3> QED
      BY <3>4, <3>5
  <2>2. CASE ~socat_pid[u]
    <3>1. /\ \A v \in Users : main'[v] = IF v = u THEN "ended" ELSE main[v]
          /\ UNCHANGED <<socat, pty, thread, socat_pid>>
          /\ thread[u] \in {"none", "returned"} /\ main[u] = "joins"
      BY <1>8, <2>2 DEF Destroy, JoinReturns
    <3>2. socat[u] \in {"none", "dead"}
      BY <2>2, <3>1
    <3> QED
      BY <3>1, <3>2
  <2> QED
    BY <2>1, <2>2
<1>9. CASE Idle
  BY <1>9, IdleKeeps
<1> QED
  BY <1>1, <1>2, <1>3, <1>4, <1>5, <1>6, <1>7, <1>8, <1>9 DEF Next, MainSteps, Idle

\* There is no socat at first.
LEMMA LeftInit == Init => Left
  BY OwnersAssumption DEF Init, Left, LeftBy, Alive

\* No process that ends leaves a socat or a pty, whenever its main thread is
\* done, and whatever the other processes do (VirtualUart.cpp:22-33).
THEOREM SocatIsStopped == Spec => []SocatStopped
<1>1. Left => SocatStopped
  BY DEF Left, LeftBy, SocatStopped
<1> QED
  BY <1>1, LeftInit, LeftStep, TypesInit, TypesStep, PTL DEF Spec

-----------------------------------------------------------------------------
(* Whose device. *)

\* The log names two ptys.
Named == Len(log) = 2 /\ log[1] \in Ptys /\ log[2] \in Ptys /\ log[1] # log[2]

\* A main thread has a handle only between Open and ExecuteAndClose.
Handles == \A u \in Users : handle[u] # NotAPty => main[u] = "executes"

\* The log of the first process in a directory is what its own socat wrote.
Alone(u) ==
    /\ socat[u] \in {"none", "started"} => log = <<>>
    /\ socat[u] = "first" => Len(log) = 1 /\ log[1] \in Ptys /\ pty[log[1]] = u
    /\ socat[u] = "transfers" => Named /\ pty[log[1]] = u /\ pty[log[2]] = u
    /\ socat[u] = "dead" /\ main[u] = "scans" => ~Named /\ (Len(log) = 2 => log[2] = NotAPty)
    /\ main[u] \in {"opens", "executes", "joins"} =>
         /\ socat[u] = "transfers"
         /\ \A k \in 1 .. Len(devices[u]) : devices[u][k] \in {log[1], log[2]}
    /\ main[u] = "executes" => handle[u] \in {NotAPty, log[1], log[2]}

FirstOwns == \A u \in Users : First(u) /\ (main[u] = "off" \/ thread[u] # "none") => Alone(u)

\* Processes that run one after the other, none of which std::terminate ended.
OneByOne == meanwhile = "nothing" /\ \A u \in Users : main[u] # "terminated"

\* No pty but those of the process that runs is taken, and a process that got
\* past its scan leaves a log with two ptys.
NextOwns ==
    OneByOne =>
        /\ \A u, v \in Users : main[u] \in Active /\ main[v] \in Active => u = v
        /\ \A n \in Ptys : pty[n] # Terminal
        /\ \A u \in Users : main[u] \notin {"off", "scans"} => Named \/ thread[u] = "none"
        /\ Len(log) = 1 => log[1] = NotAPty \/ pty[log[1]] # Free
        /\ Len(log) = 2 => Named \/ NotAPty \in {log[1], log[2]}
        /\ \A u \in Users : socat[u] = "first" =>
             \A m, n \in Ptys : pty[m] = u /\ pty[n] = u => m = n
        /\ \A u \in Users : handle[u] # NotAPty => pty[handle[u]] = u

\* ~UartApplication closes what Open opened.
LEMMA HandlesStep == Types /\ Handles /\ [Next]_vars => Handles'
<1> SUFFICES ASSUME Types, Handles, [Next]_vars PROVE Handles'
  OBVIOUS
<1> USE DEF Types, TypeOK, Handles
<1>1. ASSUME NEW u \in Users, OpensPty(u) \/ OutOfPtys(u) \/ ThreadSteps(u) PROVE Handles'
  BY <1>1 DEF OpensPty, OutOfPtys, ThreadSteps, Fork, StorePid, ThreadReturns
<1>2. ASSUME NEW u \in Users, MainSteps(u) \/ Run(u) \/ RunWithUart(u) PROVE Handles'
  <2>1. CASE Run(u) \/ ScanRetries(u) \/ GenerateThrows(u) \/ Destroy(u)
    BY <2>1 DEF Run, Starts, ScanRetries, GenerateThrows, Destroy
  <2>2. CASE RunWithUart(u) \/ ScanUartPairs(u) \/ ExecuteAndClose(u)
    <3>1. (\E ds : Proceeds(u, ds)) /\ (handle' = handle \/ handle' = [handle EXCEPT ![u] = NotAPty])
      BY <2>2 DEF RunWithUart, ScanUartPairs, ExecuteAndClose
    <3>2. handle'[u] = NotAPty
      BY <2>2 DEF RunWithUart, Starts, ScanUartPairs, ExecuteAndClose
    <3>3. \A v \in Users : v # u => main'[v] = main[v] /\ handle'[v] = handle[v]
      BY <3>1, ProceedsMain
    <3> QED
      BY <3>1, <3>2, <3>3
  <2>3. CASE Open(u)
    <3>1. CASE pty[Head(devices[u])] = Free
      <4>1. Proceeds(u, Tail(devices[u])) /\ handle' = handle /\ main[u] = "opens"
        BY <2>3, <3>1 DEF Open
      <4>2. \A v \in Users : v # u => main'[v] = main[v]
        BY <4>1, ProceedsMain
      <4> QED
        BY <4>1, <4>2
    <3>2. CASE pty[Head(devices[u])] # Free
      BY <2>3, <3>2 DEF Open
    <3> QED
      BY <3>1, <3>2
  <2> QED
    BY <1>2, <2>1, <2>2, <2>3 DEF MainSteps
<1>3. CASE TerminalWindow \/ Idle
  BY <1>3, IdleKeeps DEF TerminalWindow
<1> QED
  BY <1>1, <1>2, <1>3 DEF Next, Idle

\* Nobody is off again, and std::terminate is the end.
LEMMA MainKeeps ==
    ASSUME Types, [Next]_vars
    PROVE  /\ meanwhile' = meanwhile
           /\ \A v \in Users : /\ main'[v] = "off" => main[v] = "off"
                               /\ main[v] = "terminated" => main'[v] = "terminated"
<1> USE DEF Types, TypeOK, Gone
<1> DEFINE Keeps == /\ meanwhile' = meanwhile
                    /\ \A v \in Users : /\ main'[v] = "off" => main[v] = "off"
                                        /\ main[v] = "terminated" => main'[v] = "terminated"
<1>1. ASSUME NEW w \in Users, RunWithUart(w) \/ ScanUartPairs(w) \/ ExecuteAndClose(w) \/ Open(w)
      PROVE  Keeps
  <2>1. (\E ds : Proceeds(w, ds)) \/ main' = [main EXCEPT ![w] = "executes"]
    BY <1>1 DEF RunWithUart, ScanUartPairs, ExecuteAndClose, Open
  <2>2. main[w] # "terminated" /\ meanwhile' = meanwhile
    BY <1>1 DEF RunWithUart, Starts, ScanUartPairs, ExecuteAndClose, Open
  <2>3. /\ main'[w] \in {"joins", "opens", "executes"}
        /\ \A x \in Users : x # w => main'[x] = main[x]
    BY <2>1, ProceedsMain
  <2> QED
    BY <2>2, <2>3
<1>2. CASE TerminalWindow \/ Idle
  BY <1>2, IdleKeeps DEF TerminalWindow
<1>3. ASSUME NEW w \in Users, OpensPty(w) \/ OutOfPtys(w) \/ ThreadSteps(w) PROVE Keeps
  BY <1>3 DEF OpensPty, OutOfPtys, ThreadSteps, Fork, StorePid, ThreadReturns
<1>4. ASSUME NEW w \in Users, Run(w) \/ ScanRetries(w) \/ GenerateThrows(w) \/ Destroy(w)
      PROVE  Keeps
  BY <1>4 DEF Run, Starts, ScanRetries, GenerateThrows, Destroy
<1> QED
  BY <1>1, <1>2, <1>3, <1>4 DEF Next, MainSteps, Idle

\* Nobody else than the first one has done anything.
LEMMA StaysFirst ==
    ASSUME Types, Left, [Next]_vars, NEW u \in Users, First(u)',
           main'[u] = "off" \/ thread'[u] # "none"
    PROVE  /\ First(u) /\ (main[u] = "off" \/ thread[u] # "none")
           /\ \A v \in Users \ {u} : thread[v] = "none" /\ socat[v] = "none"
<1> USE DEF Types, TypeOK
<1>1. ASSUME NEW v \in Users, main'[v] = "off" PROVE main[v] = "off"
  BY <1>1, MainKeeps
<1>2. ASSUME thread'[u] # "none" PROVE thread[u] # "none" \/ main[u] = "off"
  <2>1. CASE UNCHANGED thread
    BY <1>2, <2>1
  <2>2. ASSUME NEW w \in Users, Run(w) \/ ThreadSteps(w) \/ GenerateThrows(w)
        PROVE  thread[u] # "none" \/ main[u] = "off"
    BY <1>2, <2>2 DEF Run, Starts, GenerateThrows, ThreadSteps, Fork, StorePid, ThreadReturns
  <2> QED
    BY <2>1, <2>2, IdleKeeps DEF Next, MainSteps, OpensPty, OutOfPtys, TerminalWindow, Idle,
       RunWithUart, ScanRetries, ScanUartPairs, Open, ExecuteAndClose, Destroy
<1> QED
  BY <1>1, <1>2 DEF First, Left, LeftBy

\* Every step keeps the first process's log its own.
LEMMA FirstOwnsStep == Types /\ Left /\ Handles /\ FirstOwns /\ [Next]_vars => FirstOwns'
<1> SUFFICES ASSUME Types, Left, Handles, FirstOwns, [Next]_vars, NEW u \in Users, First(u)',
                    main'[u] = "off" \/ thread'[u] # "none"
             PROVE  Alone(u)'
  BY DEF FirstOwns
<1>0. Alone(u) /\ \A v \in Users \ {u} : main[v] = "off" /\ thread[v] = "none" /\ socat[v] = "none"
  BY StaysFirst DEF FirstOwns, First
<1>a. /\ log \in Seq(Lines) /\ Len(log) \in Nat /\ Len(log) <= 2 /\ NotAPty \notin Ptys
      /\ u # Free /\ u # Terminal
  <2>1. log \in Seq(Lines) /\ Len(log) <= 2
    BY DEF Types, TypeOK
  <2>2. Len(log) \in Nat
    BY <2>1
  <2> QED
    BY <2>1, <2>2, PtysAssumption, OwnersAssumption DEF NotAPty
<1> USE DEF Types, TypeOK, Alone, Named
<1>1. ASSUME NEW w \in Users, OpensPty(w) PROVE Alone(u)'
  <2> DEFINE n == Min(FreePtys)
  <2>1. w = u /\ n \in Ptys /\ pty[n] = Free /\ n \in Lines
    BY <1>0, <1>1, Lowest DEF OpensPty, Lines
  <2>2. /\ socat[u] \in {"started", "first"} /\ pty' = [pty EXCEPT ![n] = u] /\ Logged(n)
        /\ socat' = [socat EXCEPT ![u] = IF @ = "started" THEN "first" ELSE "transfers"]
        /\ UNCHANGED <<main, devices, handle>>
    BY <1>1, <2>1 DEF OpensPty
  <2> HIDE DEF n
  <2>3. /\ pty'[n] = u /\ \A m \in Ptys : m # n => pty'[m] = pty[m]
        /\ socat'[u] = IF socat[u] = "started" THEN "first" ELSE "transfers"
    BY <2>1, <2>2
  <2>4. CASE socat[u] = "started"
    <3>1. Len(log') = 1 /\ log'[1] = n
      BY <1>0, <1>a, <2>1, <2>2, <2>4, LoggedLine
    <3> QED
      BY <1>0, <2>1, <2>2, <2>3, <2>4, <3>1
  <2>5. CASE socat[u] = "first"
    <3>0. Len(log) = 1
      BY <1>0, <2>5
    <3>1. Len(log') = 2 /\ log'[1] = log[1] /\ log'[2] = n
      <4>1. /\ Len(log') = Len(log) + 1 /\ log'[Len(log) + 1] = n
            /\ \A k \in 1 .. Len(log) : log'[k] = log[k]
        BY <1>a, <2>1, <2>2, <3>0, LoggedLine
      <4> QED
        BY <3>0, <4>1
    <3> QED
      BY <1>0, <1>a, <2>1, <2>2, <2>3, <2>5, <3>1
  <2> QED
    BY <2>2, <2>4, <2>5
<1>2. ASSUME NEW w \in Users, OutOfPtys(w) PROVE Alone(u)'
  <2>1. w = u /\ NotAPty \in Lines
    BY <1>0, <1>2 DEF OutOfPtys, Lines
  <2>2. /\ socat[u] \in {"started", "first"} /\ Logged(NotAPty) /\ socat'[u] = "dead"
        /\ UNCHANGED <<main, devices, handle>>
    BY <1>2, <2>1 DEF OutOfPtys
  <2>3. Len(log) < 2
    BY <1>0, <1>a, <2>2
  <2>4. Len(log') = Len(log) + 1 /\ log'[Len(log) + 1] = NotAPty
    BY <1>a, <2>1, <2>2, <2>3, LoggedLine
  <2>5. main[u] \notin {"opens", "executes", "joins"}
    BY <1>0, <2>2
  <2>6. Len(log') = 2 => log'[2] = NotAPty
    BY <1>a, <2>3, <2>4
  <2> QED
    BY <1>a, <2>2, <2>5, <2>6
<1>3. CASE TerminalWindow
  <2>1. FreePtys # {} => Min(FreePtys) \in Ptys /\ pty[Min(FreePtys)] = Free
    BY Lowest
  <2>2. \A n \in Ptys : pty[n] = u => pty'[n] = u
    BY <1>3, <1>a, <2>1 DEF TerminalWindow
  <2> QED
    BY <1>0, <1>3, <2>2 DEF TerminalWindow
<1>4. ASSUME NEW w \in Users, ThreadSteps(w) PROVE Alone(u)'
  <2>1. w = u
    BY <1>0, <1>4 DEF ThreadSteps, Fork, StorePid, ThreadReturns
  <2>2. UNCHANGED <<log, pty, main, devices, handle>>
    BY <1>4 DEF ThreadSteps, Fork, StorePid, ThreadReturns
  <2>3. \/ socat' = socat
        \/ thread[u] = "starting" /\ socat'[u] \in {"started", "dead"}
    BY <1>4, <2>1 DEF ThreadSteps, Fork, StorePid, ThreadReturns
  <2>4. thread[u] = "starting" => socat[u] = "none"
    BY DEF Left, LeftBy
  <2> QED
    BY <1>0, <1>a, <2>2, <2>3, <2>4
<1>5. ASSUME NEW w \in Users, Run(w) \/ RunWithUart(w) PROVE Alone(u)'
  <2>0. w # u => main'[w] # "off" /\ main'[w] = "off"
    <3>1. CASE Run(w)
      BY <3>1 DEF Run, First
    <3>2. CASE RunWithUart(w)
      <4>1. \E ds : Proceeds(w, ds)
        BY <3>2 DEF RunWithUart
      <4> QED
        BY <4>1, ProceedsMain DEF First
    <3> QED
      BY <1>5, <3>1, <3>2
  <2>1. w = u /\ main[u] = "off" /\ thread[u] = "none"
    BY <1>5, <2>0 DEF Run, RunWithUart, Starts, Left, LeftBy
  <2>2. ~RunWithUart(u)
    <3> SUFFICES ASSUME RunWithUart(u) PROVE FALSE
      OBVIOUS
    <3>1. thread' = thread /\ \E ds : Proceeds(u, ds)
      BY DEF RunWithUart
    <3>2. main'[u] # "off"
      BY <3>1, ProceedsMain
    <3> QED
      BY <2>1, <3>1, <3>2
  <2>3. main'[u] = "scans" /\ UNCHANGED <<log, pty, socat, devices, handle>>
    BY <1>5, <2>1, <2>2 DEF Run
  <2>4. socat[u] = "none"
    BY <2>1 DEF Left, LeftBy
  <2> QED
    BY <1>0, <2>3, <2>4
<1>6. ASSUME NEW w \in Users, MainSteps(w) PROVE Alone(u)'
  <2>1. w = u
    BY <1>0, <1>6 DEF MainSteps, ScanRetries, ScanUartPairs, GenerateThrows, Open, ExecuteAndClose, Destroy
  <2>2. CASE ScanRetries(u) \/ GenerateThrows(u)
    BY <1>0, <2>2 DEF ScanRetries, GenerateThrows
  <2>3. CASE ScanUartPairs(u)
    <3>1. /\ main[u] = "scans" /\ Len(log) >= 2 /\ log[1] # NotAPty /\ log[2] # NotAPty
          /\ UNCHANGED <<log, pty, socat, handle>>
      BY <2>3 DEF ScanUartPairs
    <3>2. PICK ds \in Wanted : Proceeds(u, ds)
      BY <2>3 DEF ScanUartPairs
    <3>3. main'[u] \in {"joins", "opens"} /\ devices'[u] = ds
      BY <3>2, ProceedsMain
    <3>4. \A k \in 1 .. Len(ds) : ds[k] \in {log[1], log[2]}
      BY DEF Wanted
    <3>5. socat[u] = "transfers"
      <4>1. Len(log) = 2 /\ log # <<>>
        <5> HIDE DEF Types, TypeOK, Alone, Named
        <5>1. \A k \in Nat : k <= 2 /\ k >= 2 => k = 2
          OBVIOUS
        <5>2. Len(log) = 2
          BY <1>a, <3>1, <5>1
        <5> QED
          BY <5>2, SMTT(30)
      <4>2. socat[u] \in {"none", "started", "first", "transfers", "dead"}
        OBVIOUS
      <4> QED
        BY <1>0, <3>1, <4>1, <4>2
    <3> QED
      BY <1>0, <3>1, <3>3, <3>4, <3>5
  <2>4. CASE Open(u)
    <3>1. /\ main[u] = "opens" /\ UNCHANGED <<log, pty, socat>> /\ devices[u] # <<>>
          /\ handle'[u] \in {handle[u], Head(devices[u])} /\ devices'[u] = Tail(devices[u])
          /\ main'[u] \in {"joins", "opens", "executes"}
      <4>1. Proceeds(u, Tail(devices[u])) \/ pty[Head(devices[u])] # Free
        BY <2>4 DEF Open
      <4> QED
        BY <2>4, <4>1, ProceedsMain, ZenonT(30) DEF Open
    <3>2. handle[u] = NotAPty
      BY <3>1 DEF Handles
    <3>3. devices[u] \in Seq(Ptys)
      OBVIOUS
    <3>4. /\ Head(devices[u]) = devices[u][1] /\ 1 \in 1 .. Len(devices[u])
          /\ \A k \in 1 .. Len(Tail(devices[u])) :
               k + 1 \in 1 .. Len(devices[u]) /\ Tail(devices[u])[k] = devices[u][k + 1]
      <4> HIDE DEF Types, TypeOK, Alone, Named
      <4> QED
        BY <3>1, <3>3
    <3> QED
      BY <1>0, <3>1, <3>2, <3>4
  <2>5. CASE ExecuteAndClose(u)
    <3>1. /\ main[u] = "executes" /\ UNCHANGED <<log, pty, socat>> /\ Proceeds(u, devices[u])
      BY <2>5 DEF ExecuteAndClose
    <3>2. main'[u] \in {"joins", "opens"} /\ devices'[u] = devices[u]
      BY <3>1, ProceedsMain
    <3> QED
      BY <1>0, <3>1, <3>2
  <2>6. CASE Destroy(u)
    <3>1. /\ main[u] = "joins" /\ main'[u] = "ended" /\ UNCHANGED <<log, devices, handle>>
          /\ (socat'[u] = "dead") \/ (UNCHANGED <<socat, pty>>)
      BY <2>6 DEF Destroy
    <3> QED
      BY <1>0, <3>1
  <2> QED
    BY <1>6, <2>1, <2>2, <2>3, <2>4, <2>5, <2>6 DEF MainSteps
<1>7. CASE Idle
  BY <1>0, <1>7, IdleKeeps
<1> QED
  BY <1>1, <1>2, <1>3, <1>4, <1>5, <1>6, <1>7 DEF Next, Idle

\* While processes run one after the other, those with a socat run, and all ptys
\* are the running one's.
LEMMA OneRuns ==
    ASSUME Types, Left, NextOwns, OneByOne
    PROVE  /\ \A u \in Users : socat[u] \in Alive => main[u] \in Active
           /\ \A u \in Users : main[u] \in Active => \A n \in Ptys : pty[n] \in {Free, u}
<1>1. ASSUME NEW u \in Users, socat[u] \in Alive PROVE main[u] \in Active
  BY <1>1 DEF OneByOne, Left, LeftBy, Alive, Active, Types, TypeOK, Gone
<1>2. ASSUME NEW u \in Users, main[u] \in Active, NEW n \in Ptys PROVE pty[n] \in {Free, u}
  <2>1. pty[n] \in Users \cup {Free}
    BY DEF NextOwns, Types, TypeOK
  <2>2. pty[n] \in Users => socat[pty[n]] \in Alive
    BY DEF Left, LeftBy, Alive
  <2> QED
    BY <1>1, <1>2, <2>1, <2>2 DEF NextOwns
<1> QED
  BY <1>1, <1>2

\* Every step keeps the ptys with the process that runs.
LEMMA NextOwnsStep == Types /\ Left /\ Handles /\ NextOwns /\ [Next]_vars => NextOwns'
<1> SUFFICES ASSUME Types, Left, Handles, NextOwns, [Next]_vars, OneByOne' PROVE NextOwns'
  BY DEF NextOwns
<1>0. OneByOne
  BY MainKeeps DEF OneByOne
<1>a. log \in Seq(Lines) /\ Len(log) <= 2 /\ Len(log) \in {0, 1, 2} /\ NotAPty \notin Ptys
  <2>1. log \in Seq(Lines) /\ Len(log) <= 2
    BY DEF Types, TypeOK
  <2>2. \A k \in Nat : k <= 2 => k \in {0, 1, 2}
    OBVIOUS
  <2>3. Len(log) \in Nat
    BY <2>1
  <2> QED
    BY <2>1, <2>2, <2>3, PtysAssumption DEF NotAPty
<1>b. \A u \in Users : u # Free /\ u # Terminal
  BY OwnersAssumption
<1>1. ASSUME NEW u \in Users, OpensPty(u) PROVE NextOwns'
  <2> DEFINE n == Min(FreePtys)
  <2>1. n \in Ptys /\ pty[n] = Free /\ n \in Lines
    BY <1>1, Lowest DEF OpensPty, Lines
  <2>2. /\ socat[u] \in {"started", "first"} /\ pty' = [pty EXCEPT ![n] = u] /\ Logged(n)
        /\ socat' = [socat EXCEPT ![u] = IF @ = "started" THEN "first" ELSE "transfers"]
        /\ UNCHANGED <<main, thread, handle>>
    BY <1>1 DEF OpensPty
  <2> HIDE DEF n
  <2>3. /\ pty'[n] = u /\ \A m \in Ptys : m # n => pty'[m] = pty[m]
        /\ socat'[u] = IF socat[u] = "started" THEN "first" ELSE "transfers"
        /\ \A v \in Users : v # u => socat'[v] = socat[v]
    BY <2>1, <2>2 DEF Types, TypeOK
  <2>4. Named => Named' /\ UNCHANGED log
    BY <1>a, <2>1, <2>2, LoggedLine DEF Named
  <2>5. CASE Len(log) = 2
    <3>1. log' = log
      BY <1>a, <2>1, <2>2, <2>5, LoggedLine
    <3>2. \A v \in Users : socat'[v] = "first" =>
            \A m, k \in Ptys : pty'[m] = v /\ pty'[k] = v => m = k
      BY <2>2, <2>3, <1>0, <1>b, <2>1 DEF NextOwns, Left, LeftBy
    <3>3. \A v \in Users : handle[v] # NotAPty => pty'[handle[v]] = v
      BY <1>0, <1>b, <2>1, <2>3 DEF NextOwns, Types, TypeOK
    <3> QED
      BY <1>0, <1>b, <2>2, <2>3, <3>1, <3>2, <3>3 DEF NextOwns, Named
  <2>6. CASE Len(log) # 2
    <3>1. /\ Len(log') = Len(log) + 1 /\ log'[Len(log) + 1] = n
          /\ \A k \in 1 .. Len(log) : log'[k] = log[k]
      <4>0. \A k \in {0, 1, 2} : k # 2 => k < 2
        OBVIOUS
      <4>1. Len(log) < 2
        BY <1>a, <2>6, <4>0, Zenon
      <4> QED
        BY <1>a, <2>1, <2>2, <4>1, LoggedLine
    <3>2. \A v \in Users : socat'[v] = "first" =>
            \A m, k \in Ptys : pty'[m] = v /\ pty'[k] = v => m = k
      BY <2>2, <2>3, <1>0, <1>b, <2>1 DEF NextOwns, Left, LeftBy
    <3>3. \A v \in Users : handle[v] # NotAPty => pty'[handle[v]] = v
      BY <1>0, <1>b, <2>1, <2>3 DEF NextOwns, Types, TypeOK
    <3>4. \A v \in Users : main[v] \notin {"off", "scans"} => thread[v] = "none"
      BY <1>0, <2>6 DEF NextOwns, Named
    <3>5. Len(log') = 1 => log'[1] = n
      BY <1>a, <3>1
    <3>6. Len(log') = 2 => Named' \/ NotAPty \in {log'[1], log'[2]}
      <4>0. Len(log') = 2 => Len(log) = 1
        <5>1. \A k \in {0, 1, 2} : k + 1 = 2 => k = 1
          OBVIOUS
        <5> QED
          BY <1>a, <3>1, <5>1, Zenon
      <4> SUFFICES ASSUME Len(log) = 1 PROVE Named' \/ NotAPty = log'[1]
        BY <4>0
      <4>1. log'[1] = log[1] /\ log'[2] = n /\ Len(log') = 2
        BY <3>1
      <4>2. log[1] \in Ptys \/ log[1] = NotAPty
        BY <1>a DEF Lines
      <4>3. log[1] # NotAPty => pty[log[1]] # Free
        BY <1>0 DEF NextOwns
      <4> QED
        BY <2>1, <4>1, <4>2, <4>3 DEF Named
    <3> QED
      BY <1>0, <1>b, <2>1, <2>2, <2>3, <3>2, <3>3, <3>4, <3>5, <3>6 DEF NextOwns
  <2> QED
    BY <2>5, <2>6
<1>2. ASSUME NEW u \in Users, OutOfPtys(u) PROVE NextOwns'
  <2>1. /\ socat[u] \in {"started", "first"} /\ FreePtys = {} /\ Logged(NotAPty)
        /\ pty' = Released(u) /\ socat' = [socat EXCEPT ![u] = "dead"]
        /\ UNCHANGED <<main, thread, handle>> /\ NotAPty \in Lines
    BY <1>2 DEF OutOfPtys, Lines
  <2>2. main[u] \in Active /\ \A n \in Ptys : pty[n] = u
    BY <1>0, <2>1, OneRuns DEF FreePtys, Alive
  <2>3. ~Named
    BY <1>0, <2>1, <2>2 DEF Named, NextOwns, Left, LeftBy
  <2>4. \A v \in Users : main[v] \notin {"off", "scans"} => thread[v] = "none"
    BY <1>0, <2>3 DEF NextOwns
  <2>5. ASSUME NEW v \in Users, handle[v] # NotAPty PROVE FALSE
    <3>1. main[v] = "executes"
      BY <2>5 DEF Handles
    <3>2. v = u
      BY <1>0, <2>2, <3>1 DEF NextOwns, Active
    <3>3. thread[u] = "none"
      BY <2>4, <3>1, <3>2
    <3> QED
      BY <2>1, <3>1, <3>2, <3>3 DEF Left, LeftBy
  <2>6. /\ Len(log') = 1 => log'[1] = NotAPty
        /\ Len(log') = 2 => NotAPty \in {log'[1], log'[2]}
    <3>1. CASE Len(log) = 2
      BY <1>0, <1>a, <2>1, <2>3, <3>1, LoggedLine DEF NextOwns
    <3>2. CASE Len(log) = 1
      BY <1>a, <2>1, <3>2, LoggedLine
    <3>3. CASE Len(log) = 0
      BY <1>a, <2>1, <3>3, LoggedLine
    <3> QED
      BY <1>a, <3>1, <3>2, <3>3
  <2>7. \A n \in Ptys : pty'[n] = Free
    BY <2>1, <2>2 DEF Released
  <2>8. \A v \in Users : \A n \in Ptys : pty'[n] # v /\ pty'[n] # Terminal
    BY <1>b, <2>7, OwnersAssumption
  <2> QED
    BY <1>0, <2>1, <2>4, <2>5, <2>6, <2>8 DEF NextOwns
<1>3. CASE TerminalWindow
  BY <1>0, <1>3 DEF TerminalWindow, OneByOne
<1>4. ASSUME NEW u \in Users, ThreadSteps(u) PROVE NextOwns'
  <2>1. /\ UNCHANGED <<log, pty, main, handle>>
        /\ \A v \in Users : /\ socat'[v] = "first" => socat[v] = "first"
                            /\ thread[v] = "none" => thread'[v] = "none"
    BY <1>4 DEF ThreadSteps, Fork, StorePid, ThreadReturns, Types, TypeOK
  <2> QED
    BY <1>0, <2>1 DEF NextOwns, Named
<1>5. ASSUME NEW u \in Users, Run(u) PROVE NextOwns'
  <2>1. /\ UNCHANGED <<log, pty, socat, handle>> /\ main' = [main EXCEPT ![u] = "scans"]
        /\ thread' = [thread EXCEPT ![u] = "starting"] /\ \A v \in Users : main[v] \in Gone
    BY <1>0, <1>5 DEF Run, Starts, OneByOne
  <2>2. \A v \in Users : /\ main'[v] = IF v = u THEN "scans" ELSE main[v]
                         /\ v # u => thread'[v] = thread[v]
    BY <2>1 DEF Types, TypeOK
  <2> QED
    BY <1>0, <2>1, <2>2 DEF NextOwns, Named, Active, Gone
<1>6. ASSUME NEW u \in Users, RunWithUart(u) PROVE NextOwns'
  <2>1. /\ UNCHANGED <<log, pty, thread, socat, handle>> /\ main[u] = "off"
        /\ \A v \in Users : main[v] \in Gone
    BY <1>0, <1>6 DEF RunWithUart, Starts, OneByOne
  <2>2. \A v \in Users : v # u => main'[v] = main[v]
    <3>1. \E ds : Proceeds(u, ds)
      BY <1>6 DEF RunWithUart
    <3> QED
      BY <3>1, ProceedsMain
  <2>3. thread[u] = "none"
    BY <2>1 DEF Left, LeftBy
  <2> QED
    BY <1>0, <2>1, <2>2, <2>3 DEF NextOwns, Named, Active, Gone
<1>7. ASSUME NEW u \in Users, UNCHANGED <<log, pty, socat, thread>>, main[u] \in Active,
             Named \/ main[u] # "scans" \/ main'[u] = "scans",
             \A v \in Users : v # u => main'[v] = main[v],
             \A v \in Users : handle'[v] # NotAPty => pty[handle'[v]] = v
      PROVE  NextOwns'
  <2>1. \A v \in Users : main'[v] \in Active => main[v] \in Active
    BY <1>7
  <2>2. \A v \in Users : main'[v] \notin {"off", "scans"} => Named \/ thread[v] = "none"
    BY <1>0, <1>7 DEF NextOwns, Active
  <2> QED
    BY <1>0, <1>7, <2>1, <2>2 DEF NextOwns, Named
<1>8. ASSUME NEW u \in Users, ScanRetries(u) \/ ScanUartPairs(u) \/ ExecuteAndClose(u)
      PROVE  NextOwns'
  <2>0. /\ UNCHANGED <<log, pty, socat, thread>> /\ main[u] \in Active
        /\ handle' = handle \/ handle' = [handle EXCEPT ![u] = NotAPty]
    BY <1>8 DEF ScanRetries, ScanUartPairs, ExecuteAndClose, Active
  <2>1. \A v \in Users : handle'[v] # NotAPty => pty[handle'[v]] = v
    <3>1. \A v \in Users : handle'[v] # NotAPty => handle'[v] = handle[v]
      BY <2>0 DEF Types, TypeOK
    <3> QED
      BY <1>0, <3>1 DEF NextOwns
  <2>2. main' = main \/ \E ds : Proceeds(u, ds)
    BY <1>8 DEF ScanRetries, ScanUartPairs, ExecuteAndClose
  <2>3. \A v \in Users : v # u => main'[v] = main[v]
    BY <2>2, ProceedsMain
  <2>4. ScanUartPairs(u) => Named
    <3> SUFFICES ASSUME Len(log) >= 2, NotAPty \notin {log[1], log[2]} PROVE Named
      BY DEF ScanUartPairs
    <3>1. ~(0 >= 2) /\ ~(1 >= 2)
      OBVIOUS
    <3>2. Len(log) = 2
      BY <1>a, <3>1
    <3> QED
      BY <1>0, <3>2 DEF NextOwns
  <2>5. ScanUartPairs(u) \/ main[u] # "scans" \/ main'[u] = "scans"
    BY <1>8 DEF ScanRetries, ExecuteAndClose
  <2> QED
    BY <1>7, <2>0, <2>1, <2>3, <2>4, <2>5
<1>9. ASSUME NEW u \in Users, Open(u) PROVE NextOwns'
  <2> DEFINE n == Head(devices[u])
  <2>1. main[u] = "opens" /\ UNCHANGED <<log, pty, socat, thread>> /\ n \in Ptys
    BY <1>9, TailTypes DEF Open
  <2>2. \/ handle' = handle /\ Proceeds(u, Tail(devices[u]))
        \/ /\ pty[n] # Free /\ handle' = [handle EXCEPT ![u] = n]
           /\ main' = [main EXCEPT ![u] = "executes"]
    BY <1>9 DEF Open
  <2> HIDE DEF n
  <2>3. pty[n] # Free => pty[n] = u
    BY <1>0, <2>1, OneRuns DEF Active
  <2>4. \A v \in Users : v # u => main'[v] = main[v]
    <3>1. main' = [main EXCEPT ![u] = "executes"] => \A v \in Users : v # u => main'[v] = main[v]
      BY DEF Types, TypeOK
    <3> QED
      BY <2>2, <3>1, ProceedsMain
  <2>5. \A v \in Users : handle'[v] # NotAPty => pty[handle'[v]] = v
    BY <1>0, <2>2, <2>3 DEF NextOwns, Types, TypeOK
  <2> QED
    BY <1>7, <2>1, <2>4, <2>5 DEF Active
<1>11. ASSUME NEW u \in Users, Destroy(u) PROVE NextOwns'
  <2>1. /\ UNCHANGED <<log, handle, thread>> /\ main[u] = "joins"
        /\ main' = [main EXCEPT ![u] = "ended"]
        /\ \/ UNCHANGED <<socat, pty>>
           \/ pty' = Released(u) /\ socat' = [socat EXCEPT ![u] = "dead"]
    BY <1>11 DEF Destroy
  <2>2. \A v \in Users : handle[v] = NotAPty
    BY <1>0, <2>1 DEF NextOwns, Handles, Active
  <2>3. \A v \in Users : /\ main'[v] \in Active => main[v] \in Active
                         /\ main'[v] \notin {"off", "scans"} => main[v] \notin {"off", "scans"}
                         /\ socat'[v] = "first" => socat[v] = "first"
    BY <2>1 DEF Active, Types, TypeOK
  <2>4. \A n \in Ptys : pty'[n] \in {pty[n], Free}
    BY <2>1 DEF Released
  <2>5. Named \/ \A n \in Ptys : pty'[n] = pty[n]
    <3>1. CASE thread[u] = "none"
      <4>1. \A n \in Ptys : pty[n] # u
        BY <2>1, <3>1 DEF Left, LeftBy
      <4> QED
        BY <2>1, <4>1 DEF Released
    <3>2. CASE thread[u] # "none"
      BY <1>0, <2>1, <3>2 DEF NextOwns
    <3> QED
      BY <3>1, <3>2
  <2>6. Len(log) = 1 => log[1] = NotAPty \/ pty'[log[1]] # Free
    <3> SUFFICES ASSUME Len(log) = 1, log[1] # NotAPty PROVE pty'[log[1]] # Free
      OBVIOUS
    <3>1. log[1] \in Ptys
      <4>1. log[1] \in Lines
        BY <1>a
      <4> QED
        BY <4>1 DEF Lines
    <3>2. ~Named
      BY DEF Named
    <3> QED
      BY <1>0, <2>5, <3>1, <3>2 DEF NextOwns
  <2>7. Free # Terminal
    BY OwnersAssumption
  <2> QED
    BY <1>0, <1>b, <2>1, <2>2, <2>3, <2>4, <2>6, <2>7 DEF NextOwns, Named
<1>10. CASE Idle
  BY <1>0, <1>10, IdleKeeps DEF NextOwns, Named
<1> QED
  BY <1>1, <1>2, <1>3, <1>4, <1>5, <1>6, <1>8, <1>9, <1>10, <1>11 DEF Next, MainSteps,
     OneByOne, GenerateThrows, Types, TypeOK, Gone, Idle

\* The first process in a directory opens a pty of its own socat, whatever
\* terminal windows and later processes do; and so does every process, if they
\* run one after the other, from its own log or an old one (VirtualUart.cpp:79).
THEOREM OpensOwnDevice == Spec => []OwnDevice
<1>1. Init => Handles /\ FirstOwns /\ NextOwns
  BY OwnersAssumption DEF Init, Handles, FirstOwns, Alone, NextOwns, Named, Active, OneByOne
<1>2. Types /\ Handles /\ FirstOwns /\ NextOwns => OwnDevice
  <2> SUFFICES ASSUME Handles, FirstOwns, NextOwns, NEW u \in Users, handle[u] # NotAPty,
                      thread[u] # "none",
                      First(u) \/ (meanwhile = "nothing" /\ \A v \in Users : main[v] # "terminated")
               PROVE  pty[handle[u]] = u
    BY DEF OwnDevice
  <2>1. CASE First(u)
    BY <2>1 DEF FirstOwns, Alone, Handles
  <2>2. CASE ~First(u)
    BY <2>2 DEF NextOwns, OneByOne
  <2> QED
    BY <2>1, <2>2
<1> QED
  BY <1>1, <1>2, TypesInit, TypesStep, LeftInit, LeftStep, HandlesStep, FirstOwnsStep, NextOwnsStep,
     PTL DEF Spec

=============================================================================
