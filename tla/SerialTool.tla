------------------------------ MODULE SerialTool ------------------------------
(***************************************************************************)
(* serial/main.cpp with SignalHandler.cpp, SerialConnection.cpp and        *)
(* CommandHandler.cpp: a command line for one serial line, run several     *)
(* times, one run after the other.  The connection is an object that main  *)
(* creates and deletes, and that a signal's handler deletes, too, through  *)
(* a global pointer; handlers of different signals nest.                   *)
(*                                                                         *)
(* A request is its number.  What a run left unread stays on the line.     *)
(***************************************************************************)
EXTENDS Integers, Sequences

CONSTANTS
    Signals,      \* those the handler is registered for
    MaxRuns,      \* bound
    SignalledRuns,\* bound: the first runs, in which signals come
    MaxRequests,  \* bound: requests of all runs together
    StrayLens     \* lengths a read takes from a byte that is not a length

VARIABLES
    main,       \* what main does; a run is over in each of Over
    runs,       \* runs that have begun
    pointer,    \* serialConnectionPtr is not null
    deleted,    \* how many times this run's connection was deleted
    handlers,   \* the handlers that run, the innermost last
    late,       \* history: a signal came during or after another deletion
    asked,      \* requests sent, by all runs
    shown,      \* the bytes of the response printed since the last request
    got,        \* the bytes of the response being read
    toScript, toTool   \* the line

handlerVars == <<pointer, deleted, handlers, late>>
requestVars == <<asked, shown, got>>
lineVars == <<toScript, toTool>>
Over == {"off", "ended", "failed"}

vars == <<main, runs, handlerVars, requestVars, lineVars>>

Init ==
    /\ main = "off" /\ runs = 0
    /\ pointer = FALSE /\ deleted = 0
    /\ handlers = <<>> /\ late = FALSE
    /\ asked = 0 /\ shown = <<>> /\ got = <<>>
    /\ toScript = <<>> /\ toTool = <<>>

-----------------------------------------------------------------------------
(* main: it runs while no handler does. *)

Step(from, to) == handlers = <<>> /\ main = from /\ main' = to

\* The port is opened, which may fail, and the handler registered.
Run ==
    /\ main \in Over
    /\ runs < MaxRuns
    /\ runs' = runs + 1
    /\ main' \in {"prompt", "failed"}
    /\ pointer' = (main' = "prompt") /\ deleted' = 0
    /\ handlers' = <<>> /\ late' = FALSE
    /\ shown' = <<>> /\ got' = <<>>
    /\ UNCHANGED <<asked, lineVars>>

\* processUserCommand: a request is sent.  At the end of an input whose last
\* line was not ended, getline leaves the line as it was, and the command is
\* sent again, for ever: no other input.
SendFrame ==
    /\ Step("prompt", "read")
    /\ asked < MaxRequests
    /\ asked' = asked + 1
    /\ toScript' = Append(toScript, asked + 1)
    /\ shown' = <<>> /\ got' = <<>>
    /\ UNCHANGED <<runs, handlerVars, toTool>>

\* readFrame: two bytes, the second of which is the length; it waits for ever.
Lengths(byte) == IF byte.pos = 2 THEN {byte.of.len} ELSE StrayLens

\* Mutant: the byte of the crc is forgotten.
Needed_WithoutCrc == IF Len(got) < 2 THEN {2} ELSE {2 + len : len \in Lengths(got[2])}

Needed == IF Len(got) < 2 THEN {2} ELSE {3 + len : len \in Lengths(got[2])}

ReadByte ==
    /\ handlers = <<>> /\ main = "read"
    /\ toTool # <<>> /\ \E n \in Needed : Len(got) < n
    /\ got' = Append(got, Head(toTool))
    /\ toTool' = Tail(toTool)
    /\ UNCHANGED <<main, runs, handlerVars, asked, shown, toScript>>

PrintResponse ==
    /\ Step("read", "prompt")
    /\ Len(got) \in Needed \ {2}
    /\ shown' = got
    /\ got' = <<>>
    /\ UNCHANGED <<runs, handlerVars, asked, lineVars>>

\* The process is over, and what it had in its memory is gone.
Ends(how) ==
    /\ main' = how
    /\ pointer' = FALSE /\ deleted' = 0 /\ handlers' = <<>> /\ late' = FALSE
    /\ shown' = <<>> /\ got' = <<>>
    /\ UNCHANGED <<runs, asked, lineVars>>

\* exit: the pointer is left as it is.
Exit ==
    /\ Step("prompt", "returning")
    /\ deleted' = deleted + 1
    /\ UNCHANGED <<runs, pointer, handlers, late, requestVars, lineVars>>

Return ==
    /\ handlers = <<>> /\ main = "returning"
    /\ Ends("ended")

\* An exception leaves the try, and the process ends without a deletion.
PortThrows ==
    /\ handlers = <<>> /\ main \in {"prompt", "read"}
    /\ Ends("failed")

-----------------------------------------------------------------------------
(* The handler. *)

Up == main \notin Over
Handling == Up /\ handlers # <<>>
Inner == handlers[Len(handlers)]
InnerAt(at) == handlers' = [handlers EXCEPT ![Len(handlers)].at = at]

\* A signal is blocked while its own handler runs, but not during another's.
Signal(sig) ==
    /\ Up
    /\ runs <= SignalledRuns
    /\ \A k \in DOMAIN handlers : handlers[k].sig # sig
    /\ handlers' = Append(handlers, [sig |-> sig, at |-> "begin"])
    /\ late' = (late \/ main = "returning" \/ \E k \in DOMAIN handlers : handlers[k].at = "deleted")
    /\ UNCHANGED <<main, runs, pointer, deleted, requestVars, lineVars>>

\* Mutant: the handler leaves the connection to exit.
DeletesIt_Not == FALSE

DeletesIt == pointer

HandlerDeletes ==
    /\ Handling /\ Inner.at = "begin"
    /\ IF DeletesIt
       THEN deleted' = deleted + 1 /\ InnerAt("deleted")
       ELSE InnerAt("exit") /\ UNCHANGED deleted
    /\ UNCHANGED <<main, runs, pointer, late, requestVars, lineVars>>

HandlerClears ==
    /\ Handling /\ Inner.at = "deleted"
    /\ pointer' = FALSE
    /\ InnerAt("exit")
    /\ UNCHANGED <<main, runs, deleted, late, requestVars, lineVars>>

HandlerExits ==
    /\ Handling /\ Inner.at = "exit"
    /\ Ends("ended")

\* It is killed, perhaps by itself: deleting what is deleted may end it at
\* once, and a handler that interrupts the allocation of memory may wait for
\* ever.
Kill ==
    /\ Up
    /\ Ends("failed")

Next ==
    \/ Run \/ SendFrame \/ ReadByte \/ PrintResponse \/ Exit \/ Return \/ PortThrows
    \/ \E sig \in Signals : Signal(sig)
    \/ HandlerDeletes \/ HandlerClears \/ HandlerExits \/ Kill

-----------------------------------------------------------------------------
(* What has to be true of it. *)

TypeOK ==
    /\ main \in {"prompt", "read", "returning"} \cup Over
    /\ runs \in 0 .. MaxRuns /\ asked \in 0 .. MaxRequests
    /\ pointer \in BOOLEAN /\ late \in BOOLEAN
    /\ deleted \in Nat
    /\ \A k \in DOMAIN handlers : handlers[k].sig \in Signals

\* A run that was ended by exit or by signals, in any step of any command, has
\* deleted its connection once, unless a signal came while main or another
\* handler was deleting it, or after (main.cpp:37,
\* SignalHandler.cpp:11-15).
EndsDeletedOnce == main # "ended" /\ main' = "ended" /\ ~late => deleted = 1
=============================================================================
