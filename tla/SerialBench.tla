------------------------------ MODULE SerialBench ------------------------------
(***************************************************************************)
(* The two ends of serial/README.md, "Using virtual-msc.sh": the command   *)
(* line (SerialTool) and the script in the motor controller's place        *)
(* (VirtualMsc), joined by the two directions of a line that socat keeps   *)
(* up, with what is on it, when either end is closed and opened again.     *)
(***************************************************************************)
EXTENDS Integers, Sequences

CONSTANTS Instances, Nobody, AnswerLens, Signals, MaxRuns, SignalledRuns, MaxRequests, StrayLens

ASSUME NobodyAssumption == Nobody \notin Instances
ASSUME LensAssumption == AnswerLens \cup StrayLens \subseteq Nat
ASSUME BoundsAssumption == {MaxRuns, SignalledRuns, MaxRequests} \subseteq Nat

VARIABLES
    main, runs, pointer, deleted, handlers, late, asked, shown, got,
    pc, lockFile, lockPid, fd, lapsed,
    received, answer, response, count, sent, orphans,
    toScript, toTool,
    unsettled   \* history: an end was interrupted in the middle of an exchange

Tool == INSTANCE SerialTool
Msc == INSTANCE VirtualMsc

toolVars == <<main, runs, pointer, deleted, handlers, late, asked, shown, got>>
mscVars == <<pc, lockFile, lockPid, fd, lapsed,
             received, answer, response, count, sent, orphans>>
vars == <<toolVars, mscVars, toScript, toTool, unsettled>>

Init == Tool!Init /\ Msc!Init /\ unsettled = FALSE

ToolStep ==
    /\ Tool!Next
    /\ unsettled' = (unsettled \/ (main = "read" /\ main' \notin {"read", "prompt"}))
    /\ UNCHANGED mscVars

\* Bound: the bench is watched until the last run is over.
MscStep ==
    /\ runs < MaxRuns \/ Tool!Up
    /\ Msc!Next
    /\ unsettled' = (unsettled \/ \E i \in Instances : pc[i] = "dd" /\ pc'[i] \notin {"dd", "wait"})
    /\ UNCHANGED toolVars

Next == ToolStep \/ MscStep

Spec == Init /\ [][Next]_vars

-----------------------------------------------------------------------------
(* What has to be true of it. *)

TypeOK == Tool!TypeOK /\ Msc!TypeOK

LockHeld == Msc!LockHeld
DeletedOnce == [][Tool!EndsDeletedOnce]_vars

\* What the tool prints is one whole response, typed in answer to its own
\* request, whichever instances ran, even two at a time, and whatever they were
\* told to refuse, as long as neither end was interrupted in the middle of an
\* exchange (CommandHandler.cpp:91-93, SerialConnection.cpp:21-34,
\* virtual-msc.sh:70, 121-123, all of src/serial).
ResponseIsOwn ==
    main = "prompt" /\ shown # <<>> /\ ~unsettled =>
        /\ shown[1].of.to = asked
        /\ Len(shown) = shown[1].of.len + 3
        /\ \A k \in DOMAIN shown : shown[k] = [of |-> shown[1].of, pos |-> k]
=============================================================================
