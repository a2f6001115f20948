----------------------------- MODULE ReplyChannel -----------------------------
(***************************************************************************)
(* What a serial connection promises its callers: requests are answered    *)
(* one frame each, whole, in the order they were sent; a read takes the    *)
(* next reply.                                                             *)
(***************************************************************************)
EXTENDS Integers, Sequences

CONSTANTS Threads, MaxRequests

VARIABLES
    sent,      \* number of requests sent
    waiting,   \* threads that have sent and not yet read
    frames     \* replies handed out, in order

vars == <<sent, waiting, frames>>

Init == sent = 0 /\ waiting = {} /\ frames = <<>>

Ask(t) ==
    /\ t \notin waiting
    /\ sent < MaxRequests
    /\ sent' = sent + 1
    /\ waiting' = waiting \cup {t}
    /\ UNCHANGED frames

Receive(t) ==
    /\ t \in waiting
    /\ Len(frames) < sent
    /\ frames' = Append(frames, Len(frames) + 1)
    /\ waiting' = waiting \ {t}
    /\ UNCHANGED sent

Next == \E t \in Threads : Ask(t) \/ Receive(t)

Spec == Init /\ [][Next]_vars /\ \A t \in Threads : WF_vars(Receive(t))
=============================================================================
