------------------------------ MODULE FifoBridge ------------------------------
(***************************************************************************)
(* tcp/server.c and tcp/client.c: a bridge between one TCP client and one  *)
(* FEC process, two FIFOs to it.  The server takes a piece of what the     *)
(* client sent, writes it to the FEC, waits for the FEC's line and sends   *)
(* that to the client; the FEC does the reverse.                           *)
(*                                                                         *)
(* Text is its length.  A request is known by its number; what is in a     *)
(* FIFO is the number of the last request, or of the request that was last *)
(* read when the answer was typed, with the number of bytes.               *)
(***************************************************************************)
EXTENDS Integers, Sequences, SequencesExt

CONSTANTS
    LineLens,   \* lengths of the lines the TCP client sends, newline included
    AnswerLens, \* lengths of the lines typed at the FEC, without newline
    MaxLines,   \* bound: lines the TCP client sends
    MaxPieces   \* bound: pieces of them the server receives

ASSUME LensAssumption == LineLens \subseteq Nat \ {0} /\ AnswerLens \subseteq Nat
ASSUME BoundAssumption == MaxLines \in Nat /\ MaxPieces \in Nat

TCP_LEN == 24
FIFO_LEN == 80

VARIABLES
    server,    \* where the server is
    fec,       \* where the FEC is
    opened,    \* how many of their FIFOs the server and the FEC have open
    peer,      \* the TCP connection: "open", "closed" or "reset"
    lines,     \* number of lines the client sent
    pending,   \* lengths of the pieces of them that are not yet received
    requests,  \* number of pieces received
    toFec, fromFec,  \* the FIFOs: [of |-> request, bytes |-> n]
    seen,      \* the request the FEC read last
    answers,   \* history: for each answer sent, the request it was typed for
    smooth     \* never changes: TRUE if TCP delivers lines whole, none leaves a
               \* piece of one byte, nobody closes, dies or types an empty answer

tcpVars == <<peer, lines, pending>>
fifoVars == <<toFec, fromFec>>
vars == <<server, fec, opened, tcpVars, requests, fifoVars, seen, answers, smooth>>

Empty == [of |-> 0, bytes |-> 0]

Init ==
    /\ server = "accept" /\ fec = "off"
    /\ opened = [server |-> 0, fec |-> 0]
    /\ peer = "open" /\ lines = 0 /\ pending = <<>>
    /\ requests = 0
    /\ toFec = Empty /\ fromFec = Empty
    /\ seen = 0
    /\ answers = <<>>
    /\ smooth \in BOOLEAN

-----------------------------------------------------------------------------
(* The TCP client. *)

Gone == {"ended", "killed"}
Connected == peer = "open" /\ server # "accept" /\ server \notin Gone

Lines == IF smooth THEN {n \in LineLens : n % TCP_LEN # 1} ELSE LineLens
Answers == IF smooth THEN AnswerLens \ {0} ELSE AnswerLens

\* How TCP may cut and join a line: whole, in two, or with the one before it.
Segments(n) ==
    IF smooth THEN {Append(pending, n)}
    ELSE {Append(pending, n)}
         \cup {pending \o <<k, n - k>> : k \in 1 .. n - 1}
         \cup (IF pending = <<>> THEN {} ELSE {Append(Front(pending), Last(pending) + n)})

ClientSends ==
    /\ Connected
    /\ lines < MaxLines
    /\ \E n \in Lines : pending' \in Segments(n)
    /\ lines' = lines + 1
    /\ UNCHANGED <<server, fec, opened, peer, requests, fifoVars, seen, answers, smooth>>

\* The client closes its socket, or is killed with unread data.
ClientCloses ==
    /\ ~smooth
    /\ Connected
    /\ \/ peer' = "closed" /\ UNCHANGED pending
       \/ peer' = "reset" /\ pending' = <<>>
    /\ UNCHANGED <<server, fec, opened, lines, requests, fifoVars, seen, answers, smooth>>

-----------------------------------------------------------------------------
(* Setting up. *)

ServerFifos == <<"to", "from">>

\* Mutant: the FEC opens the other FIFO first.
FecFifos_Swapped == <<"from", "to">>

FecFifos == <<"to", "from">>

\* accept and mknod
Accept ==
    /\ server = "accept"
    /\ server' = "opens"
    /\ UNCHANGED <<fec, opened, tcpVars, requests, fifoVars, seen, answers, smooth>>

\* Started when there are no FIFOs, the FEC goes on with descriptors that are
\* errors: it reads and writes nothing.
FecStarts ==
    /\ fec \in {"off", "gone"}
    /\ fec' = IF server = "accept" \/ server = "ended" THEN "broken" ELSE "opens"
    /\ UNCHANGED <<server, opened, tcpVars, requests, fifoVars, seen, answers, smooth>>

FecDown ==
    /\ ~smooth
    /\ fec \notin {"off", "gone"}
    /\ fec' = "gone"
    /\ opened' = [opened EXCEPT !.fec = 0]
    /\ seen' = 0
    /\ UNCHANGED <<server, tcpVars, requests, fifoVars, answers, smooth>>

ServerHolds(fifo) == server \notin Gone /\ \E k \in 1 .. opened.server : ServerFifos[k] = fifo
FecHolds(fifo) == \E k \in 1 .. opened.fec : FecFifos[k] = fifo

\* An open blocks until the other end is held, or is being opened: then both
\* opens return.
FecOpens ==
    /\ fec = "opens"
    /\ ServerHolds(FecFifos[opened.fec + 1])
    /\ opened' = [opened EXCEPT !.fec = @ + 1]
    /\ fec' = IF opened'.fec = 2 THEN "reads" ELSE fec
    /\ UNCHANGED <<server, tcpVars, requests, fifoVars, seen, answers, smooth>>

BothOpen ==
    /\ server = "opens" /\ fec = "opens"
    /\ ServerFifos[opened.server + 1] = FecFifos[opened.fec + 1]
    /\ opened' = [server |-> opened.server + 1, fec |-> opened.fec + 1]
    /\ server' = IF opened'.server = 2 THEN "recv" ELSE server
    /\ fec' = IF opened'.fec = 2 THEN "reads" ELSE fec
    /\ UNCHANGED <<tcpVars, requests, fifoVars, seen, answers, smooth>>

-----------------------------------------------------------------------------
(* The server's loop. *)

\* Mutant: the newline cut off twice.
Written_Twice(n) == n - 2

\* The last of n bytes is cut off, as if it were the newline.
Written(n) == n - 1

\* Mutant: recv taken to fill the buffer.
Received_Always(n) == TCP_LEN

Received(n) == Min({n, TCP_LEN})

\* Bound: less than the FIFO_LEN bytes of the reader's buffer wait in a FIFO.  At
\* FIFO_LEN the reader ends the string behind its buffer (server.c:125,
\* client.c:29), above it a read leaves some of them.
Fits(fifo, n) == fifo.bytes + n < FIFO_LEN

\* recv returns at most TCP_LEN bytes, and what is left of them is written to
\* the FEC: nothing of a piece of one byte; SIGPIPE if the FEC is gone.
Receive ==
    /\ server = "recv" /\ requests < MaxPieces
    /\ pending # <<>>
    /\ LET n == Received(Head(pending)) IN
       /\ Fits(toFec, Written(n))
       /\ pending' = IF Head(pending) = n THEN Tail(pending)
                     ELSE <<Head(pending) - n>> \o Tail(pending)
       /\ requests' = requests + 1
       /\ IF Written(n) = 0 THEN server' = "read" /\ UNCHANGED toFec
          ELSE IF ~FecHolds("to") THEN server' = "killed" /\ UNCHANGED toFec
          ELSE /\ server' = "read"
               /\ toFec' = [of |-> requests', bytes |-> toFec.bytes + Written(n)]
    /\ UNCHANGED <<fec, opened, peer, lines, fromFec, seen, answers, smooth>>

\* recv returns 0 when the client has closed: buffer[-1] is overwritten, which
\* the build does not notice, and nothing is written; -1 ends the loop.
ReceiveNothing ==
    /\ server = "recv" /\ requests < MaxPieces
    /\ pending = <<>>
    /\ \/ peer = "closed" /\ server' = "read" /\ requests' = requests + 1
       \/ peer = "reset" /\ server' = "ended" /\ UNCHANGED requests
    /\ UNCHANGED <<fec, opened, tcpVars, fifoVars, seen, answers, smooth>>

\* Mutant: the FIFO opened O_NONBLOCK.
AnswerReady_NonBlocking == TRUE

\* The read blocks until there is something, or nobody to write it: no FEC, or
\* one that has so far opened the other FIFO.
AnswerReady == fromFec.bytes > 0 \/ ~FecHolds("from")

\* Mutant: a read of sizeof(char *) where the buffer was meant.
LeftInFifo_Partial == [fromFec EXCEPT !.bytes = IF @ > 8 THEN @ - 8 ELSE 0]

\* The read takes up to FIFO_LEN bytes, and no more fit.
LeftInFifo == Empty

\* The answer, in upper case and with a newline, goes to the client; sending to
\* a client that closed provokes a reset, and after one the send fails or is
\* answered with SIGPIPE.
Answer ==
    /\ server = "read"
    /\ AnswerReady
    /\ fromFec' = LeftInFifo
    /\ IF peer = "reset"
       THEN server' \in Gone /\ UNCHANGED <<answers, peer>>
       ELSE /\ server' = "recv"
            /\ answers' = Append(answers, IF fromFec.bytes = 0 THEN 0 ELSE fromFec.of)
            /\ peer' \in IF peer = "closed" THEN {"closed", "reset"} ELSE {peer}
    /\ UNCHANGED <<fec, opened, lines, pending, requests, toFec, seen, smooth>>

-----------------------------------------------------------------------------
(* The FEC's loop. *)

FecReads ==
    /\ fec = "reads"
    /\ toFec.bytes > 0 \/ server \in Gone
    /\ IF toFec.bytes > 0 THEN seen' = toFec.of ELSE UNCHANGED seen
    /\ toFec' = Empty
    /\ fec' = "types"
    /\ UNCHANGED <<server, opened, tcpVars, requests, fromFec, answers, smooth>>

\* A line is typed and written without its newline, an empty one not at all.
\* (At the end of its input the FEC writes back the request, cut likewise.)
FecWrites ==
    /\ fec = "types"
    /\ \E n \in Answers :
         /\ Fits(fromFec, n)
         /\ IF n > 0 /\ server \in Gone
            THEN fec' = "gone" /\ opened' = [opened EXCEPT !.fec = 0] /\ UNCHANGED fromFec
            ELSE /\ fec' = "reads"
                 /\ fromFec' = IF n = 0 THEN fromFec
                               ELSE [of |-> seen, bytes |-> fromFec.bytes + n]
                 /\ UNCHANGED opened
    /\ UNCHANGED <<server, tcpVars, requests, toFec, seen, answers, smooth>>

Server == Accept \/ BothOpen \/ Receive \/ ReceiveNothing \/ Answer
Fec == FecOpens \/ FecReads \/ FecWrites

Next == ClientSends \/ ClientCloses \/ FecStarts \/ FecDown \/ Server \/ Fec

\* Both programs are scheduled and the user at the FEC answers; nobody has to
\* start the FEC or to send anything.
Spec == Init /\ [][Next]_vars /\ WF_vars(Server) /\ WF_vars(Fec)

-----------------------------------------------------------------------------
(* What has to be true of it. *)

Fifo == [of : Nat, bytes : Nat]

TypeOK ==
    /\ server \in {"accept", "opens", "recv", "read"} \cup Gone
    /\ fec \in {"off", "broken", "opens", "reads", "types", "gone"}
    /\ opened \in [server : 0 .. 2, fec : 0 .. 2]
    /\ peer \in {"open", "closed", "reset"}
    /\ lines \in 0 .. MaxLines /\ pending \in Seq(Nat \ {0})
    /\ requests \in Nat /\ seen \in 0 .. requests
    /\ toFec \in Fifo /\ fromFec \in Fifo
    /\ answers \in Seq(0 .. requests)
    /\ smooth \in BOOLEAN

\* What the client is sent in answer to its k-th piece was typed after the FEC
\* had read that piece, and no other, if all goes smoothly.
AnswerIsToRequest == smooth => \A k \in 1 .. Len(answers) : answers[k] = k

\* If all goes smoothly, every piece received is answered: as long as no request
\* is reduced to nothing and no answer is empty, server and FEC never wait for
\* each other (server.c:111-119, client.c:25-37).
RequestsAnswered == smooth /\ requests > Len(answers) ~> requests = Len(answers)

\* Both open their FIFOs in an order in which they meet (server.c:76-81,
\* client.c:18-19), even if a FEC dies over it and another one is started.
FifosMeet == (server = "opens" /\ fec = "opens") ~> (server = "recv" \/ fec = "gone")

\* Whatever TCP does with the lines and whichever process dies, nothing typed is
\* sent twice or after something typed later.
NoAnswerTwice ==
    \A j, k \in 1 .. Len(answers) :
        j < k /\ answers[j] # 0 /\ answers[k] # 0 => answers[j] < answers[k]

\* A server that has sent all its answers, whose client has closed and which waits
\* in recv, notices that (server.c:101: "Client has probably closed its socket")
\* and ends, unless the bound on the pieces stops it first.
ClosingNoticed ==
    server = "recv" /\ pending = <<>> /\ peer = "closed" /\ requests < MaxPieces
        ~> server \in Gone \/ requests = MaxPieces
=============================================================================
