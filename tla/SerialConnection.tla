--------------------------- MODULE SerialConnection ---------------------------
(***************************************************************************)
(* serial-claude/SerialConnection.cpp: one serial port shared by several   *)
(* threads, each of which sends a request frame and then reads one reply.  *)
(*                                                                         *)
(* Data is abstracted to its origin.  Request f is answered by frame f,    *)
(* whose bytes are <start> <length> <payload ...> <crc>; a byte is the     *)
(* record [frame |-> f, pos |-> p] that says where in the device's output  *)
(* it comes from, and ZeroByte is the 0 a fresh std::vector holds.  The    *)
(* line is the interval between the cursors rd (next byte to be read) and  *)
(* dev (next byte the device will emit).                                   *)
(*                                                                         *)
(* Boost.Asio, external, is modelled as readWithTimeout uses it: ops are   *)
(* the async_read operations outstanding on the descriptor, in reactor     *)
(* order; an operation outlives the call that started it when run_for      *)
(* reaches its deadline, because nothing cancels it.                       *)
(***************************************************************************)
EXTENDS Integers, Sequences

CONSTANTS
    Threads,      \* callers of sendFrame/readFrame (command line, logger)
    MaxRequests,  \* bound: requests sent in a behaviour
    PayloadLens,  \* payload lengths a reply may have
    StrayLens,    \* bound: lengths read from a byte that is not a length byte
    Slow,         \* TRUE: run_for may reach its deadline
    Faulty,       \* TRUE: the port may report errors
    None          \* no thread holds serialMutex

ASSUME ThreadsAssumption == None \notin Threads
ASSUME LensAssumption == PayloadLens \subseteq Nat /\ StrayLens \subseteq Nat
ASSUME BoundAssumption == MaxRequests \in Nat
ASSUME FlagsAssumption == Slow \in BOOLEAN /\ Faulty \in BOOLEAN

VARIABLES
    lock,     \* serialMutex: its holder, or None
    pc,       \* where each thread is in its send/read cycle
    asked,    \* number of the request each thread sent last
    reqs,     \* payload length of the reply to each request on the wire
    dev, rd,  \* cursors into the device's output
    ops,      \* outstanding async_read operations
    stopped,  \* io_service::stopped()
    ec,       \* the error_code of the readWithTimeout being executed
    buf,      \* the vectors header and response of the readFrame being executed
    returned  \* history: frames readFrame returned, with who got them

vars == <<lock, pc, asked, reqs, dev, rd, ops, stopped, ec, buf, returned>>

-----------------------------------------------------------------------------
Cursor(f, p) == [frame |-> f, pos |-> p]
ZeroByte == Cursor(0, 0)
Zeros(n) == [i \in 0 .. n - 1 |-> ZeroByte]

Phases == {"header", "body"}

\* The byte after c in the device's output: a frame has reqs[f] + 3 bytes.
Advance(c) == IF c.pos < reqs[c.frame] + 2 THEN Cursor(c.frame, c.pos + 1)
                                           ELSE Cursor(c.frame + 1, 0)

\* Mutant: the length taken to count the checksum, too.
LengthsOf_WithCrc(byte) ==
    IF byte.frame = 0 THEN {-1} ELSE IF byte.pos = 1 THEN {reqs[byte.frame] - 1} ELSE StrayLens

\* The values header[1] may have as a length.
LengthsOf(byte) == IF byte.frame = 0 THEN {0}
                   ELSE IF byte.pos = 1 THEN {reqs[byte.frame]}
                   ELSE StrayLens

\* The frame that header and body together are, or 0 if they are not one frame.
Assembled(header, body) ==
    LET f == header[0].frame IN
    IF /\ f > 0
       /\ \A i \in 0 .. 1 : header[i] = Cursor(f, i)
       /\ body = [i \in 0 .. reqs[f] |-> Cursor(f, i + 2)]
    THEN f ELSE 0

\* Mutant: one vector, kept from read to read.
Fresh_Kept(b, n) ==
    [buf EXCEPT ![b] = [i \in 0 .. n - 1 |-> IF i \in DOMAIN buf[b] THEN buf[b][i] ELSE ZeroByte]]

\* std::vector<uint8_t> response(size)
Fresh(b, n) == [buf EXCEPT ![b] = Zeros(n)]

\* async_read into buffer b, of n bytes.
Op(b, n) == [buf |-> b, need |-> n, at |-> 0]

\* The operations after their buffers went out of scope.
Dangling(s) == [k \in 1 .. Len(s) |-> [s[k] EXCEPT !.buf = "stale"]]

Init ==
    /\ lock = None
    /\ pc = [t \in Threads |-> "idle"]
    /\ asked = [t \in Threads |-> 0]
    /\ reqs = <<>>
    /\ dev = Cursor(1, 0) /\ rd = Cursor(1, 0)
    /\ ops = <<>>
    /\ stopped = FALSE
    /\ ec = FALSE
    /\ buf = [b \in Phases |-> Zeros(0)]
    /\ returned = <<>>

-----------------------------------------------------------------------------
(* The threads. *)

\* Mutant: a write repeated although the first had reached the device.
Wire_Twice(n) == reqs' = reqs \o <<n, n>>

\* A request on the wire; the device will answer it with n bytes of payload.
Wire(n) == reqs' = Append(reqs, n)

\* Mutant: no lock_guard in readFrame.
Acquire_NoMutex(t) == lock' = t

Acquire(t) == lock = None /\ lock' = t

\* sendFrame: lock, write, unlock.
SendFrame(t) ==
    /\ pc[t] = "idle"
    /\ lock = None
    /\ Len(reqs) < MaxRequests
    /\ \E n \in PayloadLens : Wire(n)
    /\ asked' = [asked EXCEPT ![t] = Len(reqs')]
    /\ pc' = [pc EXCEPT ![t] = "sent"]
    /\ UNCHANGED <<lock, dev, rd, ops, stopped, ec, buf, returned>>

\* readFrame up to the first run_for: readWithTimeout(2) starts its read.
BeginRead(t) ==
    /\ pc[t] = "sent"
    /\ Acquire(t)
    /\ pc' = [pc EXCEPT ![t] = "header"]
    /\ buf' = Fresh("header", 2)
    /\ ops' = Append(ops, Op("header", 2))
    /\ ec' = FALSE
    /\ UNCHANGED <<asked, reqs, dev, rd, stopped, returned>>

\* Mutants: run_for without its deadline; a deadline that is not waited for.
RunForReturns_NoDeadline(t) == lock = t /\ stopped
RunForReturns_Early(t) == lock = t

\* run_for returns when the io_service is stopped or at its deadline.
RunForReturns(t) == lock = t /\ (stopped \/ Slow)

\* Mutant: io.reset() forgotten.
IoReset_Forgotten == UNCHANGED stopped

IoReset == stopped' = FALSE

\* Both reads throw the same way: io.reset() is skipped, the mutex released.
ReadThrows(t) ==
    /\ RunForReturns(t)
    /\ ec
    /\ lock' = None
    /\ pc' = [pc EXCEPT ![t] = "idle"]
    /\ ops' = Dangling(ops)
    /\ UNCHANGED <<asked, reqs, dev, rd, stopped, ec, buf, returned>>

\* io.reset(), then readWithTimeout(header[1] + 1) starts its read.
HeaderDone(t) ==
    /\ RunForReturns(t)
    /\ pc[t] = "header"
    /\ ~ec
    /\ pc' = [pc EXCEPT ![t] = "body"]
    /\ IoReset
    /\ \E n \in LengthsOf(buf["header"][1]) :
         /\ buf' = Fresh("body", n + 1)
         /\ ops' = Append(ops, Op("body", n + 1))
    /\ UNCHANGED <<lock, asked, reqs, dev, rd, ec, returned>>

\* io.reset(), then readFrame returns header and response copied together.
BodyDone(t) ==
    /\ RunForReturns(t)
    /\ pc[t] = "body"
    /\ ~ec
    /\ lock' = None
    /\ pc' = [pc EXCEPT ![t] = "idle"]
    /\ IoReset
    /\ ops' = Dangling(ops)
    /\ returned' = Append(returned, [to |-> t, asked |-> asked[t],
                                     frame |-> Assembled(buf["header"], buf["body"])])
    /\ UNCHANGED <<asked, reqs, dev, rd, ec, buf>>

\* sendFrame throws.  What was written may be nothing, or a truncated request
\* that the device answers although nobody will read the answer.
SendThrows(t) ==
    /\ Faulty
    /\ pc[t] = "idle"
    /\ lock = None
    /\ Len(reqs) < MaxRequests
    /\ \E n \in PayloadLens : reqs' \in {reqs, Append(reqs, n)}
    /\ UNCHANGED <<lock, pc, asked, dev, rd, ops, stopped, ec, buf, returned>>

-----------------------------------------------------------------------------
(* The device and the io_service. *)

DeviceEmits ==
    /\ dev.frame <= Len(reqs)
    /\ dev' = Advance(dev)
    /\ UNCHANGED <<lock, pc, asked, reqs, rd, ops, stopped, ec, buf, returned>>

\* run_for dispatches while it runs; an async_read that finds the queue empty
\* also reads on initiation, whether the io_service is stopped or not.
Reading == lock # None /\ ops # <<>> /\ (stopped => Len(ops) = 1)

\* The completion handler stores e through its reference to ec; the reference
\* of an earlier call dangles, and may or may not denote the current ec.
HandlerStores(op, e) == ec' \in IF op.buf = pc[lock] THEN {e} ELSE {ec, e}

\* A read into a destroyed vector writes to freed memory, which may have been
\* reused for a live one.
Targets(op) == IF op.buf = "stale" THEN {"stale"} \cup Phases ELSE {op.buf}

\* The first operation reads one byte; when that drains the line before the
\* operation is complete, async_read queues its next async_read_some last.
TakeByte ==
    /\ Reading
    /\ rd # dev
    /\ rd' = Advance(rd)
    /\ LET op == Head(ops)
           next == [op EXCEPT !.at = @ + 1] IN
       /\ \E b \in Targets(op) :
            buf' = IF b \in Phases /\ op.at \in DOMAIN buf[b]
                   THEN [buf EXCEPT ![b][op.at] = rd] ELSE buf
       /\ IF next.at = op.need
          THEN /\ ops' = Tail(ops)
               /\ stopped' = (stopped \/ ops' = <<>>)
               /\ HandlerStores(op, FALSE)
          ELSE /\ ops' = IF rd' = dev THEN Append(Tail(ops), next)
                                      ELSE <<next>> \o Tail(ops)
               /\ UNCHANGED <<stopped, ec>>
    /\ UNCHANGED <<lock, pc, asked, reqs, dev, returned>>

\* The first operation fails.
PortError ==
    /\ Faulty
    /\ Reading
    /\ ~stopped
    /\ ops' = Tail(ops)
    /\ stopped' = (ops' = <<>>)
    /\ HandlerStores(Head(ops), TRUE)
    /\ UNCHANGED <<lock, pc, asked, reqs, dev, rd, buf, returned>>

Read(t) == BeginRead(t) \/ HeaderDone(t) \/ BodyDone(t) \/ ReadThrows(t)

Next ==
    \/ \E t \in Threads : SendFrame(t) \/ SendThrows(t) \/ Read(t)
    \/ DeviceEmits \/ TakeByte \/ PortError

\* Threads and the reactor are scheduled; the device is under no obligation,
\* and nobody has to send another request.
Spec == Init /\ [][Next]_vars /\ WF_vars(TakeByte) /\ \A t \in Threads : WF_vars(Read(t))

\* The same with a device that answers.
AnsweringSpec == Spec /\ WF_vars(DeviceEmits)
-----------------------------------------------------------------------------
(* What has to be true of it. *)

Bytes == [frame : Nat, pos : Nat]
OpSet == [buf : Phases \cup {"stale"}, need : Nat \ {0}, at : Nat]
Frames == [to : Threads, asked : Nat, frame : Nat]

TypeOK ==
    /\ lock \in Threads \cup {None}
    /\ pc \in [Threads -> {"idle", "sent"} \cup Phases]
    /\ asked \in [Threads -> Nat]
    /\ reqs \in Seq(PayloadLens)
    /\ dev \in Bytes /\ rd \in Bytes
    /\ ops \in Seq(OpSet)
    /\ stopped \in BOOLEAN /\ ec \in BOOLEAN
    /\ DOMAIN buf = Phases
    /\ returned \in Seq(Frames)

\* readFrame keeps serialMutex over both reads, so a thread inside it is alone
\* (SerialConnection.cpp:46).
MutualExclusion == \A t \in Threads : pc[t] \in Phases <=> lock = t

\* When the device answers in time and the port does not fail, the k-th frame
\* readFrame returns is the device's k-th reply, whole: no byte is lost, torn
\* or read by two threads, however sends and reads interleave.
FramesWhole == \A k \in 1 .. Len(returned) : returned[k].frame = k

\* A thread gets the reply to the request it sent, or something that is no
\* frame; never another request's reply (CommandHandler.cpp:180-181).
ReplyIsMine ==
    \A k \in 1 .. Len(returned) : returned[k].frame \in {0, returned[k].asked}

\* As long as only one thread has used the port (the logger was never started),
\* every reply is the one that thread asked for.
SoleUser(t) == \A u \in Threads \ {t} : asked[u] = 0
SoleUserReplies == (\E t \in Threads : SoleUser(t)) => ReplyIsMine

\* Every frame readFrame returns is a frame the device sent.
OnlyFrames == \A k \in 1 .. Len(returned) : returned[k].frame # 0

\* Even with timeouts, port errors and reads that outlive their call, no reply
\* is returned twice and replies are not reordered.
NoDuplicateReply ==
    \A j, k \in 1 .. Len(returned) :
        j < k /\ returned[j].frame # 0 /\ returned[k].frame # 0
            => returned[j].frame < returned[k].frame

\* A read that begins finds an io_service that will run it: if the port does not
\* fail, every return from readFrame has called io.reset()
\* (SerialConnection.cpp:90).
IoReady == lock = None => ~stopped

\* The connection as a channel of replies: see ReplyChannel.
Channel == INSTANCE ReplyChannel
    WITH sent <- Len(reqs),
         waiting <- {t \in Threads : pc[t] # "idle"},
         frames <- [k \in 1 .. Len(returned) |-> returned[k].frame]

\* With a device that answers in time and a port that does not fail, every step
\* is a step of the channel or is invisible to it: the two locked halves of a
\* request, the byte by byte reads, the deadlines and io.reset().
ChannelSteps == Channel!Init /\ [][Channel!Next]_Channel!vars

\* If the device does answer, every request is answered.
ImplementsChannel == Channel!Spec

\* The deadline of run_for bounds the time serialMutex is held, with a device
\* that never answers too (SerialConnection.cpp:81).
LockReleased == \A t \in Threads : (lock = t) ~> (lock # t)
=============================================================================
