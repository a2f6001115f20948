--------------------------- MODULE FifoBridgeProofs ---------------------------
(***************************************************************************)
(* The answers of the bridge, for lines and answers of any length, however *)
(* TCP cuts and joins the lines: they come in the order of the requests,   *)
(* and, if all goes smoothly, each is to its own.                          *)
(***************************************************************************)
EXTENDS FifoBridge, TLAPS

-----------------------------------------------------------------------------
(* Types. *)

\* What a turn of the server takes, and what it leaves.
LEMMA ReceivedBounds ==
    ASSUME NEW n \in Nat \ {0}
    PROVE  /\ Received(n) \in 1 .. TCP_LEN /\ Received(n) <= n
           /\ n < TCP_LEN => Received(n) = n
           /\ n >= TCP_LEN => Received(n) = TCP_LEN
<1>1. CASE n < TCP_LEN
  <2>1. n \in {n, TCP_LEN} /\ \A y \in {n, TCP_LEN} : n <= y
    BY <1>1 DEF TCP_LEN
  <2>2. \A x \in {n, TCP_LEN} : (\A y \in {n, TCP_LEN} : x <= y) => x = n
    BY <1>1 DEF TCP_LEN
  <2>3. Min({n, TCP_LEN}) = n
    BY <2>1, <2>2, Zenon DEF Min
  <2> QED
    BY <1>1, <2>3 DEF Received, TCP_LEN
<1>2. CASE n >= TCP_LEN
  <2>1. TCP_LEN \in {n, TCP_LEN} /\ \A y \in {n, TCP_LEN} : TCP_LEN <= y
    BY <1>2 DEF TCP_LEN
  <2>2. \A x \in {n, TCP_LEN} : (\A y \in {n, TCP_LEN} : x <= y) => x = TCP_LEN
    BY <1>2 DEF TCP_LEN
  <2>3. Min({n, TCP_LEN}) = TCP_LEN
    BY <2>1, <2>2, Zenon DEF Min
  <2> QED
    BY <1>2, <2>3 DEF Received, TCP_LEN
<1> QED
  BY <1>1, <1>2 DEF TCP_LEN

\* However a line is cut or joined, it leaves pieces of at least one byte.
LEMMA SegmentsArePieces ==
    ASSUME pending \in Seq(Nat \ {0}), NEW n \in Nat \ {0}
    PROVE  Segments(n) \subseteq Seq(Nat \ {0})
<1> DEFINE P == Nat \ {0}
<1>1. Append(pending, n) \in Seq(P)
  OBVIOUS
<1>2. \A k \in 1 .. n - 1 : pending \o <<k, n - k>> \in Seq(P)
  <2> SUFFICES ASSUME NEW k \in 1 .. n - 1 PROVE pending \o <<k, n - k>> \in Seq(P)
    OBVIOUS
  <2>1. k \in P /\ n - k \in P
    OBVIOUS
  <2>2. <<k, n - k>> \in Seq(P)
    BY <2>1
  <2> HIDE DEF P
  <2>3. pending \in Seq(P)
    BY DEF P
  <2> QED
    BY <2>2, <2>3
<1>3. pending # <<>> => Append(Front(pending), Last(pending) + n) \in Seq(P)
  <2> SUFFICES ASSUME pending # <<>> PROVE Append(Front(pending), Last(pending) + n) \in Seq(P)
    OBVIOUS
  <2>1. Last(pending) \in P
    BY DEF Last
  <2>2. Front(pending) \in Seq(P)
    BY DEF Front
  <2>3. Last(pending) + n \in P
    BY <2>1
  <2> QED
    BY <2>2, <2>3
<1> QED
  BY <1>1, <1>2, <1>3 DEF Segments

\* TypeOK is not inductive: who is still opening has a FIFO left to open,
\* and what is in a FIFO is of a request that was received.
Opening ==
    /\ server = "accept" => opened.server = 0
    /\ server = "opens" => opened.server < 2
    /\ fec \in {"off", "broken", "gone"} => opened.fec = 0
    /\ fec = "opens" => opened.fec < 2
    /\ toFec.of <= requests /\ fromFec.of <= requests

Types == TypeOK /\ Opening

\* Two sequences joined.
LEMMA Joined ==
    ASSUME NEW S, NEW a \in Seq(S), NEW b \in Seq(S)
    PROVE  a \o b \in Seq(S)
OBVIOUS

\* Answers to requests are answers to more requests.
LEMMA MoreRequests ==
    ASSUME NEW m \in Nat, NEW s \in Seq(0 .. m)
    PROVE  s \in Seq(0 .. m + 1)
<1>1. 0 .. m \subseteq 0 .. m + 1
  OBVIOUS
<1> QED
  BY <1>1

\* The types hold at the beginning.
LEMMA TypesInit == Init => Types
<1> SUFFICES ASSUME Init PROVE Types
  OBVIOUS
<1>1. /\ server = "accept" /\ fec = "off" /\ opened = [server |-> 0, fec |-> 0]
      /\ peer = "open" /\ lines = 0 /\ pending = <<>> /\ requests = 0
      /\ toFec = Empty /\ fromFec = Empty /\ seen = 0 /\ answers = <<>> /\ smooth \in BOOLEAN
  BY DEF Init
<1>2. pending \in Seq(Nat \ {0}) /\ answers \in Seq(0 .. requests)
  BY <1>1
<1>3. Empty \in Fifo /\ Empty.of = 0
  BY DEF Empty, Fifo
<1>4. lines \in 0 .. MaxLines /\ seen \in 0 .. requests /\ requests \in Nat
  BY <1>1, BoundAssumption
<1> QED
  BY <1>1, <1>2, <1>3, <1>4 DEF Types, TypeOK, Opening, Gone

\* Every step keeps them.
LEMMA TypesStep == Types /\ [Next]_vars => Types'
<1> SUFFICES ASSUME Types, [Next]_vars PROVE Types'
  OBVIOUS
<1> USE LensAssumption, BoundAssumption DEF Types, TypeOK, Opening, Gone, tcpVars, fifoVars
<1>1. CASE ClientSends
  <2>1. /\ lines' = lines + 1 /\ lines < MaxLines
        /\ UNCHANGED <<server, fec, opened, peer, requests, toFec, fromFec, seen, answers, smooth>>
    BY <1>1 DEF ClientSends
  <2>2. pending' \in Seq(Nat \ {0})
    BY <1>1, SegmentsArePieces DEF ClientSends, Lines
  <2> QED
    BY <2>1, <2>2
<1>2. CASE ClientCloses
  <2>1. /\ UNCHANGED <<server, fec, opened, lines, requests, toFec, fromFec, seen, answers, smooth>>
        /\ peer' \in {"closed", "reset"} /\ pending' \in {pending, <<>>}
    BY <1>2 DEF ClientCloses
  <2>2. pending' \in Seq(Nat \ {0})
    <3>1. <<>> \in Seq(Nat \ {0})
      OBVIOUS
    <3> QED
      BY <2>1, <3>1, Zenon
  <2> QED
    BY <2>1, <2>2
<1>3. CASE Accept \/ FecStarts \/ FecDown
  <2>1. CASE Accept
    BY <2>1 DEF Accept
  <2>2. CASE FecStarts
    <3>1. /\ UNCHANGED <<server, opened, peer, lines, pending, requests, toFec, fromFec, seen, answers, smooth>>
          /\ fec \in {"off", "gone"} /\ fec' \in {"broken", "opens"}
      BY <2>2 DEF FecStarts
    <3> QED
      BY <3>1
  <2>3. CASE FecDown
    <3>1. /\ UNCHANGED <<server, peer, lines, pending, requests, toFec, fromFec, answers, smooth>>
          /\ fec' = "gone" /\ opened' = [opened EXCEPT !.fec = 0] /\ seen' = 0
      BY <2>3 DEF FecDown
    <3> QED
      BY <3>1
  <2> QED
    BY <1>3, <2>1, <2>2, <2>3
<1>4. CASE BothOpen
  <2>1. /\ opened' = [server |-> opened.server + 1, fec |-> opened.fec + 1]
        /\ opened.server \in 0 .. 1 /\ opened.fec \in 0 .. 1
        /\ server' = IF opened'.server = 2 THEN "recv" ELSE "opens"
        /\ fec' = IF opened'.fec = 2 THEN "reads" ELSE "opens"
        /\ UNCHANGED <<peer, lines, pending, requests, toFec, fromFec, seen, answers, smooth>>
    BY <1>4 DEF BothOpen
  <2>2. /\ opened' \in [server : 0 .. 2, fec : 0 .. 2]
        /\ server' = "opens" => opened'.server < 2
        /\ fec' = "opens" => opened'.fec < 2
    BY <2>1
  <2> QED
    BY <2>1, <2>2, SMTT(30)
<1>5. CASE FecOpens
  <2>1. /\ opened' = [opened EXCEPT !.fec = @ + 1] /\ opened.fec \in 0 .. 1
        /\ fec' = IF opened'.fec = 2 THEN "reads" ELSE "opens"
        /\ UNCHANGED <<server, peer, lines, pending, requests, toFec, fromFec, seen, answers, smooth>>
    BY <1>5 DEF FecOpens
  <2> QED
    BY <2>1, SMTT(30)
<1>6. CASE Receive
  <2> DEFINE n == Received(Head(pending))
  <2>1. Head(pending) \in Nat \ {0} /\ Tail(pending) \in Seq(Nat \ {0})
    BY <1>6 DEF Receive
  <2>2. n \in 1 .. TCP_LEN /\ n <= Head(pending)
    BY <2>1, ReceivedBounds
  <2> HIDE DEF n
  <2>3. /\ UNCHANGED <<fec, opened, peer, lines, fromFec, seen, answers, smooth>>
        /\ requests' = requests + 1 /\ server' \in {"read", "killed"}
        /\ pending' \in {Tail(pending), <<Head(pending) - n>> \o Tail(pending)}
        /\ Head(pending) = n => pending' = Tail(pending)
        /\ toFec' \in {toFec, [of |-> requests', bytes |-> toFec.bytes + Written(n)]}
    BY <1>6 DEF Receive, n
  <2>4. toFec' \in Fifo
    <3>1. Written(n) \in Nat /\ toFec.bytes \in Nat /\ requests + 1 \in Nat
      BY <2>2 DEF Fifo, Written, TCP_LEN
    <3> QED
      BY <2>3, <3>1 DEF Fifo
  <2>5. pending' \in Seq(Nat \ {0})
    <3>1. CASE Head(pending) = n
      BY <2>1, <2>3, <3>1
    <3>2. CASE Head(pending) # n
      <4>1. Head(pending) - n \in Nat \ {0}
        BY <2>1, <2>2, <3>2 DEF TCP_LEN
      <4>2. <<Head(pending) - n>> \in Seq(Nat \ {0})
        BY <4>1
      <4> DEFINE P == Nat \ {0}
                 head == <<Head(pending) - n>>
                 tail == Tail(pending)
      <4>3. head \in Seq(P) /\ tail \in Seq(P) /\ pending' \in {tail, head \o tail}
        BY <2>1, <2>3, <4>2
      <4> HIDE DEF P, head, tail
      <4>4. head \o tail \in Seq(P)
        BY <4>3, Joined
      <4>5. pending' \in Seq(P)
        BY <4>3, <4>4, Zenon
      <4> QED
        BY <4>5 DEF P
    <3> QED
      BY <3>1, <3>2
  <2> QED
    BY <2>3, <2>4, <2>5, MoreRequests, SMTT(30) DEF Fifo
<1>7. CASE ReceiveNothing
  <2>1. /\ UNCHANGED <<fec, opened, peer, lines, pending, toFec, fromFec, seen, answers, smooth>>
        /\ server' \in {"read", "ended"} /\ requests' \in {requests, requests + 1}
    BY <1>7 DEF ReceiveNothing
  <2> QED
    BY <2>1, MoreRequests DEF Fifo
<1>8. CASE Answer
  <2>1. /\ UNCHANGED <<fec, opened, lines, pending, requests, toFec, seen, smooth>>
        /\ fromFec' = Empty /\ server = "read"
        /\ \/ server' \in {"ended", "killed"} /\ UNCHANGED <<answers, peer>>
           \/ /\ server' = "recv" /\ peer' \in {"closed", "reset", peer}
              /\ answers' = Append(answers, IF fromFec.bytes = 0 THEN 0 ELSE fromFec.of)
    BY <1>8 DEF Answer, LeftInFifo
  <2>2. answers' \in Seq(0 .. requests)
    <3>1. fromFec.of \in 0 .. requests /\ 0 \in 0 .. requests
      BY DEF Fifo
    <3> DEFINE R == 0 .. requests
               a == IF fromFec.bytes = 0 THEN 0 ELSE fromFec.of
    <3>2. answers \in Seq(R) /\ a \in R
      BY <3>1
    <3> HIDE DEF R, a
    <3>3. Append(answers, a) \in Seq(R)
      BY <3>2
    <3> QED
      BY <2>1, <3>2, <3>3 DEF R, a
  <2> QED
    BY <2>1, <2>2 DEF Empty, Fifo
<1>9. CASE FecReads
  <2>1. /\ UNCHANGED <<server, opened, peer, lines, pending, requests, fromFec, answers, smooth>>
        /\ toFec' = Empty /\ fec = "reads" /\ fec' = "types"
        /\ seen' \in {toFec.of, seen}
    BY <1>9 DEF FecReads
  <2> QED
    BY <2>1 DEF Empty, Fifo
<1>10. CASE FecWrites
  <2>1. /\ UNCHANGED <<server, peer, lines, pending, requests, toFec, seen, answers, smooth>>
        /\ fec = "types"
        /\ \/ fec' = "gone" /\ opened' = [opened EXCEPT !.fec = 0] /\ fromFec' = fromFec
           \/ /\ fec' = "reads" /\ opened' = opened
              /\ \E n \in Nat : fromFec' \in {fromFec, [of |-> seen, bytes |-> fromFec.bytes + n]}
    BY <1>10 DEF FecWrites, Answers
  <2>2. fromFec' \in Fifo /\ fromFec'.of <= requests
    BY <2>1 DEF Fifo
  <2> QED
    BY <2>1, <2>2
<1>11. CASE UNCHANGED vars
  BY <1>11 DEF vars
<1> QED
  BY <1>1, <1>2, <1>3, <1>4, <1>5, <1>6, <1>7, <1>8, <1>9, <1>10, <1>11 DEF Next, Server, Fec

\* The type invariant of the bridge: among others, an answer is to a request that
\* was received, and every piece still to be received has at least one byte.
THEOREM BridgeTypeCorrect == Spec => []TypeOK
<1>1. Types => TypeOK
  BY DEF Types
<1> QED
  BY <1>1, TypesInit, TypesStep, PTL DEF Spec

-----------------------------------------------------------------------------
(* The order of the answers. *)

\* All answers so far are to requests before r.
Before(r) == \A k \in 1 .. Len(answers) : answers[k] < r

\* NoAnswerTwice is not inductive: what is on its way, in the FIFOs or at the
\* FEC, is of later requests than the answers, and in that order.
OnTheWay ==
    /\ toFec.bytes > 0 =>
         toFec.of > seen /\ Before(toFec.of) /\ (fromFec.bytes > 0 => toFec.of > fromFec.of)
    /\ fec = "types" /\ server \notin Gone =>
         seen > 0 /\ Before(seen) /\ (fromFec.bytes > 0 => seen > fromFec.of)
    /\ fromFec.bytes > 0 => Before(fromFec.of)
    /\ NoAnswerTwice

\* Every step keeps the order.
LEMMA OrderStep == Types /\ OnTheWay /\ [Next]_vars => OnTheWay'
<1> SUFFICES ASSUME Types, OnTheWay, [Next]_vars PROVE OnTheWay'
  OBVIOUS
<1> USE DEF tcpVars, fifoVars
<1>0. /\ requests \in Nat /\ seen \in 0 .. requests
      /\ toFec.of \in 0 .. requests /\ toFec.bytes \in Nat
      /\ fromFec.of \in 0 .. requests /\ fromFec.bytes \in Nat
      /\ answers \in Seq(0 .. requests) /\ Len(answers) \in Nat
      /\ \A k \in 1 .. Len(answers) : answers[k] \in 0 .. requests
  BY DEF Types, TypeOK, Opening, Fifo
<1>1. CASE UNCHANGED <<toFec, fromFec, answers, seen>> /\ (fec' = fec \/ fec' # "types")
           /\ (server \in Gone => server' \in Gone)
  BY <1>1 DEF OnTheWay, Before, NoAnswerTwice
<1>2. CASE FecDown
  <2>1. UNCHANGED <<toFec, fromFec, answers>> /\ seen' = 0 /\ fec' = "gone"
    BY <1>2 DEF FecDown
  <2>2. toFec.bytes > 0 => toFec.of > 0
    BY <1>0 DEF OnTheWay
  <2> QED
    BY <2>1, <2>2 DEF OnTheWay, Before, NoAnswerTwice
<1>3. CASE Receive
  <2>1. /\ UNCHANGED <<fec, fromFec, seen, answers>> /\ requests' = requests + 1
        /\ server \notin Gone
        /\ toFec' = toFec \/ toFec'.of = requests + 1
    BY <1>3 DEF Receive, Gone
  <2>2. Before(requests + 1)
    BY <1>0 DEF Before
  <2> QED
    BY <1>0, <2>1, <2>2 DEF OnTheWay, Before, NoAnswerTwice
<1>4. CASE Answer
  <2>1. /\ UNCHANGED <<fec, toFec, seen>> /\ fromFec' = Empty /\ server \notin Gone
        /\ \/ answers' = answers
           \/ answers' = Append(answers, IF fromFec.bytes = 0 THEN 0 ELSE fromFec.of)
    BY <1>4 DEF Answer, LeftInFifo, Gone
  <2>2. CASE answers' = answers
    BY <2>1, <2>2 DEF OnTheWay, Before, NoAnswerTwice, Empty
  <2>3. CASE answers' = Append(answers, 0) /\ fromFec.bytes = 0
    <3>1. /\ Len(answers') = Len(answers) + 1 /\ answers'[Len(answers) + 1] = 0
          /\ \A k \in 1 .. Len(answers) : answers'[k] = answers[k]
      BY <1>0, <2>3
    <3>2. \A r \in Nat \ {0} : Before(r) => Before(r)'
      BY <1>0, <3>1, SMTT(30) DEF Before
    <3>3. NoAnswerTwice'
      <4> SUFFICES ASSUME NEW j \in 1 .. Len(answers) + 1, NEW k \in 1 .. Len(answers) + 1,
                          j < k, answers'[j] # 0, answers'[k] # 0
                   PROVE  answers'[j] < answers'[k]
        BY <3>1 DEF NoAnswerTwice
      <4>1. k \in 1 .. Len(answers) /\ j \in 1 .. Len(answers)
        BY <1>0, <3>1
      <4> QED
        BY <3>1, <4>1 DEF OnTheWay, NoAnswerTwice
    <3>4. fromFec'.bytes = 0
      BY <2>1 DEF Empty
    <3>5. toFec.bytes > 0 => toFec.of > seen /\ Before(toFec.of)'
      BY <1>0, <2>1, <3>2 DEF OnTheWay
    <3>6. fec = "types" => seen > 0 /\ Before(seen)'
      BY <1>0, <2>1, <3>2 DEF OnTheWay
    <3> QED
      BY <2>1, <3>3, <3>4, <3>5, <3>6 DEF OnTheWay, Before
  <2>4. CASE answers' = Append(answers, fromFec.of) /\ fromFec.bytes > 0
    <3>1. /\ Len(answers') = Len(answers) + 1 /\ answers'[Len(answers) + 1] = fromFec.of
          /\ \A k \in 1 .. Len(answers) : answers'[k] = answers[k]
      BY <1>0, <2>4
    <3>2. \A r \in Nat : Before(r) /\ fromFec.of < r => Before(r)'
      BY <1>0, <3>1 DEF Before
    <3>3. NoAnswerTwice'
      <4> SUFFICES ASSUME NEW j \in 1 .. Len(answers) + 1, NEW k \in 1 .. Len(answers) + 1,
                          j < k, answers'[j] # 0, answers'[k] # 0
                   PROVE  answers'[j] < answers'[k]
        BY <3>1 DEF NoAnswerTwice
      <4>1. j \in 1 .. Len(answers)
        BY <1>0
      <4>2. CASE k \in 1 .. Len(answers)
        BY <3>1, <4>1, <4>2 DEF OnTheWay, NoAnswerTwice
      <4>3. CASE k = Len(answers) + 1
        BY <2>4, <3>1, <4>1, <4>3 DEF OnTheWay, Before
      <4> QED
        BY <1>0, <4>2, <4>3, SMTT(30)
    <3>4. fromFec'.bytes = 0
      BY <2>1 DEF Empty
    <3>5. toFec.bytes > 0 => toFec.of > seen /\ Before(toFec.of)'
      BY <1>0, <2>1, <2>4, <3>2 DEF OnTheWay
    <3>6. fec = "types" => seen > 0 /\ Before(seen)'
      BY <1>0, <2>1, <2>4, <3>2 DEF OnTheWay
    <3> QED
      BY <2>1, <3>3, <3>4, <3>5, <3>6 DEF OnTheWay, Before
  <2> QED
    BY <1>0, <2>1, <2>2, <2>3, <2>4
<1>5. CASE FecReads
  <2>1. /\ UNCHANGED <<server, fromFec, answers>> /\ toFec' = Empty
        /\ (toFec.bytes > 0 /\ seen' = toFec.of) \/ server \in Gone
    BY <1>5 DEF FecReads
  <2> QED
    BY <1>0, <2>1 DEF OnTheWay, Before, NoAnswerTwice, Empty
<1>6. CASE FecWrites
  <2>1. /\ UNCHANGED <<server, toFec, answers, seen>> /\ fec = "types" /\ fec' # "types"
        /\ \/ fromFec' = fromFec
           \/ server \notin Gone /\ fromFec'.of = seen
    <3> PICK n \in Answers :
          IF n > 0 /\ server \in Gone
          THEN fec' = "gone" /\ opened' = [opened EXCEPT !.fec = 0] /\ UNCHANGED fromFec
          ELSE /\ fec' = "reads"
               /\ fromFec' = IF n = 0 THEN fromFec
                             ELSE [of |-> seen, bytes |-> fromFec.bytes + n]
               /\ UNCHANGED opened
      BY <1>6 DEF FecWrites
    <3>1. n \in Nat
      BY LensAssumption DEF Answers
    <3> QED
      BY <1>6, <3>1 DEF FecWrites
  <2> QED
    BY <1>0, <2>1 DEF OnTheWay, Before, NoAnswerTwice
<1>7. CASE \/ ClientSends \/ ClientCloses \/ FecStarts \/ Accept \/ BothOpen \/ ReceiveNothing
           \/ FecOpens \/ UNCHANGED vars
  <2>1. UNCHANGED <<toFec, fromFec, answers, seen>>
    BY <1>7 DEF ClientSends, ClientCloses, FecStarts, Accept, BothOpen, ReceiveNothing, FecOpens, vars
  <2>2. fec' = fec \/ fec' # "types"
    BY <1>7 DEF ClientSends, ClientCloses, FecStarts, Accept, BothOpen, ReceiveNothing, FecOpens, vars
  <2>3. server \in Gone => server' \in Gone
    BY <1>7 DEF ClientSends, ClientCloses, FecStarts, Accept, BothOpen, ReceiveNothing, FecOpens, vars, Gone
  <2> QED
    BY <1>1, <2>1, <2>2, <2>3
<1> QED
  BY <1>2, <1>3, <1>4, <1>5, <1>6, <1>7 DEF Next, Server, Fec

\* Nothing typed at the FEC is sent to the client twice, or after something that
\* was typed for a later piece, whatever TCP does with the lines, and whichever
\* process dies and is started again (server.c:111-131, client.c:25-37).
THEOREM AnswersInOrder == Spec => []NoAnswerTwice
<1>1. Init => OnTheWay
  BY DEF Init, OnTheWay, NoAnswerTwice, Before, Empty
<1>2. Types /\ OnTheWay => NoAnswerTwice
  BY DEF OnTheWay
<1> QED
  BY <1>1, <1>2, OrderStep, TypesInit, TypesStep, PTL DEF Spec

-----------------------------------------------------------------------------
(* If all goes smoothly. *)

\* No piece that is still to come leaves one byte.
NoneOfOneByte == \A k \in 1 .. Len(pending) : pending[k] % TCP_LEN # 1

\* The one request that was not answered is in a FIFO, or at the FEC, or its
\* answer is in the other FIFO.
Turn ==
    \/ toFec.bytes > 0 /\ toFec.of = requests /\ fromFec.bytes = 0 /\ fec # "types"
    \/ toFec.bytes = 0 /\ fromFec.bytes = 0 /\ fec = "types" /\ seen = requests
    \/ toFec.bytes = 0 /\ fromFec.bytes > 0 /\ fromFec.of = requests /\ fec # "types"

\* AnswerIsToRequest is not inductive: server and FEC take turns.
Smooth ==
    smooth =>
        /\ peer = "open" /\ NoneOfOneByte
        /\ server \notin Gone /\ fec # "gone"
        /\ server \in {"recv", "read"} => opened.fec = 2
        /\ server = "opens" /\ fec = "opens" => opened.fec = opened.server
        /\ server = "accept" => fec \in {"off", "broken"}
        /\ server = "opens" => fec \in {"off", "broken", "opens"}
        /\ server = "opens" /\ fec # "opens" => opened.server = 0
        /\ server # "read" =>
             requests = Len(answers) /\ toFec.bytes = 0 /\ fromFec.bytes = 0 /\ fec # "types"
        /\ server = "read" => requests = Len(answers) + 1 /\ Turn
        /\ AnswerIsToRequest

\* A turn of the server: something is left of the piece, and no piece of one
\* byte is left behind.
LEMMA SmoothReceive ==
    ASSUME Types, Smooth, smooth, Receive
    PROVE  /\ server' = "read" /\ NoneOfOneByte'
           /\ toFec'.bytes > 0 /\ toFec'.of = requests + 1
<1> DEFINE h == Head(pending)
           n == Received(h)
<1>1. /\ h \in Nat \ {0} /\ h = pending[1] /\ Len(pending) \in Nat \ {0}
      /\ Tail(pending) \in Seq(Nat \ {0}) /\ Len(Tail(pending)) = Len(pending) - 1
      /\ \A k \in 1 .. Len(pending) - 1 : Tail(pending)[k] = pending[k + 1]
  BY DEF Receive, Types, TypeOK
<1>2. h % TCP_LEN # 1
  BY <1>1 DEF Smooth, NoneOfOneByte
<1> HIDE DEF h
<1>3. n \in 2 .. TCP_LEN /\ (h # n => n = TCP_LEN /\ h > TCP_LEN)
  <2>1. h # 1
    BY <1>2 DEF TCP_LEN
  <2>2. h \in Nat \ {0}
    BY <1>1
  <2>3. /\ n \in 1 .. TCP_LEN /\ n <= h
        /\ h < TCP_LEN => n = h
        /\ h >= TCP_LEN => n = TCP_LEN
    BY <2>2, ReceivedBounds
  <2> HIDE DEF n
  <2> QED
    BY <2>1, <2>2, <2>3 DEF TCP_LEN
<1> HIDE DEF n
<1>4. /\ requests' = requests + 1 /\ server' = "read"
      /\ toFec' = [of |-> requests', bytes |-> toFec.bytes + Written(n)]
      /\ pending' = IF h = n THEN Tail(pending) ELSE <<h - n>> \o Tail(pending)
  <2>1. Written(n) # 0
    BY <1>3 DEF Written, TCP_LEN
  <2>2. FecHolds("to")
    <3>1. opened.fec = 2
      BY DEF Receive, Smooth
    <3> QED
      BY <3>1 DEF FecHolds, FecFifos
  <2> QED
    BY <2>1, <2>2 DEF Receive, h, n
<1>5. toFec.bytes = 0
  BY DEF Receive, Smooth
<1>6. NoneOfOneByte'
  <2> SUFFICES ASSUME NEW k \in 1 .. Len(pending') PROVE pending'[k] % TCP_LEN # 1
    BY DEF NoneOfOneByte
  <2>1. CASE h = n
    BY <1>1, <1>4, <2>1 DEF Smooth, NoneOfOneByte
  <2>2. CASE h # n
    <3>1. h - n \in Nat \ {0} /\ (h - n) % TCP_LEN # 1
      <4>1. n = 24 /\ h > 24 /\ h % 24 # 1
        BY <1>2, <1>3, <2>2 DEF TCP_LEN
      <4>2. (h - 24) % 24 = h % 24
        BY <1>1, SMTT(60)
      <4> QED
        BY <1>1, <4>1, <4>2 DEF TCP_LEN
    <3>2. <<h - n>> \in Seq(Nat \ {0})
      BY <3>1
    <3>3. /\ Len(pending') = Len(pending) /\ pending'[1] = h - n
          /\ \A j \in 2 .. Len(pending) : pending'[j] = pending[j]
      BY <1>1, <1>4, <2>2, <3>2
    <3> QED
      BY <1>1, <3>1, <3>3 DEF Smooth, NoneOfOneByte
  <2> QED
    BY <2>1, <2>2
<1> QED
  BY <1>3, <1>4, <1>5, <1>6 DEF Written, TCP_LEN, Types, TypeOK

\* Every step keeps the turns.
LEMMA SmoothStep == Types /\ Smooth /\ [Next]_vars => Smooth'
<1> SUFFICES ASSUME Types, Smooth, [Next]_vars, smooth' PROVE Smooth'
  BY DEF Smooth
<1>0. /\ smooth /\ requests \in Nat /\ opened.fec \in 0 .. 2
      /\ toFec.bytes \in Nat /\ fromFec.bytes \in Nat
      /\ answers \in Seq(Nat) /\ Len(answers) \in Nat /\ pending \in Seq(Nat \ {0})
      /\ peer = "open" /\ NoneOfOneByte /\ server \notin Gone /\ fec # "gone" /\ AnswerIsToRequest
  <2>1. smooth
    BY DEF Next, Server, Fec, ClientSends, ClientCloses, FecStarts, FecDown, Accept, BothOpen,
           Receive, ReceiveNothing, Answer, FecOpens, FecReads, FecWrites, vars
  <2>2. 0 .. requests \subseteq Nat
    OBVIOUS
  <2>3. answers \in Seq(Nat)
    BY <2>2 DEF Types, TypeOK
  <2> QED
    BY <2>1, <2>3 DEF Types, TypeOK, Fifo, Smooth
<1> USE DEF tcpVars, fifoVars, Gone
<1>1. CASE ClientSends
  <2>1. UNCHANGED <<server, fec, opened, peer, requests, toFec, fromFec, seen, answers, smooth>>
    BY <1>1 DEF ClientSends
  <2> PICK n \in Lines : pending' \in Segments(n)
    BY <1>1 DEF ClientSends
  <2>2. n \in Nat \ {0} /\ n % TCP_LEN # 1 /\ pending' = Append(pending, n)
    BY <1>0, LensAssumption DEF Lines, Segments
  <2>3. NoneOfOneByte'
    BY <1>0, <2>2, SMTT(30) DEF NoneOfOneByte
  <2> QED
    BY <2>1, <2>3 DEF Smooth, Turn, AnswerIsToRequest
<1>2. CASE ClientCloses \/ FecDown \/ ReceiveNothing
  BY <1>0, <1>2 DEF ClientCloses, FecDown, ReceiveNothing
<1>3. CASE Accept \/ FecStarts \/ UNCHANGED vars
  <2>1. /\ UNCHANGED <<opened, peer, pending, requests, toFec, fromFec, seen, answers, smooth>>
        /\ (server' = server) \/ (server = "accept" /\ server' = "opens")
        /\ (fec' = fec) \/ (fec = "off" /\ fec' \in {"opens", "broken"})
    BY <1>0, <1>3 DEF Accept, FecStarts, vars
  <2>2. /\ server' = "accept" => server = "accept" /\ fec' \in {"off", "broken"}
        /\ server' = "opens" /\ fec' # fec => opened.fec = 0
        /\ server' # server => opened.server = 0 /\ fec' = fec
    BY <1>0, <1>3, <2>1 DEF Accept, FecStarts, vars, Types, Opening, Smooth
  <2> QED
    BY <1>0, <2>1, <2>2 DEF Smooth, Turn, NoneOfOneByte, AnswerIsToRequest
<1>4. CASE BothOpen
  <2>1. /\ UNCHANGED <<peer, pending, requests, toFec, fromFec, seen, answers, smooth>>
        /\ server = "opens" /\ fec = "opens" /\ opened.fec = opened.server
        /\ opened' = [server |-> opened.server + 1, fec |-> opened.fec + 1]
        /\ server' = IF opened'.server = 2 THEN "recv" ELSE "opens"
        /\ fec' = IF opened'.fec = 2 THEN "reads" ELSE "opens"
    BY <1>0, <1>4 DEF BothOpen, Smooth
  <2>2. /\ opened'.fec = opened'.server
        /\ \/ server' = "recv" /\ fec' = "reads" /\ opened'.fec = 2
           \/ server' = "opens" /\ fec' = "opens"
    BY <2>1
  <2> QED
    BY <1>0, <2>1, <2>2 DEF Smooth, NoneOfOneByte, AnswerIsToRequest
<1>5. CASE FecOpens
  \* The server holds a FIFO that the FEC does not: not if all goes smoothly.
  <2>1. \E k \in 1 .. opened.server : ServerFifos[k] = FecFifos[opened.fec + 1]
    BY <1>5 DEF FecOpens, ServerHolds
  <2>2. fec = "opens" /\ opened.fec \in 0 .. 1 /\ opened.server \in 0 .. 2
    BY <1>5 DEF FecOpens, Types, TypeOK, Opening
  <2>3. opened.fec # opened.server
    BY <2>1, <2>2 DEF ServerFifos, FecFifos
  <2>4. server = "accept"
    BY <1>0, <2>2, <2>3 DEF Smooth, Types, TypeOK
  <2>5. opened.server = 0
    BY <2>4 DEF Types, Opening
  <2> QED
    BY <2>1, <2>5
<1>6. CASE Receive
  <2>1. /\ UNCHANGED <<fec, opened, peer, fromFec, seen, answers, smooth>>
        /\ server = "recv" /\ requests' = requests + 1
    BY <1>6 DEF Receive
  <2>2. /\ server' = "read" /\ NoneOfOneByte'
        /\ toFec'.bytes > 0 /\ toFec'.of = requests + 1
    BY <1>0, <1>6, SmoothReceive
  <2> QED
    BY <1>0, <2>1, <2>2 DEF Smooth, Turn, AnswerIsToRequest
<1>7. CASE Answer
  <2>1. server = "read" /\ fromFec.bytes > 0
    <3>1. server = "read" /\ opened.fec = 2
      BY <1>7 DEF Answer, Smooth
    <3>2. FecHolds("from")
      BY <3>1 DEF FecHolds, FecFifos
    <3> QED
      BY <1>0, <1>7, <3>1, <3>2 DEF Answer, AnswerReady
  <2>2. fromFec.of = requests /\ toFec.bytes = 0 /\ fec # "types" /\ requests = Len(answers) + 1
    BY <1>0, <2>1 DEF Smooth, Turn
  <2>3. /\ UNCHANGED <<fec, opened, pending, requests, toFec, seen, smooth>>
        /\ server' = "recv" /\ peer' = "open" /\ fromFec' = Empty
        /\ answers' = Append(answers, requests)
    BY <1>0, <1>7, <2>1, <2>2 DEF Answer, LeftInFifo
  <2>4. Len(answers') = Len(answers) + 1 /\ AnswerIsToRequest'
    BY <1>0, <2>2, <2>3 DEF AnswerIsToRequest
  <2> QED
    BY <1>0, <2>1, <2>2, <2>3, <2>4 DEF Smooth, NoneOfOneByte, Empty
<1>8. CASE FecReads
  <2>1. /\ UNCHANGED <<server, opened, peer, pending, requests, fromFec, answers, smooth>>
        /\ toFec.bytes > 0 /\ seen' = toFec.of /\ toFec' = Empty /\ fec' = "types"
    BY <1>0, <1>8 DEF FecReads
  <2> QED
    BY <1>0, <2>1 DEF Smooth, Turn, NoneOfOneByte, AnswerIsToRequest, Empty
<1>9. CASE FecWrites
  <2>1. /\ UNCHANGED <<server, opened, peer, pending, requests, toFec, seen, answers, smooth>>
        /\ fec = "types" /\ fec' = "reads"
        /\ \E n \in Nat \ {0} : fromFec' = [of |-> seen, bytes |-> fromFec.bytes + n]
    <3> PICK n \in Answers :
          IF n > 0 /\ server \in Gone
          THEN fec' = "gone" /\ opened' = [opened EXCEPT !.fec = 0] /\ UNCHANGED fromFec
          ELSE /\ fec' = "reads"
               /\ fromFec' = IF n = 0 THEN fromFec
                             ELSE [of |-> seen, bytes |-> fromFec.bytes + n]
               /\ UNCHANGED opened
      BY <1>9 DEF FecWrites
    <3>1. n \in Nat \ {0}
      BY <1>0, LensAssumption DEF Answers
    <3>2. /\ UNCHANGED <<server, peer, pending, requests, toFec, seen, answers, smooth>>
          /\ fec = "types"
      BY <1>9 DEF FecWrites
    <3> QED
      BY <1>0, <3>1, <3>2
  <2> QED
    BY <1>0, <2>1 DEF Smooth, Turn, NoneOfOneByte, AnswerIsToRequest
<1> QED
  BY <1>1, <1>2, <1>3, <1>4, <1>5, <1>6, <1>7, <1>8, <1>9 DEF Next, Server, Fec

\* What the client is sent in answer to its k-th piece was typed after the FEC
\* had read that piece, and no other, as long as all goes smoothly, for lines
\* and answers of any lengths.
THEOREM SmoothAnswers == Spec => []AnswerIsToRequest
<1>1. Init => Smooth
  BY DEF Init, Smooth, NoneOfOneByte, AnswerIsToRequest, Gone, Empty
<1>2. Smooth => AnswerIsToRequest
  BY DEF Smooth, AnswerIsToRequest
<1> QED
  BY <1>1, <1>2, SmoothStep, TypesInit, TypesStep, PTL DEF Spec
=============================================================================
