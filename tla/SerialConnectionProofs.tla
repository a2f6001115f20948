------------------------ MODULE SerialConnectionProofs ------------------------
(***************************************************************************)
(* Theorems about SerialConnection, for every set of threads, every bound  *)
(* and all payload lengths.  TInv and its parts hold whatever the line     *)
(* does; CalmInv is for a device that answers in time (no deadline is      *)
(* reached) and a port that does not fail.                                 *)
(***************************************************************************)
EXTENDS SerialConnection, TLAPS

-----------------------------------------------------------------------------
(* Type correctness needs to know that the line holds only bytes of frames *)
(* that were asked for.                                                    *)

OnFrame(c) == c.frame \in 1 .. Len(reqs) /\ c.pos <= reqs[c.frame] + 2
Before(c, d) == c.frame < d.frame \/ (c.frame = d.frame /\ c.pos < d.pos)

LineOK ==
    /\ OnFrame(dev) \/ dev = Cursor(Len(reqs) + 1, 0)
    /\ rd = dev \/ (OnFrame(rd) /\ Before(rd, dev))

\* Bytes that have been on the line, and ZeroByte.
OldBytes == {c \in Bytes : c.frame <= Len(reqs)}

BufOK ==
    /\ buf = [b \in Phases |-> buf[b]]
    /\ \A b \in Phases : \E n \in Nat : buf[b] \in [0 .. n - 1 -> OldBytes]

HeaderOK == (\E t \in Threads : pc[t] \in Phases) => DOMAIN buf["header"] = 0 .. 1

TInv == TypeOK /\ LineOK /\ BufOK /\ MutualExclusion /\ HeaderOK

-----------------------------------------------------------------------------

\* A cursor stays a cursor, and lines stay ordered, when one end moves.
LEMMA AdvanceType ==
    ASSUME TypeOK, NEW c \in Bytes
    PROVE  Advance(c) \in Bytes
BY DEF Advance, Cursor, Bytes, TypeOK

\* Lengths are numbers.
LEMMA ReqsNat ==
    ASSUME TypeOK
    PROVE  Len(reqs) \in Nat /\ \A f \in 1 .. Len(reqs) : reqs[f] \in Nat
<1>1. reqs \in Seq(PayloadLens)
  BY DEF TypeOK
<1>2. Len(reqs) \in Nat /\ \A f \in 1 .. Len(reqs) : reqs[f] \in PayloadLens
  BY <1>1
<1> QED
  BY <1>2, LensAssumption

\* Moving rd or dev one byte on keeps both on the line, rd not behind dev.
LEMMA AdvanceOrder ==
    ASSUME TypeOK, LineOK
    PROVE  /\ rd # dev => /\ rd.frame \in 1 .. Len(reqs)
                          /\ Advance(rd) = dev \/ (OnFrame(Advance(rd)) /\ Before(Advance(rd), dev))
           /\ dev.frame <= Len(reqs) => /\ OnFrame(Advance(dev)) \/ Advance(dev) = Cursor(Len(reqs) + 1, 0)
                                        /\ OnFrame(rd) /\ Before(rd, Advance(dev))
<1> USE DEF Cursor
<1>1. /\ Len(reqs) \in Nat
      /\ \A f \in 1 .. Len(reqs) : reqs[f] \in Nat
  BY ReqsNat
<1>2. /\ rd.frame \in Nat /\ rd.pos \in Nat /\ dev.frame \in Nat /\ dev.pos \in Nat
      /\ \A c \in Bytes : c = [frame |-> c.frame, pos |-> c.pos]
      /\ rd \in Bytes /\ dev \in Bytes
  BY DEF TypeOK, Bytes
<1>3. ASSUME rd # dev
      PROVE  /\ rd.frame \in 1 .. Len(reqs)
             /\ Advance(rd) = dev \/ (OnFrame(Advance(rd)) /\ Before(Advance(rd), dev))
  <2>1. OnFrame(rd) /\ Before(rd, dev)
    BY <1>3 DEF LineOK
  <2>2. CASE rd.pos < reqs[rd.frame] + 2
    BY <1>1, <1>2, <2>1, <2>2 DEF LineOK, OnFrame, Before, Advance
  <2>3. CASE ~(rd.pos < reqs[rd.frame] + 2)
    <3>1. Advance(rd) = [frame |-> rd.frame + 1, pos |-> 0] /\ rd.frame < dev.frame
      BY <1>1, <1>2, <2>1, <2>3 DEF LineOK, OnFrame, Before, Advance
    <3>2. CASE OnFrame(dev)
      BY <1>1, <1>2, <2>1, <3>1, <3>2 DEF OnFrame, Before
    <3>3. CASE dev = [frame |-> Len(reqs) + 1, pos |-> 0]
      BY <1>1, <1>2, <2>1, <3>1, <3>3 DEF OnFrame, Before
    <3> QED
      BY <3>2, <3>3 DEF LineOK
  <2> QED
    BY <2>1, <2>2, <2>3 DEF OnFrame
<1>4. ASSUME dev.frame <= Len(reqs)
      PROVE  /\ OnFrame(Advance(dev)) \/ Advance(dev) = [frame |-> Len(reqs) + 1, pos |-> 0]
             /\ OnFrame(rd) /\ Before(rd, Advance(dev))
  <2>1. OnFrame(dev)
    BY <1>1, <1>4 DEF LineOK
  <2>2. CASE dev.pos < reqs[dev.frame] + 2
    BY <1>1, <1>2, <2>1, <2>2 DEF LineOK, OnFrame, Before, Advance
  <2>3. CASE ~(dev.pos < reqs[dev.frame] + 2)
    <3>1. Advance(dev) = [frame |-> dev.frame + 1, pos |-> 0]
      BY <2>3 DEF Advance
    <3> QED
      BY <1>1, <1>2, <2>1, <3>1, SMTT(30) DEF LineOK, OnFrame, Before
  <2> QED
    BY <2>2, <2>3
<1> QED
  BY <1>3, <1>4

\* Nothing is on the line at first.
LEMMA TInvInit == Init => TInv
<1> SUFFICES ASSUME Init PROVE TInv
  OBVIOUS
<1> USE DEF Init, Cursor, Phases
<1>1. TypeOK
  <2>1. ops \in Seq(OpSet) /\ reqs \in Seq(PayloadLens) /\ returned \in Seq(Frames)
    OBVIOUS
  <2> QED
    BY <2>1 DEF TypeOK, Bytes
<1>2. LineOK
  BY DEF LineOK, OnFrame, Before
<1>3. BufOK
  <2>1. \A b \in Phases : buf[b] \in [0 .. 0 - 1 -> OldBytes]
    BY DEF Zeros
  <2> QED
    BY <2>1 DEF BufOK
<1>4. MutualExclusion /\ HeaderOK
  BY ThreadsAssumption DEF MutualExclusion, HeaderOK
<1> QED
  BY <1>1, <1>2, <1>3, <1>4 DEF TInv

\* A vector of zeros is a vector of old bytes.
LEMMA ZerosOld ==
    ASSUME TypeOK, NEW n \in Nat
    PROVE  Zeros(n) \in [0 .. n - 1 -> OldBytes]
<1>1. Len(reqs) \in Nat
  BY DEF TypeOK
<1> QED
  BY <1>1 DEF Zeros, ZeroByte, Cursor, OldBytes, Bytes

\* The operations stay operations.
LEMMA OpsType ==
    ASSUME TypeOK
    PROVE  /\ Dangling(ops) \in Seq(OpSet)
           /\ \A b \in Phases, n \in Nat \ {0} : Append(ops, Op(b, n)) \in Seq(OpSet)
<1>1. ops \in Seq(OpSet)
  BY DEF TypeOK
<1>2. ASSUME NEW o \in OpSet PROVE [o EXCEPT !.buf = "stale"] \in OpSet
  BY DEF OpSet
<1>3. \A b \in Phases, n \in Nat \ {0} : Op(b, n) \in OpSet
  BY DEF Op, OpSet
<1> QED
  BY <1>1, <1>2, <1>3 DEF Dangling

\* What header[1] can be read as is a natural number.
LEMMA LengthsType ==
    ASSUME TInv, HeaderOK, NEW t \in Threads, pc[t] \in Phases
    PROVE  LengthsOf(buf["header"][1]) \subseteq Nat
<1>1. DOMAIN buf["header"] = 0 .. 1
  BY DEF HeaderOK
<1>2. buf["header"][1] \in OldBytes
  BY <1>1 DEF TInv, BufOK, Phases
<1>3. Len(reqs) \in Nat /\ \A f \in 1 .. Len(reqs) : reqs[f] \in Nat
  BY ReqsNat DEF TInv
<1>4. buf["header"][1].frame \in Nat /\ buf["header"][1].frame <= Len(reqs)
  BY <1>2 DEF OldBytes, Bytes
<1>5. buf["header"][1].frame # 0 => reqs[buf["header"][1].frame] \in Nat
  BY <1>3, <1>4
<1>6. CASE buf["header"][1].frame = 0
  BY <1>6 DEF LengthsOf
<1>7. CASE buf["header"][1].frame # 0 /\ buf["header"][1].pos = 1
  BY <1>5, <1>7 DEF LengthsOf
<1>8. CASE buf["header"][1].frame # 0 /\ buf["header"][1].pos # 1
  BY <1>8, LensAssumption DEF LengthsOf
<1> QED
  BY <1>6, <1>7, <1>8

\* Every step keeps the line, the vectors and the mutex in order.
LEMMA TInvStep == TInv /\ [Next]_vars => TInv'
<1> SUFFICES ASSUME TInv, [Next]_vars PROVE TInv'
  OBVIOUS
<1>0. TypeOK /\ LineOK /\ BufOK /\ MutualExclusion /\ HeaderOK
  BY DEF TInv
<1>1. ASSUME NEW t \in Threads, NEW n \in PayloadLens,
             reqs' = Append(reqs, n), UNCHANGED <<dev, rd, buf>>
      PROVE  reqs' \in Seq(PayloadLens) /\ LineOK' /\ BufOK'
  <2>1. reqs \in Seq(PayloadLens) /\ n \in Nat
    BY <1>0, LensAssumption DEF TypeOK
  <2>2. Len(reqs') = Len(reqs) + 1 /\ Len(reqs) \in Nat
        /\ reqs'[Len(reqs) + 1] = n /\ \A f \in 1 .. Len(reqs) : reqs'[f] = reqs[f]
    BY <1>1, <2>1
  <2>3. LineOK'
    BY <1>0, <1>1, <2>1, <2>2 DEF LineOK, OnFrame, Before, Cursor
  <2>4. OldBytes \subseteq OldBytes'
    BY <2>2 DEF OldBytes, Bytes
  <2>5. BufOK'
    BY <1>0, <1>1, <2>4 DEF BufOK
  <2> QED
    BY <1>1, <2>1, <2>3, <2>5
<1>2. ASSUME NEW t \in Threads, SendFrame(t) PROVE TInv'
  <2>1. PICK n \in PayloadLens : reqs' = Append(reqs, n)
    BY <1>2 DEF Wire, SendFrame
  <2>2. reqs' \in Seq(PayloadLens) /\ LineOK' /\ BufOK' /\ Len(reqs') \in Nat
    BY <1>1, <1>2, <2>1 DEF SendFrame
  <2>3. TypeOK'
    BY <1>0, <1>2, <2>2 DEF SendFrame, TypeOK
  <2>4. MutualExclusion' /\ HeaderOK'
    BY <1>0, <1>2, ThreadsAssumption DEF SendFrame, MutualExclusion, HeaderOK, TypeOK, Phases
  <2> QED
    BY <2>2, <2>3, <2>4 DEF TInv
<1>3. ASSUME NEW t \in Threads, SendThrows(t) PROVE TInv'
  <2>1. PICK n \in PayloadLens : reqs' \in {reqs, Append(reqs, n)}
    BY <1>3 DEF SendThrows
  <2>2. reqs' \in Seq(PayloadLens) /\ LineOK' /\ BufOK'
    <3>1. CASE reqs' = reqs
      BY <1>0, <1>3, <3>1 DEF SendThrows, TypeOK, LineOK, OnFrame, Before, BufOK, OldBytes
    <3>2. CASE reqs' = Append(reqs, n)
      BY <1>1, <1>3, <3>2 DEF SendThrows
    <3> QED
      BY <2>1, <3>1, <3>2
  <2>3. TypeOK' /\ MutualExclusion' /\ HeaderOK'
    BY <1>0, <1>3, <2>2 DEF SendThrows, TypeOK, MutualExclusion, HeaderOK
  <2> QED
    BY <2>2, <2>3 DEF TInv
<1>4. ASSUME NEW t \in Threads, BeginRead(t) PROVE TInv'
  <2>1. ops' \in Seq(OpSet)
    BY <1>0, <1>4, OpsType DEF BeginRead, Phases
  <2>2. TypeOK'
    BY <1>0, <1>4, <2>1 DEF Acquire, Fresh, BeginRead, TypeOK, Phases
  <2>3. LineOK'
    BY <1>0, <1>4 DEF BeginRead, LineOK, OnFrame, Before
  <2>4. BufOK' /\ HeaderOK'
    <3>1. Zeros(2) \in [0 .. 2 - 1 -> OldBytes]
      BY <1>0, ZerosOld
    <3>2. OldBytes' = OldBytes /\ buf' = [b \in Phases |-> IF b = "header" THEN Zeros(2) ELSE buf[b]]
      BY <1>0, <1>4 DEF BeginRead, Fresh, BufOK, OldBytes, Phases
    <3>3. \A b \in Phases : \E n \in Nat : buf'[b] \in [0 .. n - 1 -> OldBytes]
      BY <1>0, <3>1, <3>2 DEF BufOK
    <3>4. DOMAIN buf'["header"] = 0 .. 1
      BY <3>2 DEF Zeros, Phases
    <3> QED
      BY <3>2, <3>3, <3>4 DEF BufOK, HeaderOK
  <2>5. MutualExclusion'
    BY <1>0, <1>4, ThreadsAssumption DEF Acquire, BeginRead, MutualExclusion, TypeOK, Phases
  <2> QED
    BY <2>2, <2>3, <2>4, <2>5 DEF TInv
<1>5. ASSUME NEW t \in Threads, HeaderDone(t) PROVE TInv'
  <2>0. lock = t /\ pc[t] = "header" /\ pc[t] \in Phases
    BY <1>5 DEF HeaderDone, RunForReturns, Phases
  <2>1. PICK n \in LengthsOf(buf["header"][1]) :
            /\ buf' = [buf EXCEPT !["body"] = Zeros(n + 1)]
            /\ ops' = Append(ops, Op("body", n + 1))
    BY <1>5 DEF Fresh, HeaderDone
  <2>2. n \in Nat
    BY <1>0, <2>0, LengthsType
  <2>3. TypeOK'
    <3>1. ops' \in Seq(OpSet)
      BY <1>0, <2>1, <2>2, OpsType DEF Phases
    <3> QED
      BY <1>0, <1>5, <2>1, <3>1 DEF IoReset, HeaderDone, TypeOK, Phases
  <2>4. LineOK'
    BY <1>0, <1>5 DEF HeaderDone, LineOK, OnFrame, Before
  <2>5. BufOK' /\ HeaderOK'
    <3>1. \E m \in Nat : Zeros(n + 1) \in [0 .. m - 1 -> OldBytes]
      <4>1. n + 1 \in Nat
        BY <2>2
      <4> QED
        BY <1>0, <4>1, ZerosOld
    <3>2. buf' = [b \in Phases |-> IF b = "body" THEN Zeros(n + 1) ELSE buf[b]]
      BY <1>0, <2>1 DEF BufOK, Phases
    <3>3. OldBytes' = OldBytes
      BY <1>5 DEF HeaderDone, OldBytes
    <3>4. \A b \in Phases : \E m \in Nat : buf'[b] \in [0 .. m - 1 -> OldBytes]
      BY <1>0, <3>1, <3>2 DEF BufOK
    <3>5. DOMAIN buf'["header"] = 0 .. 1
      BY <1>0, <2>0, <3>2 DEF HeaderOK, Phases
    <3> QED
      BY <3>2, <3>3, <3>4, <3>5 DEF BufOK, HeaderOK
  <2>6. MutualExclusion'
    BY <1>0, <1>5, <2>0 DEF HeaderDone, MutualExclusion, TypeOK, Phases
  <2> QED
    BY <2>3, <2>4, <2>5, <2>6 DEF TInv
<1>6. ASSUME NEW t \in Threads, BodyDone(t) PROVE TInv'
  <2>1. ops' \in Seq(OpSet)
    BY <1>0, <1>6, OpsType DEF BodyDone
  <2>2. returned' \in Seq(Frames)
    <3>1. Assembled(buf["header"], buf["body"]) \in Nat
      <4>1. HeaderOK /\ pc[t] \in Phases
        BY <1>0, <1>6 DEF BodyDone, Phases
      <4>2. buf["header"][0] \in OldBytes
        BY <1>0, <4>1 DEF BufOK, HeaderOK, Phases
      <4> QED
        BY <4>2 DEF Assembled, OldBytes, Bytes
    <3>2. returned \in Seq(Frames) /\ asked[t] \in Nat
      BY <1>0 DEF TypeOK
    <3> QED
      BY <1>6, <3>1, <3>2 DEF BodyDone, Frames
  <2>3. TypeOK'
    BY <1>0, <1>6, <2>1, <2>2 DEF IoReset, BodyDone, TypeOK, Phases
  <2>4. LineOK' /\ BufOK'
    BY <1>0, <1>6 DEF BodyDone, LineOK, OnFrame, Before, BufOK, OldBytes
  <2>5. MutualExclusion' /\ HeaderOK'
    BY <1>0, <1>6, ThreadsAssumption
    DEF BodyDone, RunForReturns, MutualExclusion, HeaderOK, TypeOK, Phases
  <2> QED
    BY <2>3, <2>4, <2>5 DEF TInv
<1>7. ASSUME NEW t \in Threads, ReadThrows(t) PROVE TInv'
  <2>1. ops' \in Seq(OpSet)
    BY <1>0, <1>7, OpsType DEF ReadThrows
  <2>2. TypeOK'
    BY <1>0, <1>7, <2>1 DEF ReadThrows, TypeOK, Phases
  <2>3. LineOK' /\ BufOK'
    BY <1>0, <1>7 DEF ReadThrows, LineOK, OnFrame, Before, BufOK, OldBytes
  <2>4. MutualExclusion' /\ HeaderOK'
    BY <1>0, <1>7, ThreadsAssumption
    DEF ReadThrows, RunForReturns, MutualExclusion, HeaderOK, TypeOK, Phases
  <2> QED
    BY <2>2, <2>3, <2>4 DEF TInv
<1>8. CASE DeviceEmits
  <2>1. dev' \in Bytes
    BY <1>0, <1>8, AdvanceType DEF DeviceEmits, TypeOK
  <2>2. LineOK'
    <3>1. dev' = Advance(dev) /\ dev.frame <= Len(reqs) /\ rd' = rd /\ reqs' = reqs
      BY <1>8 DEF DeviceEmits
    <3>2. /\ OnFrame(dev') \/ dev' = Cursor(Len(reqs) + 1, 0)
          /\ OnFrame(rd) /\ Before(rd, dev')
      BY <1>0, <3>1, AdvanceOrder
    <3> QED
      BY <3>1, <3>2 DEF LineOK, OnFrame, Before
  <2>3. TypeOK' /\ BufOK' /\ MutualExclusion' /\ HeaderOK'
    BY <1>0, <1>8, <2>1 DEF DeviceEmits, TypeOK, BufOK, OldBytes, MutualExclusion, HeaderOK
  <2> QED
    BY <2>2, <2>3 DEF TInv
<1>9. CASE TakeByte
  <2>1. rd # dev /\ ops # <<>> /\ lock # None /\ rd' = Advance(rd)
    BY <1>9 DEF TakeByte, Reading
  <2>2. rd \in OldBytes /\ rd' \in Bytes
    BY <1>0, <2>1, AdvanceType, AdvanceOrder DEF TypeOK, OldBytes, OnFrame
  <2>3. LineOK'
    <3>1. dev' = dev /\ reqs' = reqs
      BY <1>9 DEF TakeByte
    <3>2. rd' = dev \/ (OnFrame(rd') /\ Before(rd', dev))
      BY <1>0, <2>1, AdvanceOrder
    <3> QED
      BY <1>0, <3>1, <3>2 DEF LineOK, OnFrame, Before
  <2>4. PICK b \in Targets(Head(ops)) :
            buf' = IF b \in Phases /\ Head(ops).at \in DOMAIN buf[b]
                   THEN [buf EXCEPT ![b][Head(ops).at] = rd] ELSE buf
    BY <1>9 DEF TakeByte
  <2>5. BufOK' /\ HeaderOK' /\ DOMAIN buf' = Phases
    <3>1. OldBytes' = OldBytes /\ pc' = pc
      BY <1>9 DEF TakeByte, OldBytes
    <3>2. CASE buf' = buf
      BY <1>0, <3>1, <3>2 DEF BufOK, HeaderOK, TypeOK
    <3>3. ASSUME b \in Phases, Head(ops).at \in DOMAIN buf[b],
                 buf' = [buf EXCEPT ![b][Head(ops).at] = rd]
          PROVE  BufOK' /\ HeaderOK' /\ DOMAIN buf' = Phases
      <4> DEFINE new == [buf[b] EXCEPT ![Head(ops).at] = rd]
      <4>1. buf' = [c \in Phases |-> IF c = b THEN new ELSE buf[c]]
        BY <1>0, <3>3 DEF BufOK
      <4>2. PICK n \in Nat : buf[b] \in [0 .. n - 1 -> OldBytes]
        BY <1>0, <3>3 DEF BufOK
      <4>3. new \in [0 .. n - 1 -> OldBytes] /\ DOMAIN new = DOMAIN buf[b]
        BY <2>2, <4>2
      <4> HIDE DEF new
      <4>4. BufOK'
        BY <1>0, <3>1, <4>1, <4>2, <4>3 DEF BufOK
      <4> QED
        BY <1>0, <3>1, <4>1, <4>3, <4>4 DEF HeaderOK, Phases
    <3> QED
      BY <2>4, <3>2, <3>3
  <2>6. ops' \in Seq(OpSet) /\ stopped' \in BOOLEAN /\ ec' \in BOOLEAN
    <3> DEFINE op == Head(ops)
               next == [op EXCEPT !.at = @ + 1]
    <3>1. ops \in Seq(OpSet) /\ op \in OpSet /\ Tail(ops) \in Seq(OpSet)
      BY <1>0, <2>1 DEF TypeOK
    <3>2. next \in OpSet
      BY <3>1, SMTT(30) DEF OpSet
    <3>3. Append(Tail(ops), next) \in Seq(OpSet) /\ <<next>> \o Tail(ops) \in Seq(OpSet)
      BY <3>1, <3>2
    <3>4. CASE next.at = op.need
      BY <1>0, <1>9, <3>1, <3>4 DEF TakeByte, HandlerStores, TypeOK
    <3>5. CASE next.at # op.need
      <4>1. ops' \in {Append(Tail(ops), next), <<next>> \o Tail(ops)}
        BY <1>9, <3>5 DEF TakeByte
      <4>2. UNCHANGED <<stopped, ec>>
        BY <1>9, <3>5 DEF TakeByte
      <4> QED
        BY <1>0, <3>3, <4>1, <4>2 DEF TypeOK
    <3> QED
      BY <3>4, <3>5
  <2>7. TypeOK' /\ MutualExclusion'
    BY <1>0, <1>9, <2>2, <2>5, <2>6 DEF TakeByte, TypeOK, MutualExclusion
  <2> QED
    BY <2>3, <2>5, <2>7 DEF TInv
<1>10. CASE PortError
  <2>1. ops' \in Seq(OpSet)
    <3>1. ops \in Seq(OpSet) /\ ops # <<>> /\ ops' = Tail(ops)
      BY <1>0, <1>10 DEF PortError, Reading, TypeOK
    <3> QED
      BY <3>1
  <2>2. stopped' \in BOOLEAN /\ ec' \in BOOLEAN
    BY <1>0, <1>10 DEF PortError, HandlerStores, TypeOK
  <2> QED
    BY <1>0, <1>10, <2>1, <2>2
    DEF PortError, TInv, TypeOK, LineOK, OnFrame, Before, BufOK, OldBytes, MutualExclusion, HeaderOK
<1>11. CASE UNCHANGED vars
  BY <1>0, <1>11
  DEF vars, TInv, TypeOK, LineOK, OnFrame, Before, BufOK, OldBytes, MutualExclusion, HeaderOK
<1> QED
  BY <1>2, <1>3, <1>4, <1>5, <1>6, <1>7, <1>8, <1>9, <1>10, <1>11 DEF Next, Read

\* The type invariant holds: in particular readFrame never sizes a vector from
\* anything but a length the device sent, a zero, or a stray byte.
THEOREM TypeCorrect == Spec => []TypeOK
<1>1. TInv => TypeOK
  BY DEF TInv
<1> QED
  BY <1>1, TInvInit, TInvStep, PTL DEF Spec

\* At most one thread is inside readFrame, and it is the holder of serialMutex,
\* for every number of threads and whatever the line does.
THEOREM OneReader == Spec => []MutualExclusion
<1>1. TInv => MutualExclusion
  BY DEF TInv
<1> QED
  BY <1>1, TInvInit, TInvStep, PTL DEF Spec

-----------------------------------------------------------------------------
(* A byte is taken from the line once, and a vector is made anew for every *)
(* read, so that no reply can be put together twice.                       *)

\* What was returned is older than the line; the header being read, if it is not
\* zeros any more, is younger than what was returned.
Returned == {k \in 1 .. Len(returned) : returned[k].frame # 0}
OnceInv ==
    /\ \A b \in Phases : \A i \in DOMAIN buf[b] : buf[b][i].frame # 0 => Before(buf[b][i], rd)
    /\ \A k \in Returned : returned[k].frame < rd.frame
    /\ (\E t \in Threads : pc[t] \in Phases) /\ buf["header"][0].frame # 0
         => \A k \in Returned : returned[k].frame < buf["header"][0].frame
    /\ NoDuplicateReply

\* The line goes forward, and what was before it stays before it.
LEMMA AdvanceForward ==
    ASSUME TypeOK
    PROVE  /\ Before(rd, Advance(rd)) /\ rd.frame <= Advance(rd).frame
           /\ \A c \in Bytes : Before(c, rd) => Before(c, Advance(rd))
<1>1. rd.frame \in Nat /\ rd.pos \in Nat
  BY DEF TypeOK, Bytes
<1>2. \A c \in Bytes : c.frame \in Nat /\ c.pos \in Nat
  BY DEF Bytes
<1>3. Advance(rd) \in {Cursor(rd.frame, rd.pos + 1), Cursor(rd.frame + 1, 0)}
  BY DEF Advance
<1> QED
  BY <1>1, <1>2, <1>3 DEF Before, Cursor

\* A frame that was put together whole is older than the line.
LEMMA WholeIsOld ==
    ASSUME TInv, OnceInv, NEW t \in Threads, pc[t] \in Phases,
           Assembled(buf["header"], buf["body"]) # 0
    PROVE  /\ Assembled(buf["header"], buf["body"]) = buf["header"][0].frame
           /\ buf["header"][0].frame \in Nat \ {0}
           /\ buf["header"][0].frame < rd.frame
<1> DEFINE f == buf["header"][0].frame
<1>1. /\ f > 0 /\ Assembled(buf["header"], buf["body"]) = f
      /\ buf["body"] = [i \in 0 .. reqs[f] |-> Cursor(f, i + 2)]
  BY DEF Assembled
<1>2. buf["header"][0] \in OldBytes
  BY DEF TInv, BufOK, HeaderOK, Phases
<1>3. f \in 1 .. Len(reqs) /\ reqs[f] \in Nat
  BY <1>1, <1>2, ReqsNat DEF OldBytes, Bytes, TInv
<1> HIDE DEF f
<1>4. Before(Cursor(f, reqs[f] + 2), rd)
  <2>1. reqs[f] \in DOMAIN buf["body"] /\ buf["body"][reqs[f]] = Cursor(f, reqs[f] + 2)
    BY <1>1, <1>3
  <2>2. Cursor(f, reqs[f] + 2).frame # 0
    BY <1>3 DEF Cursor
  <2> QED
    BY <2>1, <2>2 DEF OnceInv, Phases
<1>5. OnFrame(rd) \/ rd = Cursor(Len(reqs) + 1, 0)
  BY DEF TInv, LineOK
<1>6. rd.frame \in Nat /\ rd.pos \in Nat /\ Len(reqs) \in Nat
  BY ReqsNat DEF TInv, TypeOK, Bytes
<1>7. f < rd.frame
  BY <1>3, <1>4, <1>5, <1>6 DEF Before, OnFrame, Cursor
<1> QED
  BY <1>1, <1>3, <1>7 DEF f

\* Every step keeps replies from being put together twice.
LEMMA OnceStep == TInv /\ OnceInv /\ [Next]_vars => OnceInv'
<1> SUFFICES ASSUME TInv, OnceInv, [Next]_vars PROVE OnceInv'
  OBVIOUS
<1>0. /\ TypeOK /\ MutualExclusion /\ BufOK /\ HeaderOK
      /\ returned \in Seq(Frames) /\ Len(returned) \in Nat
      /\ \A k \in 1 .. Len(returned) : returned[k].frame \in Nat
      /\ rd.frame \in Nat
  <2>1. TypeOK /\ MutualExclusion /\ BufOK /\ HeaderOK
    BY DEF TInv
  <2>2. returned \in Seq(Frames) /\ rd \in Bytes
    BY <2>1 DEF TypeOK
  <2>3. Len(returned) \in Nat /\ \A k \in 1 .. Len(returned) : returned[k] \in Frames
    BY <2>2
  <2> QED
    BY <2>1, <2>2, <2>3 DEF Frames, Bytes
<1>1. ASSUME UNCHANGED <<buf, rd, returned>>,
             \A t \in Threads : pc'[t] \in Phases => pc[t] \in Phases
      PROVE  OnceInv'
  BY <1>1 DEF OnceInv, Before, NoDuplicateReply, Returned
<1>2. ASSUME NEW t \in Threads, SendFrame(t) \/ SendThrows(t) \/ ReadThrows(t) PROVE OnceInv'
  BY <1>0, <1>1, <1>2 DEF SendFrame, SendThrows, ReadThrows, TypeOK, Phases
<1>3. CASE DeviceEmits \/ PortError \/ UNCHANGED vars
  BY <1>0, <1>1, <1>3 DEF DeviceEmits, PortError, vars
<1>4. ASSUME NEW t \in Threads, BeginRead(t) PROVE OnceInv'
  <2>1. /\ buf' = [b \in Phases |-> IF b = "header" THEN Zeros(2) ELSE buf[b]]
        /\ UNCHANGED <<rd, returned>>
    BY <1>0, <1>4 DEF BeginRead, Fresh, BufOK, Phases
  <2>2. \A i \in DOMAIN Zeros(2) : Zeros(2)[i].frame = 0
    BY DEF Zeros, ZeroByte, Cursor
  <2>3. buf'["header"][0].frame = 0
    BY <2>1 DEF Zeros, ZeroByte, Cursor, Phases
  <2> QED
    BY <2>1, <2>2, <2>3 DEF OnceInv, Before, NoDuplicateReply, Returned
<1>5. ASSUME NEW t \in Threads, HeaderDone(t) PROVE OnceInv'
  <2>1. pc[t] \in Phases /\ UNCHANGED <<rd, returned>>
    BY <1>5 DEF HeaderDone, Phases
  <2>2. PICK n : buf' = [b \in Phases |-> IF b = "body" THEN Zeros(n + 1) ELSE buf[b]]
    BY <1>0, <1>5 DEF HeaderDone, Fresh, BufOK, Phases
  <2>3. \A i \in DOMAIN Zeros(n + 1) : Zeros(n + 1)[i].frame = 0
    BY DEF Zeros, ZeroByte, Cursor
  <2>4. buf'["header"] = buf["header"]
    BY <2>2 DEF Phases
  <2> QED
    BY <2>1, <2>2, <2>3, <2>4 DEF OnceInv, Before, NoDuplicateReply, Returned
<1>6. ASSUME NEW t \in Threads, BodyDone(t) PROVE OnceInv'
  <2> DEFINE f == Assembled(buf["header"], buf["body"])
  <2>1. /\ UNCHANGED <<rd, buf>> /\ pc[t] \in Phases /\ lock = t
        /\ returned' = Append(returned, [to |-> t, asked |-> asked[t], frame |-> f])
    BY <1>6 DEF BodyDone, RunForReturns, Phases
  <2>2. f # 0 => f \in Nat /\ f < rd.frame /\ \A k \in Returned : returned[k].frame < f
    BY <2>1, WholeIsOld DEF OnceInv
  <2>3. \A u \in Threads : pc'[u] \notin Phases
    BY <1>0, <1>6, <2>1 DEF BodyDone, MutualExclusion, TypeOK, Phases
  <2> HIDE DEF f
  <2>4. /\ Len(returned') = Len(returned) + 1 /\ returned'[Len(returned) + 1].frame = f
        /\ \A k \in 1 .. Len(returned) : returned'[k] = returned[k]
    BY <1>0, <2>1
  <2>5. \A k \in Returned' : k \in Returned \/ (k = Len(returned) + 1 /\ f # 0)
    BY <1>0, <2>4 DEF Returned
  <2>6. \A k \in Returned' : returned'[k].frame < rd.frame
    BY <2>2, <2>4, <2>5 DEF OnceInv, Returned
  <2>7. NoDuplicateReply'
    <3> SUFFICES ASSUME NEW j \in 1 .. Len(returned) + 1, NEW k \in 1 .. Len(returned) + 1, j < k,
                        returned'[j].frame # 0, returned'[k].frame # 0
                 PROVE  returned'[j].frame < returned'[k].frame
      BY <2>4 DEF NoDuplicateReply
    <3>1. j \in 1 .. Len(returned)
      BY <1>0
    <3>2. CASE k \in 1 .. Len(returned)
      BY <2>4, <3>1, <3>2 DEF OnceInv, NoDuplicateReply
    <3>3. CASE k = Len(returned) + 1
      BY <2>2, <2>4, <3>1, <3>3 DEF Returned
    <3> QED
      BY <1>0, <3>2, <3>3
  <2> QED
    BY <2>1, <2>3, <2>6, <2>7 DEF OnceInv, Before
<1>7. CASE TakeByte
  <2>1. /\ rd # dev /\ rd' = Advance(rd) /\ UNCHANGED <<pc, returned>>
    BY <1>7 DEF TakeByte
  <2>2. /\ rd \in Bytes /\ Before(rd, rd') /\ rd.frame <= rd'.frame /\ rd'.frame \in Nat
        /\ \A c \in Bytes : Before(c, rd) => Before(c, rd')
    <3>1. Advance(rd) \in Bytes
      BY <1>0, AdvanceType DEF TypeOK
    <3> QED
      BY <1>0, <2>1, <3>1, AdvanceForward DEF TypeOK, Bytes
  <2>3. PICK b \in Targets(Head(ops)) :
            buf' = IF b \in Phases /\ Head(ops).at \in DOMAIN buf[b]
                   THEN [buf EXCEPT ![b][Head(ops).at] = rd] ELSE buf
    BY <1>7 DEF TakeByte
  <2>4. \A c \in Phases : \A i \in DOMAIN buf'[c] :
            i \in DOMAIN buf[c] /\ (buf'[c][i] = buf[c][i] \/ buf'[c][i] = rd)
    BY <1>0, <2>3 DEF BufOK
  <2>5. \A c \in Phases : \A i \in DOMAIN buf[c] : buf[c][i] \in Bytes
    BY <1>0 DEF BufOK, OldBytes
  <2>6. \A k \in Returned : returned[k].frame < rd'.frame
    BY <1>0, <2>2 DEF OnceInv, Returned
  <2>7. \A c \in Phases : \A i \in DOMAIN buf'[c] :
            buf'[c][i].frame # 0 => Before(buf'[c][i], rd')
    BY <2>2, <2>4, <2>5 DEF OnceInv
  <2>8. (\E t \in Threads : pc[t] \in Phases)
            => buf'["header"][0] \in {buf["header"][0], rd}
    <3>1. (\E t \in Threads : pc[t] \in Phases) => 0 \in DOMAIN buf["header"]
      BY <1>0 DEF HeaderOK
    <3> QED
      BY <1>0, <2>3, <3>1 DEF BufOK, Phases
  <2>9. (\E t \in Threads : pc[t] \in Phases) /\ buf'["header"][0].frame # 0
            => \A k \in Returned : returned[k].frame < buf'["header"][0].frame
    BY <2>8 DEF OnceInv
  <2> QED
    BY <2>1, <2>6, <2>7, <2>9 DEF OnceInv, NoDuplicateReply, Returned
<1> QED
  BY <1>2, <1>3, <1>4, <1>5, <1>6, <1>7 DEF Next, Read

\* Whatever outlives its call and wherever it stores, no reply is returned twice,
\* and replies are not reordered (SerialConnection.cpp:63-111).
THEOREM NoReplyTwice == Spec => []NoDuplicateReply
<1>1. Init => OnceInv
  BY DEF Init, OnceInv, NoDuplicateReply, Returned, Zeros
<1>2. OnceInv => NoDuplicateReply
  BY DEF OnceInv
<1> QED
  BY <1>1, <1>2, OnceStep, TInvInit, TInvStep, PTL DEF Spec

-----------------------------------------------------------------------------
(* Calm: no deadline is reached and the port does not fail.  Then at most  *)
(* one read is outstanding, it belongs to the call that holds the mutex,   *)
(* and the line is consumed frame by frame.                                *)

Current == Len(returned) + 1   \* the frame being read, or to be read next

\* The read of need bytes from position off of the current frame into buf[b]:
\* in progress with m bytes taken, or complete with the line at end.
InProgress(b, off, need) == \E m \in 0 .. need - 1 :
    /\ ops = <<[buf |-> b, need |-> need, at |-> m]>> /\ ~stopped
    /\ rd = Cursor(Current, off + m)
    /\ \A i \in 0 .. m - 1 : buf[b][i] = Cursor(Current, off + i)

Complete(b, off, need, end) ==
    /\ ops = <<>> /\ stopped
    /\ rd = end
    /\ \A i \in 0 .. need - 1 : buf[b][i] = Cursor(Current, off + i)

HeaderRead == \A i \in 0 .. 1 : buf["header"][i] = Cursor(Current, i)

CalmInv ==
    /\ ~ec
    /\ FramesWhole
    /\ lock = None => ops = <<>> /\ ~stopped /\ rd = Cursor(Current, 0)
    /\ \A t \in Threads : pc[t] = "header" =>
         InProgress("header", 0, 2) \/ Complete("header", 0, 2, Cursor(Current, 2))
    /\ \A t \in Threads : pc[t] = "body" =>
         /\ Current <= Len(reqs)
         /\ HeaderRead
         /\ DOMAIN buf["body"] = 0 .. reqs[Current]
         /\ \/ InProgress("body", 2, reqs[Current] + 1)
            \/ Complete("body", 2, reqs[Current] + 1, Cursor(Current + 1, 0))

\* Nobody reads at first.
LEMMA CalmInit == Init => CalmInv
BY DEF Init, CalmInv, FramesWhole, Current, Cursor

\* With one outstanding operation, one more byte extends the read in progress
\* or completes it.
LEMMA TakeProgress ==
    ASSUME TInv, TakeByte, NEW b \in Phases, pc[lock] = b,
           NEW off \in Nat, NEW need \in Nat \ {0},
           DOMAIN buf[b] = 0 .. need - 1,
           NEW m \in 0 .. need - 1,
           ops = <<[buf |-> b, need |-> need, at |-> m]>>, ~stopped,
           rd = Cursor(Current, off + m),
           \A i \in 0 .. m - 1 : buf[b][i] = Cursor(Current, off + i)
    PROVE  /\ ~ec => ~ec'
           /\ \A c \in Phases : DOMAIN buf'[c] = DOMAIN buf[c] /\ (c # b => buf'[c] = buf[c])
           /\ \A i \in 0 .. m : buf'[b][i] = Cursor(Current, off + i)
           /\ IF m + 1 = need
              THEN ops' = <<>> /\ stopped'
              ELSE ops' = <<[buf |-> b, need |-> need, at |-> m + 1]>> /\ ~stopped'
<1> DEFINE op == [buf |-> b, need |-> need, at |-> m]
           next == [op EXCEPT !.at = @ + 1]
<1>1. Head(ops) = op /\ Tail(ops) = <<>>
  OBVIOUS
<1>2. /\ next = [buf |-> b, need |-> need, at |-> m + 1]
      /\ Append(<<>>, next) = <<next>> /\ <<next>> \o <<>> = <<next>>
  OBVIOUS
<1>3. Targets(op) = {b}
  BY DEF Targets, Phases
<1>4. buf' = [buf EXCEPT ![b][m] = rd]
  <2>1. PICK c \in Targets(Head(ops)) :
            buf' = IF c \in Phases /\ Head(ops).at \in DOMAIN buf[c]
                   THEN [buf EXCEPT ![c][Head(ops).at] = rd] ELSE buf
    BY DEF TakeByte
  <2>2. c = b /\ Head(ops).at = m
    BY <1>1, <1>3, <2>1
  <2> QED
    BY <2>1, <2>2
<1>5. buf = [c \in Phases |-> buf[c]] /\ \A c \in Phases : \E n \in Nat : buf[c] \in [0 .. n - 1 -> OldBytes]
  BY DEF TInv, BufOK
<1>6. buf'[b] = [buf[b] EXCEPT ![m] = rd] /\ \A c \in Phases \ {b} : buf'[c] = buf[c]
  BY <1>4, <1>5
<1>7. \A i \in 0 .. m : buf'[b][i] = Cursor(Current, off + i)
  BY <1>5, <1>6
<1>8. CASE m + 1 = need
  <2>1. [Head(ops) EXCEPT !.at = @ + 1].at = Head(ops).need /\ Head(ops).buf = b
    BY <1>1, <1>2, <1>8
  <2>2. ops' = Tail(ops) /\ stopped' = (stopped \/ ops' = <<>>) /\ HandlerStores(Head(ops), FALSE)
    BY <2>1 DEF TakeByte
  <2>3. ops' = <<>> /\ stopped' /\ ec' = FALSE
    BY <1>1, <2>1, <2>2 DEF HandlerStores
  <2> QED
    BY <1>6, <1>7, <1>8, <2>3
<1>9. CASE m + 1 # need
  <2>1. ops' = <<next>> /\ stopped' = stopped /\ ec' = ec
    BY <1>1, <1>2, <1>9 DEF TakeByte
  <2> QED
    BY <1>2, <1>6, <1>7, <1>9, <2>1
<1> QED
  BY <1>8, <1>9

\* Every step of a calm line keeps the account of its bytes.
LEMMA CalmStep ==
    ASSUME ~Slow, ~Faulty, TInv, TInv', CalmInv, [Next]_vars
    PROVE  CalmInv'
<1>0. /\ TypeOK /\ LineOK /\ BufOK /\ MutualExclusion /\ HeaderOK
      /\ Current \in Nat \ {0} /\ Len(reqs) \in Nat
      /\ \A f \in 1 .. Len(reqs) : reqs[f] \in Nat
  BY ReqsNat DEF TInv, TypeOK, Current
<1>1. ASSUME NEW t \in Threads, SendFrame(t) PROVE CalmInv'
  <2>1. PICK n \in PayloadLens : reqs' = Append(reqs, n)
    BY <1>1 DEF Wire, SendFrame
  <2>2. Len(reqs') = Len(reqs) + 1 /\ \A f \in 1 .. Len(reqs) : reqs'[f] = reqs[f]
    BY <1>0, <2>1 DEF TypeOK
  <2>3. \A u \in Threads : pc[u] \in Phases <=> pc'[u] \in Phases
    BY <1>0, <1>1 DEF SendFrame, TypeOK, Phases
  <2>4. \A u \in Threads : pc'[u] \notin Phases
    BY <1>0, <1>1, <2>3, ThreadsAssumption DEF SendFrame, MutualExclusion
  <2> QED
    BY <1>0, <1>1, <2>4 DEF SendFrame, CalmInv, FramesWhole, Current, Phases
<1>2. ASSUME NEW t \in Threads, BeginRead(t) PROVE CalmInv'
  <2>1. ops = <<>> /\ ~stopped /\ rd = Cursor(Current, 0)
    BY <1>2 DEF Acquire, BeginRead, CalmInv
  <2>2. ops' = <<[buf |-> "header", need |-> 2, at |-> 0]>> /\ ~stopped' /\ rd' = Cursor(Current, 0 + 0)
    BY <1>2, <2>1 DEF BeginRead, Op
  <2>3. InProgress("header", 0, 2)'
    <3>1. Current' = Current /\ 0 \in 0 .. 2 - 1 /\ 0 .. 0 - 1 = {}
      BY <1>2 DEF BeginRead, Current
    <3> QED
      BY <2>2, <3>1 DEF InProgress
  <2>4. \A u \in Threads : pc'[u] \in Phases => u = t /\ pc'[u] = "header"
    BY <1>0, <1>2, ThreadsAssumption DEF Acquire, BeginRead, MutualExclusion, TypeOK, Phases
  <2>5. lock' # None /\ ~ec' /\ FramesWhole'
    BY <1>2, ThreadsAssumption DEF Acquire, BeginRead, CalmInv, FramesWhole
  <2> QED
    BY <2>3, <2>4, <2>5 DEF CalmInv, Phases
<1>3. ASSUME NEW t \in Threads, HeaderDone(t) PROVE CalmInv'
  <2>0. lock = t /\ pc[t] = "header" /\ stopped
    BY <1>3 DEF HeaderDone, RunForReturns
  <2>1. Complete("header", 0, 2, Cursor(Current, 2))
    BY <2>0 DEF CalmInv, InProgress
  <2>2. HeaderRead /\ ops = <<>> /\ rd = Cursor(Current, 2)
    <3>1. \A i \in 0 .. 1 : 0 + i = i /\ 0 .. 2 - 1 = 0 .. 1
      OBVIOUS
    <3> QED
      BY <2>1, <3>1 DEF Complete, HeaderRead
  <2>3. Current <= Len(reqs) /\ LengthsOf(buf["header"][1]) = {reqs[Current]}
    <3>1. buf["header"][1] = Cursor(Current, 1)
      BY <2>2 DEF HeaderRead
    <3>2. buf["header"][1] \in OldBytes
      BY <1>0, <2>0, SMTT(30) DEF BufOK, HeaderOK, Phases
    <3> QED
      BY <1>0, <3>1, <3>2 DEF Cursor, OldBytes, LengthsOf
  <2> DEFINE n == reqs[Current]
  <2>4. n \in Nat
    BY <1>0, <2>3
  <2>5. buf' = [buf EXCEPT !["body"] = Zeros(n + 1)] /\ ops' = Append(ops, Op("body", n + 1))
    BY <1>3, <2>3 DEF Fresh, HeaderDone
  <2>6. ops' = <<[buf |-> "body", need |-> n + 1, at |-> 0]>> /\ ~stopped'
    BY <1>3, <2>2, <2>5 DEF IoReset, HeaderDone, Op
  <2>7. buf'["header"] = buf["header"] /\ DOMAIN buf'["body"] = 0 .. n
    <3>1. buf = [b \in Phases |-> buf[b]]
      BY <1>0 DEF BufOK
    <3>2. buf'["body"] = Zeros(n + 1) /\ buf'["header"] = buf["header"]
      BY <2>5, <3>1 DEF Phases
    <3> QED
      BY <2>4, <3>2 DEF Zeros
  <2>8. /\ Current' = Current /\ reqs' = reqs /\ rd' = rd /\ lock' = t /\ ec' = ec /\ returned' = returned
        /\ \A u \in Threads : pc'[u] \in Phases => u = t /\ pc'[u] = "body"
    BY <1>0, <1>3, <2>0 DEF HeaderDone, Current, MutualExclusion, TypeOK, Phases
  <2>9. InProgress("body", 2, n + 1)'
    <3>1. 0 \in 0 .. (n + 1) - 1 /\ 0 .. 0 - 1 = {} /\ 2 + 0 = 2
      BY <2>4
    <3> QED
      BY <2>2, <2>6, <2>8, <3>1 DEF InProgress
  <2>10. HeaderRead' /\ ~ec' /\ FramesWhole' /\ lock' # None
    BY <2>2, <2>7, <2>8, ThreadsAssumption DEF HeaderRead, CalmInv, FramesWhole
  <2> QED
    BY <2>3, <2>7, <2>8, <2>9, <2>10 DEF CalmInv, Phases
<1>4. ASSUME NEW t \in Threads, BodyDone(t) PROVE CalmInv'
  <2>0. lock = t /\ pc[t] = "body" /\ stopped
    BY <1>4 DEF BodyDone, RunForReturns
  <2> DEFINE n == reqs[Current]
  <2>1. /\ Current <= Len(reqs) /\ HeaderRead /\ DOMAIN buf["body"] = 0 .. n
        /\ Complete("body", 2, n + 1, Cursor(Current + 1, 0))
    BY <2>0 DEF CalmInv, InProgress
  <2>2. Assembled(buf["header"], buf["body"]) = Current
    <3>1. n \in Nat
      BY <1>0, <2>1
    <3>2. \A i \in 0 .. n : buf["body"][i] = Cursor(Current, i + 2)
      <4>1. \A i \in 0 .. n : i \in 0 .. (n + 1) - 1 /\ 2 + i = i + 2
        BY <3>1
      <4> QED
        BY <2>1, <4>1 DEF Complete
    <3>3. buf["body"] = [i \in 0 .. n |-> Cursor(Current, i + 2)]
      <4>1. buf["body"] = [i \in DOMAIN buf["body"] |-> buf["body"][i]]
        BY <1>0 DEF BufOK, Phases
      <4> QED
        BY <2>1, <3>2, <4>1
    <3>4. buf["header"][0].frame = Current /\ \A i \in 0 .. 1 : buf["header"][i] = Cursor(Current, i)
      BY <2>1 DEF HeaderRead, Cursor
    <3> QED
      BY <1>0, <3>3, <3>4 DEF Assembled
  <2>3. returned' = Append(returned, [to |-> t, asked |-> asked[t], frame |-> Current])
    BY <1>4, <2>2 DEF BodyDone
  <2>4. FramesWhole' /\ Current' = Current + 1
    <3>1. returned \in Seq(Frames)
      BY <1>0 DEF TypeOK
    <3>2. /\ Len(returned') = Len(returned) + 1 /\ Len(returned) \in Nat
          /\ \A k \in 1 .. Len(returned) : returned'[k] = returned[k]
          /\ returned'[Len(returned) + 1].frame = Len(returned) + 1
      BY <2>3, <3>1 DEF Current
    <3> QED
      BY <3>2 DEF CalmInv, FramesWhole, Current
  <2>5. ops' = <<>> /\ ~stopped' /\ rd' = Cursor(Current', 0) /\ ~ec'
    <3>1. ops = <<>> /\ rd = Cursor(Current + 1, 0)
      BY <2>1 DEF Complete
    <3>2. Dangling(ops) = <<>>
      BY <3>1 DEF Dangling
    <3> QED
      BY <1>4, <2>4, <3>1, <3>2 DEF IoReset, BodyDone, CalmInv
  <2>6. \A u \in Threads : pc'[u] \notin Phases
    BY <1>0, <1>4, <2>0 DEF BodyDone, MutualExclusion, TypeOK, Phases
  <2> QED
    BY <2>4, <2>5, <2>6 DEF CalmInv, Phases
<1>5. ASSUME NEW t \in Threads, ReadThrows(t) PROVE CalmInv'
  BY <1>5 DEF ReadThrows, CalmInv
<1>6. ASSUME NEW t \in Threads, SendThrows(t) PROVE CalmInv'
  BY <1>6 DEF SendThrows
<1>7. CASE DeviceEmits
  BY <1>7 DEF DeviceEmits, CalmInv, FramesWhole, Current, HeaderRead, InProgress, Complete
<1>8. CASE TakeByte
  <2>1. PICK t \in Threads : lock = t /\ pc[t] \in Phases
    BY <1>0, <1>8 DEF TakeByte, Reading, TypeOK, MutualExclusion
  <2>2. /\ UNCHANGED <<lock, pc, reqs, returned>> /\ Current' = Current /\ ops # <<>>
        /\ rd # dev /\ rd' = Advance(rd)
        /\ \A u \in Threads : pc[u] \in Phases => u = t
    BY <1>0, <1>8, <2>1 DEF TakeByte, Reading, Current, MutualExclusion
  <2>3. /\ FramesWhole' /\ lock' # None
        /\ \A u \in Threads : pc'[u] \in {"header", "body"} => u = t
    BY <2>1, <2>2, ThreadsAssumption DEF CalmInv, FramesWhole, Phases
  <2>4. rd.frame <= Len(reqs)
    BY <1>0, <2>2, AdvanceOrder
  <2>5. CASE pc[t] = "header"
    <3>1. PICK m \in 0 .. 1 :
            /\ ops = <<[buf |-> "header", need |-> 2, at |-> m]>> /\ ~stopped
            /\ rd = Cursor(Current, 0 + m)
            /\ \A i \in 0 .. m - 1 : buf["header"][i] = Cursor(Current, 0 + i)
      <4>1. InProgress("header", 0, 2) /\ 0 .. 2 - 1 = 0 .. 1
        BY <2>2, <2>5 DEF CalmInv, Complete
      <4> QED
        BY <4>1 DEF InProgress
    <3> DEFINE need == 2
               off == 0
    <3>2. DOMAIN buf["header"] = 0 .. need - 1
      BY <1>0, <2>1 DEF HeaderOK
    <3>k. need \in Nat \ {0} /\ off \in Nat /\ m \in 0 .. need - 1 /\ "header" \in Phases
          /\ ops = <<[buf |-> "header", need |-> need, at |-> m]>> /\ ~stopped
          /\ rd = Cursor(Current, off + m)
          /\ \A i \in 0 .. m - 1 : buf["header"][i] = Cursor(Current, off + i)
      BY <3>1 DEF Phases
    <3> HIDE DEF need, off
    <3>3. /\ ~ec => ~ec'
          /\ \A i \in 0 .. m : buf'["header"][i] = Cursor(Current, 0 + i)
          /\ IF m + 1 = need THEN ops' = <<>> /\ stopped'
             ELSE ops' = <<[buf |-> "header", need |-> need, at |-> m + 1]>> /\ ~stopped'
      <4>1. /\ ~ec => ~ec'
            /\ \A c \in Phases : DOMAIN buf'[c] = DOMAIN buf[c] /\ (c # "header" => buf'[c] = buf[c])
            /\ \A i \in 0 .. m : buf'["header"][i] = Cursor(Current, off + i)
            /\ IF m + 1 = need THEN ops' = <<>> /\ stopped'
               ELSE ops' = <<[buf |-> "header", need |-> need, at |-> m + 1]>> /\ ~stopped'
        <5>1. pc[lock] = "header" /\ TInv
          BY <2>1, <2>5
        <5> QED
          BY <1>8, <3>2, <3>k, <5>1, TakeProgress
      <4> QED
        BY <4>1 DEF off
    <3>n. ~ec' /\ pc'[t] = "header"
      BY <2>2, <2>5, <3>3 DEF CalmInv
    <3>4. rd' = Cursor(Current, m + 1)
      BY <1>0, <2>2, <2>4, <3>1 DEF Advance, Cursor
    <3>5. CASE m = 0
      <4>1. InProgress("header", 0, 2)'
        BY <2>2, <3>3, <3>4, <3>5 DEF InProgress, need
      <4> QED
        BY <2>3, <3>n, <4>1 DEF CalmInv
    <3>6. CASE m = 1
      <4>1. Complete("header", 0, 2, Cursor(Current, 2))'
        BY <2>2, <3>3, <3>4, <3>6 DEF Complete, need
      <4> QED
        BY <2>3, <3>n, <4>1 DEF CalmInv
    <3> QED
      BY <3>1, <3>5, <3>6
  <2>6. CASE pc[t] = "body"
    <3> DEFINE need == reqs[Current] + 1
    <3>0. /\ Current <= Len(reqs) /\ HeaderRead /\ DOMAIN buf["body"] = 0 .. reqs[Current]
          /\ InProgress("body", 2, need)
      BY <2>2, <2>6 DEF CalmInv, Complete
    <3>n. reqs[Current] \in Nat /\ need \in Nat \ {0}
      BY <1>0, <3>0
    <3>1. PICK m \in 0 .. need - 1 :
            /\ ops = <<[buf |-> "body", need |-> need, at |-> m]>> /\ ~stopped
            /\ rd = Cursor(Current, 2 + m)
            /\ \A i \in 0 .. m - 1 : buf["body"][i] = Cursor(Current, 2 + i)
      BY <3>0 DEF InProgress
    <3>2. DOMAIN buf["body"] = 0 .. need - 1
      BY <3>0, <3>n
    <3> HIDE DEF need
    <3>3. /\ ~ec => ~ec'
          /\ \A c \in Phases : DOMAIN buf'[c] = DOMAIN buf[c] /\ (c # "body" => buf'[c] = buf[c])
          /\ \A i \in 0 .. m : buf'["body"][i] = Cursor(Current, 2 + i)
          /\ IF m + 1 = need THEN ops' = <<>> /\ stopped'
             ELSE ops' = <<[buf |-> "body", need |-> need, at |-> m + 1]>> /\ ~stopped'
      <4>1. pc[lock] = "body" /\ TInv /\ "body" \in Phases /\ 2 \in Nat
        BY <2>1, <2>6 DEF Phases
      <4> QED
        BY <1>8, <3>n, <3>1, <3>2, <4>1, TakeProgress
    <3>4. buf'["header"] = buf["header"] /\ DOMAIN buf'["body"] = DOMAIN buf["body"]
      BY <3>3 DEF Phases
    <3>e. ~ec' /\ pc'[t] = "body" /\ UNCHANGED reqs /\ Current' = Current
      BY <2>2, <2>6, <3>3 DEF CalmInv
    <3>5. HeaderRead'
      BY <2>2, <3>0, <3>4 DEF HeaderRead
    <3>6. CASE m + 1 # need
      <4>1. rd' = Cursor(Current, 2 + (m + 1))
        BY <2>2, <3>n, <3>1, <3>6 DEF Advance, Cursor, need
      <4>2. m + 1 \in 0 .. need - 1 /\ (m + 1) - 1 = m
        BY <3>n, <3>1, <3>6
      <4>3. InProgress("body", 2, need)'
        BY <2>2, <3>3, <3>6, <4>1, <4>2 DEF InProgress, need
      <4> QED
        BY <2>3, <3>0, <3>e, <3>4, <3>5, <4>3 DEF CalmInv, need
    <3>7. CASE m + 1 = need
      <4>1. rd' = Cursor(Current + 1, 0)
        BY <2>2, <3>n, <3>1, <3>7 DEF Advance, Cursor, need
      <4>2. Complete("body", 2, need, Cursor(Current + 1, 0))'
        <5>1. \A i \in 0 .. need - 1 : i \in 0 .. m
          BY <3>n, <3>1, <3>7
        <5> QED
          BY <2>2, <3>3, <3>7, <4>1, <5>1 DEF Complete, need
      <4> QED
        BY <2>3, <3>0, <3>e, <3>4, <3>5, <4>2 DEF CalmInv, need
    <3> QED
      BY <3>6, <3>7
  <2> QED
    BY <2>1, <2>5, <2>6 DEF Phases
<1>9. CASE PortError
  BY <1>9 DEF PortError
<1>10. CASE UNCHANGED vars
  BY <1>10 DEF vars, CalmInv, FramesWhole, Current, HeaderRead, InProgress, Complete
<1> QED
  BY <1>1, <1>2, <1>3, <1>4, <1>5, <1>6, <1>7, <1>8, <1>9, <1>10 DEF Next, Read

\* If the device always answers before the deadline and the port never fails,
\* then for every number of threads and every interleaving of their sends and
\* reads the k-th frame returned is the device's k-th reply, byte for byte.
THEOREM CalmFramesWhole ==
    ASSUME ~Slow, ~Faulty
    PROVE  Spec => []FramesWhole
<1>1. CalmInv => FramesWhole
  BY DEF CalmInv
<1>2. Init => TInv /\ CalmInv
  BY TInvInit, CalmInit
<1>3. TInv /\ CalmInv /\ [Next]_vars => (TInv /\ CalmInv)'
  BY TInvStep, CalmStep
<1> QED
  BY <1>1, <1>2, <1>3, PTL DEF Spec

\* In the same case every readFrame finds an io_service that will run its read.
THEOREM CalmIoReady ==
    ASSUME ~Slow, ~Faulty
    PROVE  Spec => []IoReady
<1>1. CalmInv => IoReady
  BY DEF CalmInv, IoReady
<1>2. Init => TInv /\ CalmInv
  BY TInvInit, CalmInit
<1>3. TInv /\ CalmInv /\ [Next]_vars => (TInv /\ CalmInv)'
  BY TInvStep, CalmStep
<1> QED
  BY <1>1, <1>2, <1>3, PTL DEF Spec

-----------------------------------------------------------------------------
(* As long as only one thread has sent requests, they and the frames       *)
(* returned stay in step.                                                  *)

InStep(t) ==
    /\ \A k \in 1 .. Len(returned) : returned[k].asked = k
    /\ IF pc[t] = "idle" THEN Len(reqs) = Len(returned)
       ELSE asked[t] = Current /\ Len(reqs) = Current

SoleInv ==
    /\ \A t \in Threads : pc[t] # "idle" => asked[t] # 0
    /\ \A t \in Threads : SoleUser(t) => InStep(t)

\* Every step keeps a sole user's requests and replies in step.
LEMMA SoleStep ==
    ASSUME ~Faulty, TInv, CalmInv, SoleInv, [Next]_vars
    PROVE  SoleInv'
<1>0. TypeOK /\ reqs \in Seq(PayloadLens) /\ returned \in Seq(Frames)
  BY DEF TInv, TypeOK
<1>1. ASSUME NEW t \in Threads, SendFrame(t) PROVE SoleInv'
  <2>1. PICK n \in PayloadLens : reqs' = Append(reqs, n)
    BY <1>1 DEF Wire, SendFrame
  <2>2. /\ Len(reqs') = Len(reqs) + 1 /\ returned' = returned
        /\ asked' = [asked EXCEPT ![t] = Len(reqs')] /\ asked'[t] # 0
        /\ pc[t] = "idle" /\ pc' = [pc EXCEPT ![t] = "sent"]
    BY <1>0, <1>1, <2>1 DEF SendFrame, TypeOK
  <2>3. ASSUME NEW u \in Threads, SoleUser(u)' PROVE InStep(u)'
    <3>1. u = t /\ SoleUser(t)
      BY <1>0, <2>2, <2>3 DEF SoleUser, TypeOK
    <3>2. InStep(t)
      BY <3>1 DEF SoleInv
    <3> QED
      BY <1>0, <2>2, <3>1, <3>2 DEF InStep, Current, TypeOK
  <2>4. ASSUME NEW u \in Threads, pc'[u] # "idle" PROVE asked'[u] # 0
    BY <1>0, <2>2, <2>4 DEF SoleInv, TypeOK
  <2> QED
    BY <2>3, <2>4 DEF SoleInv
<1>2. ASSUME NEW t \in Threads, BeginRead(t) \/ HeaderDone(t) PROVE SoleInv'
  <2>1. /\ UNCHANGED <<asked, reqs, returned>> /\ pc[t] # "idle"
        /\ \E p \in {"header", "body"} : pc' = [pc EXCEPT ![t] = p]
    BY <1>2 DEF BeginRead, HeaderDone
  <2>2. \A u \in Threads : pc'[u] = "idle" <=> pc[u] = "idle"
    BY <1>0, <2>1 DEF TypeOK
  <2> QED
    BY <2>1, <2>2 DEF SoleInv, SoleUser, InStep, Current
<1>3. ASSUME NEW t \in Threads, BodyDone(t) PROVE SoleInv'
  <2>1. /\ pc[t] = "body" /\ pc' = [pc EXCEPT ![t] = "idle"]
        /\ UNCHANGED <<asked, reqs>>
    BY <1>3 DEF BodyDone
  <2>2. PICK f : returned' = Append(returned, [to |-> t, asked |-> asked[t], frame |-> f])
    BY <1>3 DEF BodyDone
  <2>3. ASSUME NEW u \in Threads, SoleUser(u)' PROVE InStep(u)'
    <3>1. u = t
      BY <2>1, <2>3 DEF SoleInv, SoleUser
    <3>2. InStep(t)
      BY <2>1, <2>3, <3>1 DEF SoleInv, SoleUser
    <3>3. asked[t] = Current /\ Len(reqs) = Current
      BY <2>1, <3>2 DEF InStep
    <3>4. /\ Len(returned') = Len(returned) + 1
          /\ \A k \in 1 .. Len(returned) : returned'[k] = returned[k]
          /\ returned'[Len(returned) + 1].asked = Len(returned) + 1
      BY <1>0, <2>2, <3>3 DEF Current
    <3>5. pc'[t] = "idle"
      BY <1>0, <2>1 DEF TypeOK
    <3> QED
      BY <1>0, <2>1, <3>1, <3>2, <3>3, <3>4, <3>5 DEF InStep, Current
  <2>4. ASSUME NEW u \in Threads, pc'[u] # "idle" PROVE asked'[u] # 0
    BY <1>0, <2>1, <2>4 DEF SoleInv, TypeOK
  <2> QED
    BY <2>3, <2>4 DEF SoleInv
<1>4. ASSUME NEW t \in Threads, SendThrows(t) \/ ReadThrows(t) PROVE SoleInv'
  BY <1>4 DEF SendThrows, ReadThrows, CalmInv
<1>5. CASE DeviceEmits \/ TakeByte \/ PortError \/ UNCHANGED vars
  BY <1>5 DEF DeviceEmits, TakeByte, PortError, vars, SoleInv, SoleUser, InStep, Current
<1> QED
  BY <1>1, <1>2, <1>3, <1>4, <1>5 DEF Next, Read

\* As long as a single thread uses the connection, every reply it gets is the
\* reply to the request it has just sent, for any number of requests.
THEOREM CalmSoleUserReplies ==
    ASSUME ~Slow, ~Faulty
    PROVE  Spec => []SoleUserReplies
<1>1. CalmInv /\ SoleInv => SoleUserReplies
  BY DEF CalmInv, SoleInv, InStep, FramesWhole, ReplyIsMine, SoleUserReplies
<1>2. Init => TInv /\ CalmInv /\ SoleInv
  <2>1. Init => SoleInv
    BY DEF Init, SoleInv, InStep
  <2> QED
    BY <2>1, TInvInit, CalmInit
<1>3. TInv /\ CalmInv /\ SoleInv /\ [Next]_vars => (TInv /\ CalmInv /\ SoleInv)'
  BY TInvStep, CalmStep, SoleStep
<1> QED
  BY <1>1, <1>2, <1>3, PTL DEF Spec

-----------------------------------------------------------------------------
(* Refinement. *)

\* The history of frames is a sequence, one longer after an Append.
LEMMA FramesSeq ==
    ASSUME NEW s \in Seq(Frames), NEW s2 \in Seq(Frames)
    PROVE  LET Fr(q) == [k \in 1 .. Len(q) |-> q[k].frame] IN
           /\ Fr(s) \in Seq(Nat) /\ Len(Fr(s)) = Len(s)
           /\ \A r \in Frames : s2 = Append(s, r) => Fr(s2) = Append(Fr(s), r.frame)
<1> DEFINE Fr(q) == [k \in 1 .. Len(q) |-> q[k].frame]
<1>1. \A k \in 1 .. Len(s) : s[k].frame \in Nat
  <2>1. \A k \in 1 .. Len(s) : s[k] \in Frames
    OBVIOUS
  <2> QED
    BY <2>1 DEF Frames
<1>2. Fr(s) \in Seq(Nat) /\ Len(Fr(s)) = Len(s)
  BY <1>1
<1>3. ASSUME NEW r \in Frames, s2 = Append(s, r) PROVE Fr(s2) = Append(Fr(s), r.frame)
  <2>1. Len(s2) = Len(s) + 1 /\ s2[Len(s) + 1] = r /\ \A k \in 1 .. Len(s) : s2[k] = s[k]
    BY <1>3
  <2> QED
    BY <1>2, <2>1
<1> QED
  BY <1>2, <1>3

\* The connection implements the channel, for all threads, bounds and lengths.
THEOREM CalmChannelSteps ==
    ASSUME ~Slow, ~Faulty
    PROVE  Spec => ChannelSteps
<1> DEFINE frames == [k \in 1 .. Len(returned) |-> returned[k].frame]
<1>1. Init => Channel!Init
  BY DEF Init, Channel!Init
<1>2. TInv /\ TInv' /\ CalmInv /\ CalmInv' /\ [Next]_vars => [Channel!Next]_Channel!vars
  <2> SUFFICES ASSUME TInv, TInv', CalmInv, CalmInv', [Next]_vars
               PROVE  [Channel!Next]_Channel!vars
    OBVIOUS
  <2>0. TypeOK /\ returned \in Seq(Frames) /\ returned' \in Seq(Frames)
    BY DEF TInv, TypeOK
  <2>1. ASSUME NEW t \in Threads, SendFrame(t) PROVE Channel!Ask(t)
    <3>1. Len(reqs') = Len(reqs) + 1 /\ returned' = returned /\ Len(reqs) < MaxRequests
      BY <2>0, <2>1 DEF Wire, SendFrame, TypeOK
    <3>2. pc[t] = "idle" /\ pc' = [pc EXCEPT ![t] = "sent"]
      BY <2>1 DEF SendFrame
    <3> QED
      BY <2>0, <3>1, <3>2 DEF Channel!Ask, TypeOK
  <2>2. ASSUME NEW t \in Threads, BodyDone(t) PROVE Channel!Receive(t)
    <3>1. PICK f : returned' = Append(returned, [to |-> t, asked |-> asked[t], frame |-> f])
      BY <2>2 DEF BodyDone
    <3>2. Len(returned') = Current /\ returned'[Current].frame = f /\ f = Current
      <4>1. Len(returned') = Current /\ returned'[Current].frame = f
        BY <2>0, <3>1 DEF Current
      <4>2. FramesWhole' /\ Current \in Nat /\ Current > 0
        BY <2>0 DEF CalmInv, Current
      <4> QED
        BY <4>1, <4>2 DEF FramesWhole
    <3>3. [to |-> t, asked |-> asked[t], frame |-> f] \in Frames
      BY <2>0, <3>2 DEF Frames, TypeOK, Current
    <3>4. frames' = Append(frames, f) /\ Len(frames) = Len(returned)
      BY <2>0, <3>1, <3>3, FramesSeq
    <3>5. Current <= Len(reqs) /\ reqs' = reqs
      BY <2>2 DEF BodyDone, CalmInv
    <3>6. pc[t] = "body" /\ pc' = [pc EXCEPT ![t] = "idle"]
      BY <2>2 DEF BodyDone
    <3>7. Len(frames) < Len(reqs) /\ frames' = Append(frames, Len(frames) + 1)
      <4>1. Len(returned) \in Nat /\ Len(reqs) \in Nat /\ f = Len(returned) + 1
        BY <2>0, <3>2 DEF Current, TypeOK
      <4> HIDE DEF frames
      <4>2. Len(frames) + 1 = f /\ Len(frames) < Len(reqs)
        BY <3>2, <3>4, <3>5, <4>1
      <4> QED
        BY <3>4, <4>2
    <3> QED
      BY <2>0, <3>5, <3>6, <3>7 DEF Channel!Receive, TypeOK
  <2>3. ASSUME NEW t \in Threads, BeginRead(t) \/ HeaderDone(t) PROVE UNCHANGED Channel!vars
    BY <2>0, <2>3 DEF BeginRead, HeaderDone, Channel!vars, TypeOK
  <2>4. ASSUME NEW t \in Threads, SendThrows(t) \/ ReadThrows(t) PROVE FALSE
    BY <2>4 DEF SendThrows, ReadThrows, CalmInv
  <2>5. CASE DeviceEmits \/ TakeByte \/ PortError \/ UNCHANGED vars
    BY <2>5 DEF DeviceEmits, TakeByte, PortError, vars, Channel!vars
  <2> QED
    BY <2>1, <2>2, <2>3, <2>4, <2>5 DEF Next, Read, Channel!Next
<1>3. Init => TInv /\ CalmInv
  BY TInvInit, CalmInit
<1>4. TInv /\ CalmInv /\ [Next]_vars => (TInv /\ CalmInv)'
  BY TInvStep, CalmStep
<1> QED
  BY <1>1, <1>2, <1>3, <1>4, PTL DEF Spec, ChannelSteps
=============================================================================
