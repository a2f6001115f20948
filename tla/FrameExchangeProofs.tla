-------------------------- MODULE FrameExchangeProofs --------------------------
(***************************************************************************)
(* Theorems about one register, written and read by both programs and      *)
(* sampled by the logger, for any values, noise and registers.             *)
(***************************************************************************)
EXTENDS FrameExchange, FrameCodecProofs

-----------------------------------------------------------------------------
(* Frames and numbers. *)

\* The tables of CommandHandler.cpp.
LEMMA Tables ==
    ASSUME NEW r \in RegisterId
    PROVE  RegisterNumber[r] \in Byte /\ registerTypeMap[r] \in RegisterType
<1>1. RegisterNumber[r] \in Byte
  BY DEF RegisterId, RegisterNumber, Byte
<1>2. registerTypeMap[r] \in RegisterType
  BY DEF RegisterId, RegisterNumber, registerTypeMap, RegisterType, Gains
<1> QED
  BY <1>1, <1>2

LEMMA Widths ==
    ASSUME NEW t \in RegisterType
    PROVE  /\ Width(t) \in {1, 2, 4} /\ Width(t) \in Nat
           /\ t = "UInt8" <=> Width(t) = 1
           /\ t \in {"Int16", "UInt16"} <=> Width(t) = 2
           /\ t \in {"Int32", "UInt32"} <=> Width(t) = 4
  BY DEF RegisterType, Width

LEMMA ShortIsByte ==
    ASSUME NEW n \in Nat, n <= 6
    PROVE  n \in Byte
  BY DEF Byte

\* Bytes in front of other bytes.
LEMMA Joined ==
    ASSUME NEW a \in Byte, NEW b \in Byte, NEW s \in Seq(Byte)
    PROVE  /\ <<a, b>> \o s \in Seq(Byte) /\ Len(<<a, b>> \o s) = Len(s) + 2
           /\ (<<a, b>> \o s)[1] = a /\ (<<a, b>> \o s)[2] = b
           /\ \A i \in 1 .. Len(s) : (<<a, b>> \o s)[i + 2] = s[i]
<1> DEFINE h == <<a, b>>
<1>1. h \in Seq(Byte) /\ Len(h) = 2 /\ h[1] = a /\ h[2] = b
  OBVIOUS
<1> HIDE DEF h
<1>2. Len(s) \in Nat
  OBVIOUS
<1>3. /\ h \o s \in Seq(Byte) /\ Len(h \o s) = 2 + Len(s)
      /\ \A i \in 1 .. 2 + Len(s) : (h \o s)[i] = IF i <= 2 THEN h[i] ELSE s[i - 2]
  <2>1. /\ h \o s \in Seq(Byte) /\ Len(h \o s) = Len(h) + Len(s)
        /\ \A i \in 1 .. Len(h) + Len(s) :
             (h \o s)[i] = IF i <= Len(h) THEN h[i] ELSE s[i - Len(h)]
    BY <1>1, ConcatProperties
  <2> QED
    BY <1>1, <2>1
<1>4. (h \o s)[1] = a /\ (h \o s)[2] = b
  BY <1>1, <1>2, <1>3
<1>5. ASSUME NEW i \in 1 .. Len(s) PROVE (h \o s)[i + 2] = s[i]
  BY <1>2, <1>3
<1> QED
  BY <1>2, <1>3, <1>4, <1>5 DEF h

\* A frame of FrameBuilder.
LEMMA FrameIs ==
    ASSUME NEW motorID \in {0, 1}, NEW command \in DOMAIN CommandId,
           NEW s \in Seq(Byte), Len(s) <= 6
    PROVE  LET f == Frame(motorID, command, s)
           IN  /\ f \in Seq(Byte) /\ Len(f) = Len(s) + 3 /\ Intact(f)
               /\ f[1] % 32 = CommandId[command] /\ f[2] = Len(s)
               /\ \A i \in 1 .. Len(s) : f[i + 2] = s[i]
<1> DEFINE a == ((motorID * 32) % 256) + CommandId[command]
           body == <<a, Len(s)>> \o s
<1>1. CommandId[command] \in {1, 2, 3, 7}
  BY DEF CommandId
<1>2. a \in Byte /\ a % 32 = CommandId[command]
  <2> DEFINE c == CommandId[command]
  <2>1. (motorID * 32) % 256 \in {0, 32}
    OBVIOUS
  <2> HIDE DEF c
  <2>2. c \in {1, 2, 3, 7} => (32 + c) % 32 = c /\ (0 + c) % 32 = c
    OBVIOUS
  <2>3. c \in {1, 2, 3, 7} => 32 + c \in Byte /\ 0 + c \in Byte
    BY DEF Byte
  <2>4. a = 0 + c \/ a = 32 + c
    BY <2>1 DEF c
  <2> QED
    BY <1>1, <2>2, <2>3, <2>4 DEF c
<1>3. Len(s) \in Byte /\ Len(s) \in Nat
  <2>1. Len(s) \in Nat
    OBVIOUS
  <2> QED
    BY <2>1, ShortIsByte
<1> HIDE DEF a
<1>4. /\ body \in Seq(Byte) /\ Len(body) = Len(s) + 2 /\ body[1] = a /\ body[2] = Len(s)
      /\ \A i \in 1 .. Len(s) : body[i + 2] = s[i]
  BY <1>2, <1>3, Joined
<1> HIDE DEF body
<1>5. /\ Sealed(body) \in Seq(Byte) /\ Len(Sealed(body)) = Len(body) + 1 /\ Intact(Sealed(body))
      /\ \A i \in 1 .. Len(body) : Sealed(body)[i] = body[i]
  BY <1>4, SealedIs
<1>6. /\ Sealed(body)[1] = a /\ Sealed(body)[2] = Len(s)
      /\ \A i \in 1 .. Len(s) : Sealed(body)[i + 2] = s[i]
  BY <1>3, <1>4, <1>5
<1>7. Frame(motorID, command, s) = Sealed(body)
  BY DEF Frame, body, a
<1> QED
  BY <1>2, <1>3, <1>4, <1>5, <1>6, <1>7

\* A response with a content of a register.
LEMMA ResponseIs ==
    ASSUME NEW a \in Byte, NEW s \in Seq(Byte), Len(s) <= 4
    PROVE  LET f == Sealed(<<a, Len(s)>> \o s)
           IN  /\ f \in Seq(Byte) /\ Len(f) = Len(s) + 3 /\ Intact(f) /\ f[1] = a /\ f[2] = Len(s)
               /\ \A i \in 1 .. Len(s) : f[i + 2] = s[i]
               /\ SubSeq(f, 3, 2 + Len(s)) = s
<1> DEFINE body == <<a, Len(s)>> \o s
<1>1. Len(s) \in Byte /\ Len(s) \in Nat
  <2>1. Len(s) \in Nat
    OBVIOUS
  <2> QED
    BY <2>1, ShortIsByte
<1>2. /\ body \in Seq(Byte) /\ Len(body) = Len(s) + 2 /\ body[1] = a /\ body[2] = Len(s)
      /\ \A i \in 1 .. Len(s) : body[i + 2] = s[i]
  BY <1>1, Joined
<1> HIDE DEF body
<1> DEFINE f == Sealed(body)
<1>3. /\ f \in Seq(Byte) /\ Len(f) = Len(body) + 1 /\ Intact(f)
      /\ \A i \in 1 .. Len(body) : f[i] = body[i]
  BY <1>2, SealedIs
<1> HIDE DEF f
<1>4. /\ f[1] = a /\ f[2] = Len(s) /\ Len(f) = Len(s) + 3
      /\ \A i \in 1 .. Len(s) : f[i + 2] = s[i]
  BY <1>1, <1>2, <1>3
<1>5. SubSeq(f, 3, 2 + Len(s)) = s
  <2>1. /\ SubSeq(f, 3, 2 + Len(s)) \in Seq(Byte) /\ Len(SubSeq(f, 3, 2 + Len(s))) = Len(s)
        /\ \A i \in 1 .. Len(s) : SubSeq(f, 3, 2 + Len(s))[i] = f[i + 2]
    BY <1>1, <1>3, <1>4
  <2> QED
    BY <1>4, <2>1, SeqEqual
<1> QED
  BY <1>3, <1>4, <1>5 DEF f, body

-----------------------------------------------------------------------------
(* What is known of an exchange. *)

\* The register's width, and the responses of a device that did what it was asked.
w == Width(type)
Shown == Sealed(<<Success, w>> \o content)
Done == Sealed(<<Success, 0>>)

Setting(who) == who \in {"set", "tool set"}
Getting(who) == who \in {"get", "tool get", "log"}

Types ==
    /\ reg \in Registers
    /\ content \in Seq(Byte) /\ Len(content) = w
    /\ typed \in {<<>>} \cup Int32s
    /\ value \in {<<>>} \cup Int32s
    /\ phase \in {"idle", "sent", "answered"} /\ client \in Clients
    /\ request \in Seq(Byte) /\ response \in Seq(Byte)
    /\ phase # "idle" => output = Nothing

\* A frame asks for what a client wants.
Asks(who, v, frame) ==
    /\ frame \in Seq(Byte) /\ Len(frame) = frame[2] + 3
    /\ Setting(who) <=> frame[1] % 32 = CommandId["SetRegister"]
    /\ Getting(who) <=> frame[1] % 32 = CommandId["GetRegister"]
    /\ Setting(who) /\ frame[2] = 1 + w /\ v # <<>> =>
         SubSeq(frame, 4, 2 + frame[2]) = SubSeq(v, 1, w)

Asked == phase = "sent" => flip = <<>> /\ Asks(client, value, request)

\* What was answered, if nothing changed it, says what the device did.
Told ==
    phase = "answered" /\ flip = <<>> =>
        /\ Intact(response) /\ Len(response) \in 2 .. 258
        /\ response[1] = Success => response = IF Getting(client) THEN Shown ELSE Done
        /\ Setting(client) /\ response[1] = Success /\ value # <<>> =>
             content = SubSeq(value, 1, w)

\* What was changed in one byte was intact.
Flipped ==
    phase = "answered" /\ flip # <<>> =>
        \E old \in Seq(Byte), k \in 1 .. Len(response) :
            OneByteApart(old, response, k) /\ Intact(old) /\ flip = <<old[k], response[k]>>

\* What was typed is in the register, unless a set is on its way.
Known ==
    typed # <<>> =>
        \/ content = SubSeq(typed, 1, w)
        \/ phase = "answered" /\ Setting(client) /\ (flip # <<>> \/ response[1] = Success)

\* What the command line makes of a content.
Shows(raw) == Reading(IF Len(raw) = 2 THEN raw ELSE Extend(raw, 4, FALSE), TRUE)

\* What is printed or logged is what the response carries.
Output ==
    /\ output.kind = "success" /\ flip = <<>> /\ client = "get" => output.value = Shows(content)
    /\ output.kind = "success" /\ flip = <<>> /\ client = "tool get" =>
         output.value = ToolNumber(content)
    /\ output.kind = "logged" /\ flip = <<>> /\ response[1] = Success =>
         output.value = loggedValue(content, type)
    /\ output.kind = "logged" /\ flip # <<>> /\ {flip[1], flip[2]} # {0, 255} =>
         output.value = NoField

Exchange == Types /\ Asked /\ Told /\ Flipped /\ Known /\ Output

-----------------------------------------------------------------------------
(* The senders. *)

LEMMA SameInterval ==
    ASSUME NEW m \in Nat, NEW n \in Nat, 1 .. m = 1 .. n
    PROVE  m = n
<1>1. \A i \in Int : 1 <= i /\ i <= m <=> 1 <= i /\ i <= n
  OBVIOUS
<1>2. (1 <= m => m <= n) /\ (1 <= n => n <= m)
  BY <1>1
<1> QED
  BY <1>2

\* As many bytes as a type is wide.
LEMMA BytesOfWidth ==
    ASSUME NEW n \in Nat, NEW v \in [1 .. n -> Byte]
    PROVE  v \in Seq(Byte) /\ Len(v) = n
<1>1. v \in UNION {[1 .. m -> Byte] : m \in Nat}
  OBVIOUS
<1>2. v \in Seq(Byte)
  BY <1>1, SeqDef
<1>3. Len(v) \in Nat /\ DOMAIN v = 1 .. Len(v) /\ DOMAIN v = 1 .. n
  BY <1>2, LenProperties
<1>4. 1 .. Len(v) = 1 .. n
  BY <1>3, Zenon
<1> QED
  BY <1>2, <1>3, <1>4, SameInterval

\* An int32_t, and its lower bytes.
LEMMA Digits ==
    ASSUME NEW v \in Int32s
    PROVE  /\ v \in Seq(Byte) /\ Len(v) = 4 /\ v # <<>>
           /\ \A n \in 1 .. 4 : SubSeq(v, 1, n) \in Seq(Byte) /\ Len(SubSeq(v, 1, n)) = n
<1>1. v \in [1 .. 4 -> Byte]
  BY Int32Assumption
<1>2. v \in Seq(Byte) /\ Len(v) = 4
  BY <1>1, BytesOfWidth
<1>3. v # <<>>
  <2>1. \A s \in Seq(Byte) : Len(s) = 4 => s # <<>>
    OBVIOUS
  <2> QED
    BY <1>2, <2>1
<1>4. ASSUME NEW n \in 1 .. 4
      PROVE  SubSeq(v, 1, n) \in Seq(Byte) /\ Len(SubSeq(v, 1, n)) = n
  <2>1. \A i \in 1 .. n : v[i] \in Byte
    BY <1>1
  <2> QED
    BY <2>1, SubSeqProperties
<1> QED
  BY <1>2, <1>3, <1>4

\* The payloads of the other frames.
LEMMA OneByte ==
    ASSUME NEW b \in Byte
    PROVE  <<b>> \in Seq(Byte) /\ Len(<<b>>) <= 6
  OBVIOUS

LEMMA RampIs ==
    ASSUME NEW v \in Int32s
    PROVE  v \o SubSeq(v, 1, 2) \in Seq(Byte) /\ Len(v \o SubSeq(v, 1, 2)) <= 6
<1> DEFINE s == SubSeq(v, 1, 2)
<1>1. v \in Seq(Byte) /\ Len(v) = 4 /\ s \in Seq(Byte) /\ Len(s) = 2
  BY Digits
<1> HIDE DEF s
<1>2. v \o s \in Seq(Byte) /\ Len(v \o s) = Len(v) + Len(s)
  BY <1>1, ConcatProperties
<1> QED
  BY <1>1, <1>2 DEF s

\* A payload of a register's number and digits.
LEMMA NumberedIs ==
    ASSUME NEW a \in Byte, NEW s \in Seq(Byte), Len(s) <= 5
    PROVE  LET p == <<a>> \o s
           IN  p \in Seq(Byte) /\ Len(p) = Len(s) + 1 /\ \A i \in 1 .. Len(s) : p[i + 1] = s[i]
<1> DEFINE h == <<a>>
<1>1. h \in Seq(Byte) /\ Len(h) = 1
  OBVIOUS
<1> HIDE DEF h
<1>2. Len(s) \in Nat
  OBVIOUS
<1>3. /\ h \o s \in Seq(Byte) /\ Len(h \o s) = Len(h) + Len(s)
      /\ \A i \in 1 .. Len(h) + Len(s) :
           (h \o s)[i] = IF i <= Len(h) THEN h[i] ELSE s[i - Len(h)]
  BY <1>1, ConcatProperties
<1>4. ASSUME NEW i \in 1 .. Len(s) PROVE (h \o s)[i + 1] = s[i]
  BY <1>1, <1>2, <1>3
<1> QED
  BY <1>1, <1>2, <1>3, <1>4 DEF h

\* A frame that sets a register to digits.
LEMMA SetFrameIs ==
    ASSUME NEW motorID \in {0, 1}, NEW a \in Byte, NEW s \in Seq(Byte), Len(s) <= 5
    PROVE  LET f == Frame(motorID, "SetRegister", <<a>> \o s)
           IN  /\ f \in Seq(Byte) /\ Len(f) = f[2] + 3
               /\ f[1] % 32 = 1 /\ f[2] = Len(s) + 1
               /\ SubSeq(f, 4, 2 + f[2]) = s
<1> DEFINE p == <<a>> \o s
           f == Frame(motorID, "SetRegister", p)
<1>1. p \in Seq(Byte) /\ Len(p) = Len(s) + 1 /\ \A i \in 1 .. Len(s) : p[i + 1] = s[i]
  BY NumberedIs
<1>2. Len(s) \in Nat
  OBVIOUS
<1> HIDE DEF p
<1>3. Len(p) <= 6 /\ "SetRegister" \in DOMAIN CommandId /\ CommandId["SetRegister"] = 1
  BY <1>1, <1>2 DEF CommandId
<1>4. /\ f \in Seq(Byte) /\ Len(f) = Len(p) + 3
      /\ f[1] % 32 = 1 /\ f[2] = Len(p)
      /\ \A i \in 1 .. Len(p) : f[i + 2] = p[i]
  BY <1>1, <1>3, FrameIs
<1> HIDE DEF f
<1>5. Len(f) = f[2] + 3 /\ f[2] = Len(s) + 1 /\ Len(f) = Len(s) + 4
  BY <1>1, <1>2, <1>4
<1>6. SubSeq(f, 4, 2 + f[2]) = s
  <2>1. \A i \in 4 .. Len(s) + 3 : f[i] \in Byte
    BY <1>2, <1>4, <1>5
  <2>2. /\ SubSeq(f, 4, Len(s) + 3) \in Seq(Byte)
        /\ Len(SubSeq(f, 4, Len(s) + 3)) = IF 4 <= Len(s) + 3 THEN Len(s) + 3 - 4 + 1 ELSE 0
        /\ \A i \in 1 .. Len(s) + 3 - 4 + 1 : SubSeq(f, 4, Len(s) + 3)[i] = f[4 + i - 1]
    BY <1>2, <2>1, SubSeqProperties
  <2>3. Len(SubSeq(f, 4, Len(s) + 3)) = Len(s)
    BY <1>2, <2>2
  <2>4. ASSUME NEW i \in 1 .. Len(s) PROVE SubSeq(f, 4, Len(s) + 3)[i] = s[i]
    <3>1. SubSeq(f, 4, Len(s) + 3)[i] = f[(i + 1) + 2]
      BY <1>2, <2>2
    <3>2. f[(i + 1) + 2] = p[i + 1] /\ p[i + 1] = s[i]
      BY <1>1, <1>2, <1>4
    <3> QED
      BY <3>1, <3>2
  <2>5. SubSeq(f, 4, Len(s) + 3) = s
    BY <2>2, <2>3, <2>4, SeqEqual
  <2>6. 2 + f[2] = Len(s) + 3
    BY <1>2, <1>5
  <2> QED
    BY <2>5, <2>6
<1> QED
  BY <1>4, <1>5, <1>6 DEF f, p

\* Any other frame.
LEMMA OtherFrameIs ==
    ASSUME NEW motorID \in {0, 1}, NEW command \in {"GetRegister", "Execute", "ExecuteRamp"},
           NEW s \in Seq(Byte), Len(s) <= 6
    PROVE  LET f == Frame(motorID, command, s)
           IN  /\ f \in Seq(Byte) /\ Len(f) = f[2] + 3
               /\ f[1] % 32 # 1
               /\ command = "GetRegister" <=> f[1] % 32 = 2
<1>1. /\ command \in DOMAIN CommandId /\ CommandId[command] # 1
      /\ command = "GetRegister" <=> CommandId[command] = 2
  BY DEF CommandId
<1> DEFINE f == Frame(motorID, command, s)
<1>2. /\ f \in Seq(Byte) /\ Len(f) = Len(s) + 3
      /\ f[1] % 32 = CommandId[command] /\ f[2] = Len(s)
  BY <1>1, FrameIs
<1> HIDE DEF f
<1> QED
  BY <1>1, <1>2 DEF f

\* The register's width.
LEMMA WidthIs ==
    ASSUME Types
    PROVE  /\ reg \in RegisterId /\ RegisterNumber[reg] \in Byte
           /\ type \in RegisterType /\ w \in {1, 2, 4} /\ w \in Nat
<1>1. reg \in RegisterId
  BY RegistersAssumption DEF Types, ToolRegister
<1> QED
  BY <1>1, Tables, Widths DEF type, w

LEMMA AsksSet ==
    ASSUME NEW who, Setting(who), NEW v, NEW f \in Seq(Byte), Len(f) = f[2] + 3, f[1] % 32 = 1,
           f[2] = 1 + w /\ v # <<>> => SubSeq(f, 4, 2 + f[2]) = SubSeq(v, 1, w)
    PROVE  Asks(who, v, f)
<1>1. CommandId["SetRegister"] = 1 /\ CommandId["GetRegister"] = 2
  BY DEF CommandId
<1>2. ~Getting(who)
  BY DEF Setting, Getting
<1>3. f[1] % 32 # 2
  OBVIOUS
<1>4. f[1] % 32 = CommandId["SetRegister"] /\ f[1] % 32 # CommandId["GetRegister"]
  BY <1>1, <1>3
<1> QED
  BY <1>2, <1>4, Zenon DEF Asks

LEMMA AsksOther ==
    ASSUME NEW who, ~Setting(who), NEW v, NEW f \in Seq(Byte), Len(f) = f[2] + 3,
           f[1] % 32 # 1, Getting(who) <=> f[1] % 32 = 2
    PROVE  Asks(who, v, f)
<1>1. CommandId["SetRegister"] = 1 /\ CommandId["GetRegister"] = 2
  BY DEF CommandId
<1> QED
  BY <1>1 DEF Asks

\* Whatever is sent.
LEMMA Sent ==
    ASSUME Exchange, NEW who \in Clients, NEW v \in {<<>>} \cup Int32s, NEW frame,
           Asks(who, v, frame), Send(who, v, frame)
    PROVE  Exchange'
<1> USE DEF Send
<1>1. Types'
  <2>1. Types /\ frame \in Seq(Byte) /\ <<>> \in Seq(Byte)
    BY DEF Exchange, Asks
  <2> QED
    BY <2>1 DEF Types, w, type
<1>2. Asked'
  BY DEF Asked, Asks, w, type
<1>3. Told' /\ Flipped'
  BY DEF Told, Flipped
<1>4. Known'
  BY DEF Exchange, Known, w, type
<1>5. Output'
  BY DEF Output, Nothing, Printed
<1> QED
  BY <1>1, <1>2, <1>3, <1>4, <1>5 DEF Exchange

LEMMA SetsKeep ==
    ASSUME Exchange, Set \/ Ramp \/ ToolSet \/ ToolRamp
    PROVE  Exchange'
<1>1. Types /\ RegisterNumber[reg] \in Byte /\ w \in {1, 2, 4} /\ w \in 1 .. 4
  <2>1. Types
    BY DEF Exchange
  <2> QED
    BY <2>1, WidthIs
<1>2. ASSUME NEW v \in Int32s, Send("set", v, buildSetRegisterFrame(1, reg, v))
      PROVE  Exchange'
  <2> DEFINE s == SubSeq(v, 1, w)
             f == Frame(1, "SetRegister", <<RegisterNumber[reg]>> \o s)
  <2>1. s \in Seq(Byte) /\ Len(s) = w /\ Len(s) <= 5
    BY <1>1, Digits
  <2>2. /\ f \in Seq(Byte) /\ Len(f) = f[2] + 3
        /\ f[1] % 32 = 1 /\ f[2] = Len(s) + 1 /\ SubSeq(f, 4, 2 + f[2]) = s
    <3> HIDE DEF s
    <3> QED
      BY <1>1, <2>1, SetFrameIs
  <2> HIDE DEF f
  <2>3. Asks("set", v, f)
    BY <2>2, AsksSet DEF Setting
  <2>4. f = buildSetRegisterFrame(1, reg, v)
    BY DEF f, buildSetRegisterFrame, w, type
  <2> QED
    BY <1>2, <2>3, <2>4, Sent DEF Clients
<1>3. ASSUME NEW v \in Int32s, NEW known \in BOOLEAN,
             Send("tool set", IF known THEN v ELSE <<>>, toolSetRegisterFrame(1, reg, v))
      PROVE  Exchange'
  <2> DEFINE s == SubSeq(v, 1, 2)
             f == Frame(1, "SetRegister", <<RegisterNumber[reg]>> \o s)
             u == IF known THEN v ELSE <<>>
  <2>1. s \in Seq(Byte) /\ Len(s) = 2 /\ Len(s) <= 5
    BY Digits
  <2>2. /\ f \in Seq(Byte) /\ Len(f) = f[2] + 3
        /\ f[1] % 32 = 1 /\ f[2] = Len(s) + 1 /\ SubSeq(f, 4, 2 + f[2]) = s
    <3> HIDE DEF s
    <3> QED
      BY <1>1, <2>1, SetFrameIs
  <2> HIDE DEF f
  <2>3. f[2] = 1 + w => w = 2
    BY <1>1, <2>1, <2>2
  <2>4. Asks("tool set", u, f)
    BY <2>2, <2>3, AsksSet DEF Setting
  <2>5. f = toolSetRegisterFrame(1, reg, v)
    BY DEF f, toolSetRegisterFrame
  <2>6. u \in {<<>>} \cup Int32s
    OBVIOUS
  <2>7. Send("tool set", u, f)
    BY <1>3, <2>5
  <2> HIDE DEF u
  <2> QED
    BY <2>4, <2>6, <2>7, Sent DEF Clients, ToolClients
<1>4. ASSUME NEW v \in Int32s, NEW who \in {"ramp", "tool ramp"},
             Send(who, <<>>, Frame(1, "ExecuteRamp", v \o SubSeq(v, 1, 2)))
      PROVE  Exchange'
  <2> DEFINE s == v \o SubSeq(v, 1, 2)
             f == Frame(1, "ExecuteRamp", s)
  <2>2. s \in Seq(Byte) /\ Len(s) <= 6
    BY RampIs
  <2> HIDE DEF s
  <2>3. /\ f \in Seq(Byte) /\ Len(f) = f[2] + 3
        /\ f[1] % 32 # 1 /\ f[1] % 32 # 2
    BY <2>2, OtherFrameIs
  <2> HIDE DEF f
  <2>4. Asks(who, <<>>, f)
    BY <2>3, AsksOther DEF Setting, Getting
  <2> QED
    BY <1>4, <2>4, Sent DEF Clients, ToolClients, f, s
<1>5. CASE Set
  BY <1>2, <1>5 DEF Set
<1>6. CASE ToolSet
  BY <1>3, <1>6 DEF ToolSet
<1>7. CASE Ramp
  BY <1>4, <1>7 DEF Ramp, buildExecuteRampFrame
<1>8. CASE ToolRamp
  BY <1>4, <1>8 DEF ToolRamp, toolExecuteRampFrame
<1> QED
  BY <1>5, <1>6, <1>7, <1>8

LEMMA GetsKeep ==
    ASSUME Exchange, Get \/ Execute \/ Log \/ ToolGet \/ ToolExecute
    PROVE  Exchange'
<1>1. RegisterNumber[reg] \in Byte
  BY WidthIs DEF Exchange
<1>2. ASSUME NEW b \in Byte, NEW motorID \in {0, 1}, NEW command \in {"GetRegister", "Execute"},
             NEW who \in {"get", "tool get", "log", "exec", "tool exec"},
             Getting(who) <=> command = "GetRegister",
             Send(who, <<>>, Frame(motorID, command, <<b>>))
      PROVE  Exchange'
  <2> DEFINE s == <<b>>
             f == Frame(motorID, command, s)
  <2>1. s \in Seq(Byte) /\ Len(s) <= 6
    BY OneByte
  <2>c. command \in {"GetRegister", "Execute", "ExecuteRamp"}
    OBVIOUS
  <2> HIDE DEF s
  <2>2. /\ f \in Seq(Byte) /\ Len(f) = f[2] + 3
        /\ f[1] % 32 # 1
        /\ command = "GetRegister" <=> f[1] % 32 = 2
    <3> HIDE DEF f
    <3> QED
      BY <2>1, <2>c, OtherFrameIs, ZenonT(30) DEF f
  <2> HIDE DEF f
  <2>3. Asks(who, <<>>, f)
    BY <1>2, <2>2, AsksOther DEF Setting
  <2> QED
    BY <1>2, <2>3, Sent DEF Clients, ToolClients, f, s
<1>3. ExecuteIds \subseteq Byte
  BY BytesAssumption
<1>4. /\ Getting("get") /\ Getting("tool get") /\ Getting("log")
      /\ ~Getting("exec") /\ ~Getting("tool exec")
  BY DEF Getting
<1>5. CASE Get
  BY <1>1, <1>2, <1>4, <1>5 DEF Get, buildGetRegisterFrame
<1>6. CASE Log
  BY <1>1, <1>2, <1>4, <1>6 DEF Log, buildGetRegisterFrame
<1>7. CASE ToolGet
  BY <1>1, <1>2, <1>4, <1>7 DEF ToolGet, toolGetRegisterFrame
<1>8. CASE Execute
  BY <1>2, <1>3, <1>4, <1>8 DEF Execute, buildExecuteFrame
<1>9. CASE ToolExecute
  BY <1>2, <1>3, <1>4, <1>9 DEF ToolExecute, toolExecuteFrame
<1> QED
  BY <1>5, <1>6, <1>7, <1>8, <1>9

-----------------------------------------------------------------------------
(* The device and the line. *)

LEMMA RefusedIs ==
    ASSUME NEW code \in Byte
    PROVE  LET r == Sealed(<<Failure, 1, code>>)
           IN  r \in Seq(Byte) /\ Intact(r) /\ Len(r) = 4 /\ r[1] # Success
<1> DEFINE s == <<Failure, 1, code>>
<1>1. s \in Seq(Byte) /\ Len(s) = 3 /\ s[1] = 255
  BY DEF Failure, Byte
<1> HIDE DEF s
<1>2. /\ Sealed(s) \in Seq(Byte) /\ Len(Sealed(s)) = 4 /\ Intact(Sealed(s))
      /\ Sealed(s)[1] = 255
  <2>1. /\ Sealed(s) \in Seq(Byte) /\ Len(Sealed(s)) = Len(s) + 1
        /\ \A i \in 1 .. Len(s) : Sealed(s)[i] = s[i]
        /\ Intact(Sealed(s))
    BY <1>1, SealedIs
  <2> QED
    BY <1>1, <2>1
<1>3. Success # 255
  BY DEF Success
<1> QED
  BY <1>2, <1>3 DEF s

LEMMA DoneIs ==
    Done \in Seq(Byte) /\ Intact(Done) /\ Len(Done) = 3 /\ Done[1] = Success /\ Done[2] = 0
<1> DEFINE s == <<Success, 0>>
<1>1. s \in Seq(Byte) /\ Len(s) = 2 /\ s[1] = Success /\ s[2] = 0
  BY DEF Success, Byte
<1> HIDE DEF s
<1>2. /\ Sealed(s) \in Seq(Byte) /\ Len(Sealed(s)) = Len(s) + 1
      /\ \A i \in 1 .. Len(s) : Sealed(s)[i] = s[i]
      /\ Intact(Sealed(s))
  BY <1>1, SealedIs
<1>3. Len(Sealed(s)) = 3 /\ Sealed(s)[1] = Success /\ Sealed(s)[2] = 0
  BY <1>1, <1>2
<1> QED
  BY <1>2, <1>3 DEF Done, s

LEMMA ShownIs ==
    ASSUME Types
    PROVE  /\ Shown \in Seq(Byte) /\ Len(Shown) = w + 3 /\ Intact(Shown)
           /\ Shown[1] = Success /\ Shown[2] = w
           /\ \A i \in 1 .. w : Shown[i + 2] = content[i]
           /\ SubSeq(Shown, 3, 2 + w) = content
<1>1. content \in Seq(Byte) /\ Len(content) = w /\ w \in {1, 2, 4} /\ Len(content) <= 4
  BY WidthIs DEF Types
<1>2. Success \in Byte
  BY DEF Success, Byte
<1> QED
  BY <1>1, <1>2, ResponseIs, ZenonT(30) DEF Shown

LEMMA AnswersKeep ==
    ASSUME Exchange, DeviceAnswers
    PROVE  Exchange'
<1> USE DEF DeviceAnswers
<1>1. Types /\ Asked /\ Known /\ flip = <<>> /\ Asks(client, value, request)
  BY DEF Exchange, Asked
<1>2. /\ w \in {1, 2, 4} /\ w \in Nat /\ w' = w /\ type' = type
      /\ content \in Seq(Byte) /\ Len(content) = w
  BY <1>1, WidthIs DEF Types, w, type
<1>3. typed # <<>> => content = SubSeq(typed, 1, w)
  BY <1>1 DEF Known
<1>4. ASSUME response' \in Seq(Byte), Intact(response'), Len(response') \in 2 .. 258,
             content' \in Seq(Byte), Len(content') = w,
             response'[1] = Success => response' = IF Getting(client) THEN Shown' ELSE Done,
             Setting(client) /\ response'[1] = Success /\ value # <<>> =>
                 content' = SubSeq(value, 1, w),
             (Setting(client) /\ response'[1] = Success) \/ content' = content
      PROVE  Exchange'
  <2>1. Types'
    BY <1>1, <1>2, <1>4 DEF Types
  <2>2. Told'
    BY <1>2, <1>4 DEF Told, Done
  <2>3. Known'
    BY <1>2, <1>3, <1>4 DEF Known
  <2>4. Asked' /\ Flipped'
    BY <1>1 DEF Asked, Flipped
  <2>5. Output'
    <3>1. output = Nothing /\ output' = output
      BY <1>1 DEF Types
    <3>2. output'.kind = "nothing"
      BY <3>1 DEF Nothing, Printed
    <3> QED
      BY <3>2, Zenon DEF Output
  <2> QED
    BY <2>1, <2>2, <2>3, <2>4, <2>5 DEF Exchange
<1>5. ASSUME NEW code \in Codes, response' = Sealed(<<Failure, 1, code>>), content' = content
      PROVE  Exchange'
  <2>1. code \in Byte
    BY BytesAssumption
  <2>2. /\ response' \in Seq(Byte) /\ Intact(response') /\ Len(response') \in 2 .. 258
        /\ response'[1] # Success
    <3> DEFINE r == Sealed(<<Failure, 1, code>>)
    <3>1. r \in Seq(Byte) /\ Intact(r) /\ Len(r) = 4 /\ r[1] # Success
      BY <2>1, RefusedIs
    <3> HIDE DEF r
    <3>2. response' = r
      BY <1>5 DEF r
    <3> QED
      BY <3>1, <3>2
  <2> QED
    BY <1>2, <1>4, <1>5, <2>2
<1>6. ASSUME request[1] % 32 = CommandId["SetRegister"], request[2] = 1 + w,
             content' = SubSeq(request, 4, 2 + request[2]), response' = Done
      PROVE  Exchange'
  <2>1. Setting(client) /\ ~Getting(client)
    BY <1>1, <1>6 DEF Asks, Setting, Getting
  <2>2. value # <<>> => content' = SubSeq(value, 1, w)
    BY <1>1, <1>6, <2>1 DEF Asks
  <2>3. content' \in Seq(Byte) /\ Len(content') = w
    <3>1. request \in Seq(Byte) /\ Len(request) = w + 4 /\ 2 + request[2] = w + 3
      BY <1>1, <1>2, <1>6 DEF Asks
    <3>2. \A i \in 4 .. w + 3 : request[i] \in Byte
      BY <1>2, <3>1
    <3>3. /\ SubSeq(request, 4, w + 3) \in Seq(Byte)
          /\ Len(SubSeq(request, 4, w + 3)) = IF 4 <= w + 3 THEN w + 3 - 4 + 1 ELSE 0
      BY <1>2, <3>2, SubSeqProperties
    <3>4. Len(SubSeq(request, 4, w + 3)) = w
      BY <1>2, <3>3
    <3> QED
      BY <1>6, <3>1, <3>3, <3>4
  <2> QED
    BY <1>4, <1>6, <2>1, <2>2, <2>3, DoneIs
<1>7. ASSUME request[1] % 32 \in {CommandId["Execute"], CommandId["ExecuteRamp"]},
             response' = Done, content' = content
      PROVE  Exchange'
  <2>1. ~Setting(client) /\ ~Getting(client)
    BY <1>1, <1>7 DEF Asks, CommandId
  <2> QED
    BY <1>2, <1>4, <1>7, <2>1, DoneIs
<1>8. ASSUME request[1] % 32 = CommandId["GetRegister"],
             response' = Sealed(<<Success, Len(content)>> \o content), content' = content
      PROVE  Exchange'
  <2>1. Getting(client) /\ ~Setting(client)
    BY <1>1, <1>8 DEF Asks, Setting, Getting
  <2>2. response' = Shown /\ Shown' = Shown
    BY <1>2, <1>8 DEF Shown
  <2>3. Shown \in Seq(Byte) /\ Intact(Shown) /\ Len(Shown) \in 2 .. 258
    <3>1. w + 3 \in 2 .. 258
      BY <1>2
    <3> QED
      BY <1>1, <3>1, ShownIs
  <2> QED
    BY <1>2, <1>4, <1>8, <2>1, <2>2, <2>3
<1> QED
  BY <1>5, <1>6, <1>7, <1>8 DEF Done, w

\* The line changes a byte.
LEMMA FlipsKeep ==
    ASSUME Exchange, LineFlips
    PROVE  Exchange'
<1>1. Types /\ Told /\ phase = "answered" /\ flip = <<>>
  BY DEF Exchange, LineFlips
<1>c. UNCHANGED <<reg, content, typed, phase, client, value, request, output>>
  BY DEF LineFlips
<1>2. response \in Seq(Byte) /\ Intact(response) /\ Len(response) \in 2 .. 258
  BY <1>1 DEF Types, Told
<1>3. PICK k \in 1 .. Len(response), b \in Noise :
         /\ b # response[k]
         /\ flip' = <<response[k], b>>
         /\ response' = [response EXCEPT ![k] = b]
  <2>1. DOMAIN response = 1 .. Len(response)
    BY <1>2, LenProperties
  <2> QED
    BY <2>1 DEF LineFlips
<1>4. b \in Byte /\ flip' # <<>> /\ flip'[1] = response[k] /\ flip'[2] = b
  BY <1>3, BytesAssumption
<1>5. /\ response' \in Seq(Byte) /\ Len(response') = Len(response)
      /\ \A i \in 1 .. Len(response) : response'[i] = IF i = k THEN b ELSE response[i]
  <2> DEFINE r == [response EXCEPT ![k] = b]
  <2>0. response \in Seq(Byte) /\ k \in 1 .. Len(response) /\ b \in Byte
    BY <1>2, <1>4
  <2>1. r \in Seq(Byte) /\ Len(r) = Len(response)
    BY <2>0, ExceptSeq
  <2>2. \A i \in 1 .. Len(response) : r[i] = IF i = k THEN b ELSE response[i]
    BY <2>0, ExceptSeq
  <2>3. response' = r
    BY <1>3
  <2> HIDE DEF r
  <2> QED
    BY <2>1, <2>2, <2>3
<1>6. Types'
  BY <1>1, <1>c, <1>5 DEF Types, w, type
<1>7. Asked' /\ Told'
  BY <1>1, <1>c, <1>4 DEF Asked, Told
<1>8. Flipped'
  <2>1. /\ Len(response) \in 2 .. 258 /\ Len(response') = Len(response)
        /\ k \in 1 .. Len(response') /\ response[k] # response'[k]
        /\ \A i \in 1 .. Len(response) : i # k => response'[i] = response[i]
        /\ flip' = <<response[k], response'[k]>>
    BY <1>2, <1>3, <1>5
  <2>2. OneByteApart(response, response', k)
    BY <2>1 DEF OneByteApart
  <2> QED
    BY <1>2, <2>1, <2>2 DEF Flipped
<1>9. Known'
  BY <1>1, <1>c, <1>4 DEF Exchange, Known, w, type
<1>10. Output'
  <2>1. output = Nothing /\ output' = output
    BY <1>1, <1>c DEF Types
  <2>2. output'.kind = "nothing"
    BY <2>1 DEF Nothing, Printed
  <2> QED
    BY <2>2, Zenon DEF Output
<1> QED
  BY <1>6, <1>7, <1>8, <1>9, <1>10 DEF Exchange

-----------------------------------------------------------------------------
(* The readers. *)

LEMMA PrintedIs ==
    ASSUME NEW kind, NEW v
    PROVE  Printed(kind, v).kind = kind /\ Printed(kind, v).value = v
  BY DEF Printed

\* What is printed as a success was one, and nothing printed is a field.
LEMMA Kinds ==
    ASSUME NEW r
    PROVE  /\ interpretResponse(r).kind = "success" => r[1] = Success
           /\ interpretToolResponse(r).kind = "success" => r[1] = Success
           /\ interpretResponse(r).kind # "logged" /\ interpretToolResponse(r).kind # "logged"
<1>1. interpretSuccessResponse(r).kind = "success"
  BY DEF interpretSuccessResponse, Printed
<1>2. /\ interpretResponse(r).kind = "success" => r[1] = Success
      /\ interpretResponse(r).kind # "logged"
  BY <1>1 DEF interpretResponse, Printed
<1>3. /\ interpretToolResponse(r).kind = "success" => r[1] = Success
      /\ interpretToolResponse(r).kind # "logged"
  BY DEF interpretToolResponse, Printed
<1> QED
  BY <1>2, <1>3

LEMMA DoneShows ==
    interpretResponse(Done).kind = "success" /\ interpretToolResponse(Done).kind = "success"
<1>1. Len(Done) = 3 /\ Done[1] = Success /\ Done[2] = 0 /\ Success # Failure
  BY DoneIs DEF Success, Failure
<1> HIDE DEF Done
<1>2. interpretSuccessResponse(Done) = Printed("success", <<>>)
  BY <1>1 DEF interpretSuccessResponse
<1>3. interpretResponse(Done) = Printed("success", <<>>)
  BY <1>1, <1>2 DEF interpretResponse
<1>4. interpretToolResponse(Done) = Printed("success", <<>>)
  BY <1>1 DEF interpretToolResponse
<1> QED
  BY <1>3, <1>4 DEF Printed

LEMMA ShownShows ==
    ASSUME Types
    PROVE  /\ interpretResponse(Shown) = Printed("success", Shows(content))
           /\ interpretToolResponse(Shown) = Printed("success", ToolNumber(content))
<1>1. /\ w \in {1, 2, 4} /\ Len(content) = w /\ Len(Shown) = w + 3
      /\ Shown[1] = Success /\ Shown[2] = w /\ SubSeq(Shown, 3, 2 + w) = content
      /\ Success # Failure
  BY WidthIs, ShownIs DEF Types, Success, Failure
<1> DEFINE n == IF w < 4 THEN 2 + w ELSE 6
<1>2. n = 2 + w
  BY <1>1
<1>3. Len(Shown) >= 3 /\ Len(Shown) = Shown[2] + 3 /\ w # 0
  BY <1>1
<1>4. interpretSuccessResponse(Shown) = Printed("success", Shows(content))
  BY <1>1, <1>2, <1>3 DEF interpretSuccessResponse, Shows
<1>5. interpretResponse(Shown) = Printed("success", Shows(content))
  BY <1>1, <1>3, <1>4 DEF interpretResponse
<1>6. interpretToolResponse(Shown) = Printed("success", ToolNumber(content))
  BY <1>1, <1>3 DEF interpretToolResponse
<1> QED
  BY <1>5, <1>6

LEMMA PrintsKeep ==
    ASSUME Exchange, PrintResponse
    PROVE  Exchange'
<1> USE DEF PrintResponse
<1>1. Types /\ Told /\ Known /\ phase = "answered" /\ client # "log" /\ phase' = "idle"
  BY DEF Exchange
<1>2. output' = interpretToolResponse(response) \/ output' = interpretResponse(response)
  OBVIOUS
<1>3. output'.kind # "logged" /\ (output'.kind = "success" => response[1] = Success)
  BY <1>2, Kinds
<1>4. Types'
  BY <1>1 DEF Types, w, type
<1>5. Asked' /\ Told' /\ Flipped'
  BY <1>1 DEF Asked, Told, Flipped
<1>6. Known'
  <2> SUFFICES ASSUME typed' # <<>> PROVE content = SubSeq(typed', 1, w)
    BY DEF Known, w, type
  <2>1. CASE ~Setting(client)
    BY <1>1, <2>1 DEF Known, Setting
  <2>2. CASE Setting(client)
    <3>1. flip = <<>>
      BY <2>2 DEF Setting
    <3>2. response[1] = Success => content = SubSeq(value, 1, w) \/ value = <<>>
      BY <1>1, <2>2, <3>1 DEF Told
    <3>3. CASE output'.kind = "success"
      <4>1. typed' = value
        BY <2>2, <3>1, <3>3 DEF Setting
      <4> QED
        BY <1>3, <3>2, <3>3, <4>1
    <3>4. CASE output'.kind # "success"
      <4>1. typed' = typed
        BY <2>2, <3>1, <3>4 DEF Setting
      <4>2. response[1] # Success
        <5> SUFFICES ASSUME response[1] = Success PROVE FALSE
          OBVIOUS
        <5>1. ~Getting(client)
          BY <2>2 DEF Setting, Getting
        <5>2. response = Done
          BY <1>1, <3>1, <5>1 DEF Told
        <5> QED
          BY <1>2, <3>4, <5>2, DoneShows
      <4> QED
        BY <1>1, <3>1, <4>1, <4>2 DEF Known
    <3> QED
      BY <3>3, <3>4
  <2> QED
    BY <2>1, <2>2
<1>7. Output'
  <2>1. ASSUME output'.kind = "success", flip = <<>>, Getting(client)
        PROVE  response = Shown
    BY <1>1, <1>3, <2>1 DEF Told
  <2>2. ASSUME output'.kind = "success", flip = <<>>, client = "get"
        PROVE  output'.value = Shows(content)
    <3>1. output' = interpretResponse(response)
      BY <2>2 DEF ToolClients
    <3>2. response = Shown
      BY <2>1, <2>2 DEF Getting
    <3>3. output' = Printed("success", Shows(content))
      BY <1>1, <3>1, <3>2, ShownShows
    <3> QED
      BY <3>3, PrintedIs
  <2>3. ASSUME output'.kind = "success", flip = <<>>, client = "tool get"
        PROVE  output'.value = ToolNumber(content)
    <3>1. output' = interpretToolResponse(response)
      BY <2>3 DEF ToolClients
    <3>2. response = Shown
      BY <2>1, <2>3 DEF Getting
    <3>3. output' = Printed("success", ToolNumber(content))
      BY <1>1, <3>1, <3>2, ShownShows
    <3> QED
      BY <3>3, PrintedIs
  <2> QED
    BY <1>3, <2>2, <2>3 DEF Output
<1> QED
  BY <1>4, <1>5, <1>6, <1>7 DEF Exchange

\* What a field is made of, if the response is the register's.
LEMMA ShownField ==
    ASSUME Types
    PROVE  \A v \in LoggedFields(Shown, type, Heap) : v = loggedValue(content, type)
<1>1. /\ w \in {1, 2, 4} /\ w \in Nat /\ content \in Seq(Byte) /\ Len(content) = w
      /\ Len(Shown) = w + 3 /\ Intact(Shown) /\ Shown[2] = w
      /\ \A i \in 1 .. w : Shown[i + 2] = content[i]
  BY WidthIs, ShownIs DEF Types
<1>2. Len(Shown) >= 4 /\ Shown[2] + 3 = Len(Shown)
  BY <1>1
<1>3. ASSUME NEW h PROVE [i \in 1 .. w |-> IF i + 2 <= Len(Shown) THEN Shown[i + 2] ELSE h] = content
  <2>1. \A i \in 1 .. w : (IF i + 2 <= Len(Shown) THEN Shown[i + 2] ELSE h) = content[i]
    BY <1>1
  <2>2. content = [i \in 1 .. w |-> content[i]]
    BY <1>1, LenProperties
  <2> QED
    BY <2>1, <2>2
<1>4. \A d \in Indexed(Shown, type, Heap) : d = content
  BY <1>3 DEF Indexed, w
<1> QED
  BY <1>1, <1>2, <1>4 DEF LoggedFields

LEMMA FieldsKeep ==
    ASSUME Exchange, WriteField
    PROVE  Exchange'
<1> USE DEF WriteField
<1>1. /\ Types /\ Told /\ Flipped /\ Known /\ phase = "answered" /\ client = "log"
      /\ phase' = "idle" /\ w' = w /\ type' = type
  BY DEF Exchange, w, type
<1>2. PICK v \in LoggedFields(response, type, Heap) : output' = Printed("logged", v)
  OBVIOUS
<1>3. output'.kind = "logged" /\ output'.value = v
  BY <1>2 DEF Printed
<1>4. Types' /\ Asked' /\ Told' /\ Flipped'
  BY <1>1 DEF Types, Asked, Told, Flipped
<1>5. Known'
  BY <1>1 DEF Known, Setting
<1>6. ASSUME flip = <<>>, response[1] = Success PROVE v = loggedValue(content, type)
  <2>1. response = Shown
    BY <1>1, <1>6 DEF Told, Getting
  <2> QED
    BY <1>1, <1>2, <2>1, ShownField
<1>7. ASSUME flip # <<>>, {flip[1], flip[2]} # {0, 255} PROVE v = NoField
  <2>1. PICK old \in Seq(Byte), k \in 1 .. Len(response) :
           OneByteApart(old, response, k) /\ Intact(old) /\ flip = <<old[k], response[k]>>
    BY <1>1, <1>7 DEF Flipped
  <2>2. response \in Seq(Byte)
    BY <1>1 DEF Types
  <2>3. Intact(response) =>
          (old[k] = 0 /\ response[k] = 255) \/ (response[k] = 0 /\ old[k] = 255)
    BY <2>1, <2>2, ChangedByteIs
  <2>4. ~Intact(response)
    BY <1>7, <2>1, <2>3
  <2> QED
    BY <1>2, <2>4 DEF LoggedFields
<1>8. Output'
  BY <1>1, <1>3, <1>6, <1>7 DEF Output
<1> QED
  BY <1>4, <1>5, <1>8 DEF Exchange

-----------------------------------------------------------------------------
(* The inductive invariant. *)

LEMMA InitExchange == Init => Exchange
<1> SUFFICES ASSUME Init PROVE Exchange
  OBVIOUS
<1> USE DEF Init
<1>1. reg \in RegisterId /\ w \in {1, 2, 4} /\ w \in Nat
  <2>1. reg \in RegisterId
    BY RegistersAssumption DEF ToolRegister
  <2> QED
    BY <2>1, Tables, Widths DEF type, w
<1>2. content \in Seq(Byte) /\ Len(content) = w
  <2>1. content = [i \in 1 .. w |-> 0]
    BY DEF w
  <2>2. content \in [1 .. w -> Byte]
    BY <2>1 DEF Byte
  <2> QED
    BY <1>1, <2>2, BytesOfWidth
<1>3. <<>> \in Seq(Byte) /\ "get" \in Clients
  BY DEF Clients
<1>4. Types
  BY <1>2, <1>3 DEF Types
<1>5. Asked /\ Told /\ Flipped /\ Known
  BY DEF Asked, Told, Flipped, Known
<1>6. Output
  BY DEF Output, Nothing, Printed
<1> QED
  BY <1>4, <1>5, <1>6 DEF Exchange

LEMMA ExchangeKept == Exchange /\ [Next]_vars => Exchange'
<1> SUFFICES ASSUME Exchange, [Next]_vars PROVE Exchange'
  OBVIOUS
<1>1. CASE Set \/ Ramp \/ ToolSet \/ ToolRamp
  BY <1>1, SetsKeep
<1>2. CASE Get \/ Execute \/ Log \/ ToolGet \/ ToolExecute
  BY <1>2, GetsKeep
<1>3. CASE DeviceAnswers
  BY <1>3, AnswersKeep
<1>4. CASE LineFlips
  BY <1>4, FlipsKeep
<1>5. CASE PrintResponse
  BY <1>5, PrintsKeep
<1>6. CASE WriteField
  BY <1>6, FieldsKeep
<1>7. CASE UNCHANGED vars
  <2>0. /\ UNCHANGED <<reg, content, typed, phase, client, value, request, response, flip, output>>
        /\ UNCHANGED <<type, w>>
    BY <1>7 DEF vars, type, w
  <2>1. Types'
    BY <2>0 DEF Exchange, Types
  <2>2. Asked' /\ Flipped'
    BY <2>0 DEF Exchange, Asked, Asks, Flipped
  <2>3. Told'
    BY <2>0 DEF Exchange, Told, Shown
  <2>4. Known'
    BY <2>0 DEF Exchange, Known
  <2>5. Output'
    <3>0. Output
      BY DEF Exchange
    <3>1. output'.kind = "success" /\ flip' = <<>> /\ client' = "get" =>
            output'.value = Shows(content')
      BY <2>0, <3>0 DEF Output
    <3>2. output'.kind = "success" /\ flip' = <<>> /\ client' = "tool get" =>
            output'.value = ToolNumber(content')
      BY <2>0, <3>0 DEF Output
    <3>3. output'.kind = "logged" /\ flip' = <<>> /\ response'[1] = Success =>
            output'.value = loggedValue(content', type')
      BY <2>0, <3>0 DEF Output
    <3>4. output'.kind = "logged" /\ flip' # <<>> /\ {flip'[1], flip'[2]} # {0, 255} =>
            output'.value = NoField
      <4>1. {flip'[1], flip'[2]} = {flip[1], flip[2]}
        BY <2>0
      <4> QED
        BY <2>0, <3>0, <4>1 DEF Output
    <3> QED
      BY <3>1, <3>2, <3>3, <3>4, Zenon DEF Output
  <2> QED
    BY <2>1, <2>2, <2>3, <2>4, <2>5 DEF Exchange
<1> QED
  BY <1>1, <1>2, <1>3, <1>4, <1>5, <1>6, <1>7 DEF Next

LEMMA Exchanges == Spec => []Exchange
  BY InitExchange, ExchangeKept, PTL DEF Spec

-----------------------------------------------------------------------------
(* What a content reads as. *)

\* Four bytes of a content, read as an int32_t.
LEMMA Extended ==
    ASSUME NEW raw \in Seq(Byte), Len(raw) \in {1, 2, 4}, NEW signed \in BOOLEAN
    PROVE  Reading(Extend(raw, 4, signed), TRUE) =
               Reading(raw, IF Len(raw) = 4 THEN TRUE ELSE signed)
<1> DEFINE n == Len(raw)
           fill == IF signed /\ raw[n] >= 128 THEN 255 ELSE 0
           four == [i \in 1 .. 4 |-> IF i <= n THEN raw[i] ELSE fill]
           sign == IF four[4] >= 128 THEN 255 ELSE 0
           s == IF n = 4 THEN TRUE ELSE signed
           last == IF s /\ raw[n] >= 128 THEN 255 ELSE 0
<1>1. Extend(raw, 4, signed) = four
  BY DEF Extend
<1>2. four[4] = (IF n = 4 THEN raw[4] ELSE fill) /\ Len(four) = 4
  OBVIOUS
<1>3. sign = last
  BY <1>2
<1>4. Reading(four, TRUE) = [i \in 1 .. 5 |-> IF i <= 4 THEN four[i] ELSE sign]
  BY <1>2 DEF Reading, Extend
<1>5. Reading(raw, s) = [i \in 1 .. 5 |-> IF i <= n THEN raw[i] ELSE last]
  BY DEF Reading, Extend
<1>6. \A i \in 1 .. 5 : (IF i <= 4 THEN four[i] ELSE sign) = (IF i <= n THEN raw[i] ELSE last)
  BY <1>2, <1>3
<1>7. Reading(four, TRUE) = Reading(raw, s)
  <2> HIDE DEF four, sign, last, n
  <2> QED
    BY <1>4, <1>5, <1>6
<1> QED
  BY <1>1, <1>7, Zenon

\* A content whose last byte has no sign bit reads the same, signed or not.
LEMMA Positive ==
    ASSUME NEW raw \in Seq(Byte), Len(raw) \in {1, 2, 4}, raw[Len(raw)] < 128
    PROVE  Reading(raw, TRUE) = Reading(raw, FALSE)
<1>1. ~(raw[Len(raw)] >= 128)
  <2>1. \A k \in 1 .. Len(raw) : raw[k] \in Nat
    BY BytesAreNat
  <2> QED
    BY <2>1
<1> QED
  BY <1>1 DEF Reading, Extend

\* What the two programs and the logger make of the register's content.
LEMMA Readings ==
    ASSUME Types
    PROVE  /\ w = 1 => Shows(content) = Reading(content, FALSE)
           /\ w \in {2, 4} => Shows(content) = Reading(content, TRUE)
           /\ w \in {1, 2} => ToolNumber(content) = Reading(content, FALSE)
           /\ w = 4 => ToolNumber(content) = Reading(content, TRUE)
           /\ w \in {1, 2} => loggedValue(content, type) = Reading(content, Signed(type))
           /\ w = 4 => loggedValue(content, type) = Reading(content, TRUE)
           /\ Last(content) < 128 => Reading(content, TRUE) = Reading(content, FALSE)
<1>1. content \in Seq(Byte) /\ Len(content) = w /\ w \in {1, 2, 4} /\ Len(content) \in {1, 2, 4}
  BY WidthIs DEF Types
<1>2. Signed(type) \in BOOLEAN
  BY DEF Signed
<1>3. ASSUME NEW signed \in BOOLEAN
      PROVE  /\ w \in {1, 2} => Reading(Extend(content, 4, signed), TRUE) = Reading(content, signed)
             /\ w = 4 => Reading(Extend(content, 4, signed), TRUE) = Reading(content, TRUE)
  <2>1. Reading(Extend(content, 4, signed), TRUE) =
            Reading(content, IF Len(content) = 4 THEN TRUE ELSE signed)
    BY <1>1, Extended
  <2>2. (w = 4 => Len(content) = 4) /\ (w \in {1, 2} => Len(content) # 4)
    BY <1>1
  <2> QED
    BY <2>1, <2>2, Zenon
<1>4. /\ w = 1 => Shows(content) = Reading(content, FALSE)
      /\ w \in {2, 4} => Shows(content) = Reading(content, TRUE)
  <2>1. /\ w = 2 => Shows(content) = Reading(content, TRUE)
        /\ w # 2 => Shows(content) = Reading(Extend(content, 4, FALSE), TRUE)
    BY <1>1 DEF Shows
  <2> QED
    BY <1>3, <2>1
<1>5. /\ w \in {1, 2} => ToolNumber(content) = Reading(content, FALSE)
      /\ w = 4 => ToolNumber(content) = Reading(content, TRUE)
  BY <1>3 DEF ToolNumber
<1>6. /\ w \in {1, 2} => loggedValue(content, type) = Reading(content, Signed(type))
      /\ w = 4 => loggedValue(content, type) = Reading(content, TRUE)
  BY <1>2, <1>3 DEF loggedValue
<1>7. Last(content) < 128 => Reading(content, TRUE) = Reading(content, FALSE)
  <2>1. Last(content) = content[Len(content)]
    BY DEF Last
  <2> QED
    BY <1>1, <2>1, Positive
<1> QED
  BY <1>4, <1>5, <1>6, <1>7

LEMMA Signs ==
    ASSUME NEW t \in RegisterType
    PROVE  \/ t = "UInt8" /\ Width(t) = 1 /\ Signed(t) = FALSE
           \/ t = "Int16" /\ Width(t) = 2 /\ Signed(t) = TRUE
           \/ t = "UInt16" /\ Width(t) = 2 /\ Signed(t) = FALSE
           \/ t = "Int32" /\ Width(t) = 4 /\ Signed(t) = TRUE
           \/ t = "UInt32" /\ Width(t) = 4 /\ Signed(t) = FALSE
  BY DEF RegisterType, Width, Signed

-----------------------------------------------------------------------------
(* The theorems. *)

\* A content has as many bytes as the register is wide, and only bytes are sent
\* (FrameBuilder.cpp:11-61, FrameInterpreter.cpp:51-86).
THEOREM ExchangeTypeOK == Spec => []TypeOK
<1>1. Exchange => TypeOK
  <2> SUFFICES ASSUME Types PROVE TypeOK
    BY DEF Exchange
  <2>1. content \in [1 .. w -> Byte]
    <3>1. content \in [1 .. Len(content) -> Byte] /\ Len(content) = w
      BY LenProperties DEF Types
    <3> QED
      BY <3>1
  <2>2. ASSUME NEW s \in Seq(Byte) PROVE \A k \in DOMAIN s : s[k] \in Byte
    BY LenProperties, ElementOfSeq
  <2> QED
    BY <2>1, <2>2 DEF TypeOK, Types, w
<1> QED
  BY <1>1, Exchanges, PTL

\* What a client that got a value shows is what was typed, as it reads it.
LEMMA GetGives ==
    ASSUME Exchange, NEW by, GotValue(by), typed # <<>>
    PROVE  /\ content = SubSeq(typed, 1, Width(type)) /\ w = Width(type) /\ type \in RegisterType
           /\ by = "get" => output.value = Shows(content)
           /\ by = "tool get" => output.value = ToolNumber(content)
<1>1. phase = "idle"
  BY DEF Exchange, Types, GotValue, Nothing, Printed
<1>2. type \in RegisterType /\ w = Width(type)
  BY WidthIs DEF Exchange, w
<1> QED
  BY <1>1, <1>2 DEF Exchange, Known, Output, GotValue

\* What a get of the command line prints is the number that was typed in a set,
\* whatever the registers and numbers, within the limits that are part of the
\* property (FrameBuilder.cpp:11-30, FrameInterpreter.cpp:21, 51-86).
THEOREM GetShowsSet == Spec => []SetThenGet
<1>1. Exchange => SetThenGet
  <2> SUFFICES ASSUME Exchange, GotValue("get"), typed # <<>>, Fits(typed),
                      ~Signed(type) /\ type # "UInt8" => Last(content) < 128
               PROVE  output.value = Reading(typed, TRUE)
    BY DEF SetThenGet
  <2>1. output.value = Shows(content) /\ Reading(content, Signed(type)) = Reading(typed, TRUE)
    BY GetGives DEF Fits, ValueOf
  <2>2. w = Width(type) /\ type \in RegisterType
    BY GetGives
  <2> QED
    BY <2>1, <2>2, Readings, Signs DEF Exchange
<1> QED
  BY <1>1, Exchanges, PTL

\* So is what a get of the tool prints, after a set of either program
\* (FrameBuilder.cpp:3-19 and FrameInterpreter.cpp:18-30 of src/serial).
THEOREM ToolGetShowsSet == Spec => []ToolSetThenGet
<1>1. Exchange => ToolSetThenGet
  <2> SUFFICES ASSUME Exchange, GotValue("tool get"), typed # <<>>, Fits(typed),
                      type \in {"Int16", "UInt32"} => Last(content) < 128
               PROVE  output.value = Reading(typed, TRUE)
    BY DEF ToolSetThenGet
  <2>1. output.value = ToolNumber(content) /\ Reading(content, Signed(type)) = Reading(typed, TRUE)
    BY GetGives DEF Fits, ValueOf
  <2>2. w = Width(type) /\ type \in RegisterType
    BY GetGives
  <2> QED
    BY <2>1, <2>2, Readings, Signs DEF Exchange
<1> QED
  BY <1>1, Exchanges, PTL

\* Whatever byte the line changes behind the length of whatever response, the
\* logger leaves the field empty, unless it changed 0x00 to 0xFF or back
\* (FastLogger.cpp:90-94).
THEOREM NoiseIsNotLogged == Spec => []NoiseNotLogged
<1>1. Exchange => NoiseNotLogged
  BY DEF Exchange, Output, NoiseNotLogged
<1> QED
  BY <1>1, Exchanges, PTL

\* A field is the value of the register, whatever its type and content
\* (FastLogger.cpp:103-131).
THEOREM LoggedFieldIsValue == Spec => []LoggedIsValue
<1>1. Exchange => LoggedIsValue
  <2> SUFFICES ASSUME Exchange, output.kind = "logged", flip = <<>>, response[1] = Success,
                      type = "UInt32" => Last(content) < 128
               PROVE  output.value = Reading(content, Signed(type))
    BY DEF LoggedIsValue, ValueOf
  <2>1. output.value = loggedValue(content, type)
    BY DEF Exchange, Output
  <2>2. type \in RegisterType /\ w = Width(type)
    BY WidthIs DEF Exchange, w
  <2> QED
    BY <2>1, <2>2, Readings, Signs DEF Exchange
<1> QED
  BY <1>1, Exchanges, PTL
=============================================================================
