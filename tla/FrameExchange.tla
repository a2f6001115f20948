----------------------------- MODULE FrameExchange -----------------------------
(***************************************************************************)
(* One register of the motor controller, written and read by the command   *)
(* line and sampled by the logger of serial-claude, and written and read   *)
(* by the earlier tool of src/serial, over a line that may change a byte   *)
(* of a response.  The frames and their decodings are those of FrameCodec  *)
(* and ToolFrames; the device is external: it keeps the content, checks    *)
(* requests, and answers with the AckStatus and AckErrorId of              *)
(* StMpcDefinitions.h.                                                     *)
(***************************************************************************)
EXTENDS ToolFrames

CONSTANTS
    Registers,  \* the registers tried
    Int32s,     \* bound: the int32_t values typed, as four bytes
    ExecuteIds, \* ST_MPC::ExecuteId
    Codes,      \* error codes the device answers with
    Noise,      \* bytes the line puts in place of others
    Heap        \* bytes that may lie behind a vector

ASSUME RegistersAssumption == Registers \subseteq ToolRegister
ASSUME Int32Assumption == Int32s \subseteq [1 .. 4 -> Byte]
ASSUME BytesAssumption == (ExecuteIds \cup Codes \cup Noise \cup Heap) \subseteq Byte

VARIABLES
    reg,      \* the register
    content,  \* its bytes in the device
    typed,    \* the int32_t of the last set command that succeeded, or <<>>
    phase,    \* "idle", "sent", "answered"
    client,   \* what the exchange is for: one of Clients
    value,    \* the int32_t being set
    request, response,
    flip,     \* the byte the line changed in the response, as <<old, new>>, or <<>>
    output    \* what was last printed or logged

vars == <<reg, content, typed, phase, client, value, request, response, flip, output>>

type == registerTypeMap[reg]

ToolClients == {"tool set", "tool get", "tool exec", "tool ramp"}
Clients == {"set", "get", "exec", "ramp", "log"} \cup ToolClients

Nothing == Printed("nothing", <<>>)

Init ==
    /\ reg \in Registers
    /\ content = [i \in 1 .. Width(type) |-> 0]
    /\ typed = <<>>
    /\ phase = "idle" /\ client = "get"
    /\ value = <<>>
    /\ request = <<>> /\ response = <<>>
    /\ flip = <<>>
    /\ output = Nothing

\* The command line addresses motor 1, the logger's start byte is 0x02: motor 0.
Send(who, v, frame) ==
    /\ phase = "idle"
    /\ phase' = "sent"
    /\ client' = who
    /\ value' = v
    /\ request' = frame
    /\ response' = <<>> /\ flip' = <<>>
    /\ output' = Nothing
    /\ UNCHANGED <<reg, content, typed>>

Set == \E v \in Int32s : Send("set", v, buildSetRegisterFrame(1, reg, v))
Get == Send("get", <<>>, buildGetRegisterFrame(1, reg))
Execute == \E id \in ExecuteIds : Send("exec", <<>>, buildExecuteFrame(1, id))
Ramp == \E v \in Int32s : Send("ramp", <<>>, buildExecuteRampFrame(1, v, SubSeq(v, 1, 2)))
Log == Send("log", <<>>, buildGetRegisterFrame(0, reg))

\* The tool's commands.  When set-register is given no number, what is sent is
\* whatever the int held.
ToolSet == \E v \in Int32s, known \in BOOLEAN :
    Send("tool set", IF known THEN v ELSE <<>>, toolSetRegisterFrame(1, reg, v))
ToolGet == Send("tool get", <<>>, toolGetRegisterFrame(1, reg))
ToolExecute == \E id \in ExecuteIds : Send("tool exec", <<>>, toolExecuteFrame(1, id))
ToolRamp == \E v \in Int32s :
    Send("tool ramp", <<>>, toolExecuteRampFrame(1, v, SubSeq(v, 1, 2)))

\* The device executes an intact request or refuses it; a value that is not as
\* wide as the register it refuses.
DeviceAnswers ==
    /\ phase = "sent"
    /\ phase' = "answered"
    /\ Intact(request)
    /\ \/ \E code \in Codes :
            /\ response' = Sealed(<<Failure, 1, code>>)
            /\ UNCHANGED content
       \/ /\ request[1] % 32 = CommandId["SetRegister"] /\ request[2] = 1 + Width(type)
          /\ content' = SubSeq(request, 4, 2 + request[2])
          /\ response' = Sealed(<<Success, 0>>)
       \/ /\ request[1] % 32 \in {CommandId["Execute"], CommandId["ExecuteRamp"]}
          /\ response' = Sealed(<<Success, 0>>)
          /\ UNCHANGED content
       \/ /\ request[1] % 32 = CommandId["GetRegister"]
          /\ response' = Sealed(<<Success, Len(content)>> \o content)
          /\ UNCHANGED content
    /\ UNCHANGED <<reg, typed, client, value, request, flip, output>>

\* Line noise changes a byte behind the length.
LineFlips ==
    /\ phase = "answered" /\ flip = <<>>
    /\ \E k \in DOMAIN response \ {2}, b \in Noise :
         /\ b # response[k]
         /\ flip' = <<response[k], b>>
         /\ response' = [response EXCEPT ![k] = b]
    /\ UNCHANGED <<reg, content, typed, phase, client, value, request, output>>

\* sendAndProcessResponse, or the tool, prints what the response says; after a response the
\* line changed, what was set is not known.
PrintResponse ==
    /\ phase = "answered" /\ client # "log"
    /\ output' = IF client \in ToolClients THEN interpretToolResponse(response)
                                           ELSE interpretResponse(response)
    /\ typed' = IF client \notin {"set", "tool set"} THEN typed
                ELSE IF flip # <<>> THEN <<>>
                ELSE IF output'.kind = "success" THEN value ELSE typed
    /\ phase' = "idle"
    /\ UNCHANGED <<reg, content, client, value, request, response, flip>>

\* The logger's thread writes a field.
WriteField ==
    /\ phase = "answered" /\ client = "log"
    /\ \E v \in LoggedFields(response, type, Heap) : output' = Printed("logged", v)
    /\ phase' = "idle"
    /\ UNCHANGED <<reg, content, typed, client, value, request, response, flip>>

Next ==
    \/ Set \/ Get \/ Execute \/ Ramp \/ Log
    \/ ToolSet \/ ToolGet \/ ToolExecute \/ ToolRamp
    \/ DeviceAnswers \/ LineFlips \/ PrintResponse \/ WriteField

Spec == Init /\ [][Next]_vars

-----------------------------------------------------------------------------
(* What has to be true of it. *)

TypeOK ==
    /\ reg \in Registers
    /\ content \in [1 .. Width(type) -> Byte]
    /\ typed \in {<<>>} \cup Int32s
    /\ phase \in {"idle", "sent", "answered"} /\ client \in Clients
    /\ \A k \in DOMAIN request : request[k] \in Byte
    /\ \A k \in DOMAIN response : response[k] \in Byte

GotValue(by) == output.kind = "success" /\ client = by /\ flip = <<>>
Fits(v) == ValueOf(SubSeq(v, 1, Width(type)), type) = Reading(v, TRUE)

\* A get after a set shows the number that was typed, if it is one of the
\* register's type, except that an unsigned type's upper half is shown negative
\* (FrameBuilder.cpp:11-30, FrameInterpreter.cpp:21, 51-86).
SetThenGet ==
    GotValue("get") /\ typed # <<>> /\ Fits(typed) /\ (~Signed(type) /\ type # "UInt8" => Last(content) < 128)
        => output.value = Reading(typed, TRUE)

\* So does a get of the tool, after a set of either program, except that the
\* negative half of an Int16 is shown positive and the upper half of a UInt32
\* negative (FrameBuilder.cpp:3-19, CommandHandler.cpp:59-69 and
\* FrameInterpreter.cpp:18-30, all of src/serial).
ToolSetThenGet ==
    GotValue("tool get") /\ typed # <<>> /\ Fits(typed)
    /\ (type \in {"Int16", "UInt32"} => Last(content) < 128)
        => output.value = Reading(typed, TRUE)

\* A changed byte makes the logger leave the field empty, unless it changed
\* between 0x00 and 0xFF, which the sum of both bytes does not always tell
\* apart (FastLogger.cpp:90-94).
NoiseNotLogged ==
    output.kind = "logged" /\ flip # <<>> /\ {flip[1], flip[2]} # {0, 255}
        => output.value = NoField

\* A field shows the value the register has, whatever its type, except that the
\* upper half of a UInt32 is shown negative (FastLogger.cpp:103-131).
LoggedIsValue ==
    output.kind = "logged" /\ flip = <<>> /\ response[1] = Success
    /\ (type = "UInt32" => Last(content) < 128)
        => output.value = ValueOf(content, type)

=============================================================================
