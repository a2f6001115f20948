------------------------------ MODULE ToolFrames ------------------------------
(***************************************************************************)
(* The frames of src/serial, an earlier command line for the same motor    *)
(* controller: its FrameBuilder.cpp, FrameInterpreter.cpp and              *)
(* CommandHandler.cpp.  Frames, checksums and numbers are as in            *)
(* FrameCodec; the tool knows no register's type.                          *)
(***************************************************************************)
EXTENDS FrameCodec

\* registerIdMap
ToolRegister == RegisterId \ {"TargetMotor"}

\* Whatever the register, set-register sends the low 16 bits of an int.
toolSetRegisterFrame(motorID, reg, value) ==
    Frame(motorID, "SetRegister", <<RegisterNumber[reg]>> \o SubSeq(value, 1, 2))
toolGetRegisterFrame(motorID, reg) == Frame(motorID, "GetRegister", <<RegisterNumber[reg]>>)
toolExecuteFrame(motorID, execID) == Frame(motorID, "Execute", <<execID>>)
toolExecuteRampFrame(motorID, finalSpeed, duration) ==
    Frame(motorID, "ExecuteRamp", finalSpeed \o duration)

\* Mutant: the bytes of a payload put together with their sign.
ToolNumber_Signed(digits) == Reading(Extend(digits, 4, TRUE), TRUE)

\* Bytes shifted and added in an int: shorter payloads have no sign.
ToolNumber(digits) == Reading(Extend(digits, 4, FALSE), TRUE)

\* Neither the checksum nor the length is looked at: readFrame has read as many
\* bytes as the length says.
interpretToolResponse(response) ==
    LET length == response[2]
    IN  IF response[1] = Failure THEN Printed("error", <<response[3]>>)
        ELSE IF response[1] # Success THEN Printed("unknown", <<>>)
        ELSE IF length = 0 THEN Printed("success", <<>>)
        ELSE IF length \in {1, 2, 4} THEN Printed("success", ToolNumber(SubSeq(response, 3, 2 + length)))
        ELSE Printed("invalid", <<>>)
=============================================================================
