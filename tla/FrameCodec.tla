------------------------------ MODULE FrameCodec ------------------------------
(***************************************************************************)
(* The frames of serial-claude: FrameBuilder.cpp, FrameInterpreter.cpp,    *)
(* the tables of CommandHandler.cpp and the decoding in FastLogger.cpp.    *)
(*                                                                         *)
(* A frame is a sequence of bytes.  Numbers are two's complement digits,   *)
(* least significant byte first: a register's content is as many bytes as  *)
(* its type is wide, an int32_t four, and a reading, which is what the     *)
(* program prints, five, so that every value of every type is one reading. *)
(***************************************************************************)
EXTENDS Integers, Sequences, SequencesExt

Byte == 0 .. 255

RegisterType == {"UInt8", "Int16", "UInt16", "Int32", "UInt32"}
Width(type) == CASE type = "UInt8" -> 1
                 [] type \in {"Int16", "UInt16"} -> 2
                 [] type \in {"Int32", "UInt32"} -> 4
Signed(type) == type \in {"Int16", "Int32"}

\* ST_MPC::RegisterId and registerTypeMap; a gain (Kp, Ki, Kd) is a UInt16.
Gains == {"SpeedKp", "SpeedKi", "SpeedKd", "TorqueKp", "TorqueKi", "TorqueKd",
          "FluxKp", "FluxKi", "FluxKd"}
RegisterNumber ==
    [TargetMotor |-> 0, Flags |-> 1, Status |-> 2, ControlMode |-> 3, SpeedRef |-> 4,
     SpeedKp |-> 5, SpeedKi |-> 6, SpeedKd |-> 7, TorqueRef |-> 8, TorqueKp |-> 9,
     TorqueKi |-> 10, TorqueKd |-> 11, FluxRef |-> 12, FluxKp |-> 13, FluxKi |-> 14,
     FluxKd |-> 15, MotorPower |-> 27, SpeedMeas |-> 30, TorqueMeas |-> 31,
     FluxMeas |-> 32, RampFinalSpeed |-> 91, RampDuration |-> 92]
RegisterId == DOMAIN RegisterNumber
registerTypeMap == [r \in RegisterId |->
    CASE r \in {"TargetMotor", "Status", "ControlMode"} -> "UInt8"
      [] r = "Flags" -> "UInt32"
      [] r \in {"SpeedRef", "SpeedMeas", "RampFinalSpeed"} -> "Int32"
      [] r \in {"TorqueRef", "FluxRef", "TorqueMeas", "FluxMeas"} -> "Int16"
      [] r \in Gains \cup {"MotorPower", "RampDuration"} -> "UInt16"]

-----------------------------------------------------------------------------
(* Numbers. *)

\* digits, extended to n bytes with their sign or with zeros
Extend(digits, n, signed) ==
    LET fill == IF signed /\ digits[Len(digits)] >= 128 THEN 255 ELSE 0
    IN  [i \in 1 .. n |-> IF i <= Len(digits) THEN digits[i] ELSE fill]

Reading(digits, signed) == Extend(digits, 5, signed)

\* the value a register of this type has
ValueOf(raw, type) == Reading(raw, Signed(type))

-----------------------------------------------------------------------------
(* The checksum: a uint16_t sum whose two bytes are added into a uint8_t. *)

Total(bytes) ==
    LET total[k \in 0 .. Len(bytes)] == IF k = 0 THEN 0 ELSE total[k - 1] + bytes[k]
    IN  total[Len(bytes)]

\* Mutant: the sum of the two bytes is not cut to a byte.
Checksum_Wide(total) == LET t == total % 65536 IN (t % 256) + (t \div 256)

Checksum(total) == LET t == total % 65536 IN ((t % 256) + (t \div 256)) % 256

calculateCRC(bytes) == Checksum(Total(bytes))
Sealed(bytes) == Append(bytes, calculateCRC(bytes))

\* Mutant: the checksum is not compared.
Intact_Unchecked(frame) == TRUE

Intact(frame) == Last(frame) = calculateCRC(Front(frame))

-----------------------------------------------------------------------------
(* FrameBuilder: <start> <payload length> <payload ...> <crc>. *)

CommandId == [SetRegister |-> 1, GetRegister |-> 2, Execute |-> 3, ExecuteRamp |-> 7]

Frame(motorID, command, payload) ==
    Sealed(<<((motorID * 32) % 256) + CommandId[command], Len(payload)>> \o payload)

\* Mutant: most significant byte first.
buildSetRegisterFrame_BigEndian(motorID, reg, value) ==
    Frame(motorID, "SetRegister",
          <<RegisterNumber[reg]>> \o Reverse(SubSeq(value, 1, Width(registerTypeMap[reg]))))

\* value is the int32_t of the command, cut to the width of the register
buildSetRegisterFrame(motorID, reg, value) ==
    Frame(motorID, "SetRegister",
          <<RegisterNumber[reg]>> \o SubSeq(value, 1, Width(registerTypeMap[reg])))
buildGetRegisterFrame(motorID, reg) ==
    Frame(motorID, "GetRegister", <<RegisterNumber[reg]>>)
buildExecuteFrame(motorID, execID) == Frame(motorID, "Execute", <<execID>>)
buildExecuteRampFrame(motorID, finalSpeed, duration) ==
    Frame(motorID, "ExecuteRamp", finalSpeed \o duration)

-----------------------------------------------------------------------------
(* FrameInterpreter: what the command line prints of a response. *)

Success == 240
Failure == 255

Printed(kind, value) == [kind |-> kind, value |-> value]

\* The payload of two bytes is an int16_t, any other at most four bytes of an
\* int32_t; value -= 4294967296 changes nothing after the conversion back.
interpretSuccessResponse(response) ==
    LET length == response[2]
        digits == SubSeq(response, 3, IF length < 4 THEN 2 + length ELSE 6)
    IN  IF length = 0 THEN Printed("success", <<>>)
        ELSE IF length = 2 THEN Printed("success", Reading(digits, TRUE))
        ELSE Printed("success", Reading(Extend(digits, 4, FALSE), TRUE))

\* The checksum is not looked at.
interpretResponse(response) ==
    IF Len(response) < 3 \/ Len(response) # response[2] + 3 THEN Printed("invalid", <<>>)
    ELSE IF response[1] = Success THEN interpretSuccessResponse(response)
    ELSE IF response[1] = Failure THEN Printed("error", <<response[3]>>)
    ELSE Printed("unknown", <<>>)

-----------------------------------------------------------------------------
(* FastLogger::loggingThread: the field written for a response. *)

NoField == <<>>

\* The bytes the decoding of a type indexes: nothing compares their number with
\* the payload, and past the vector's end there may be any byte of heap.
Indexed(response, type, heap) ==
    {[i \in 1 .. Width(type) |-> IF i + 2 <= Len(response) THEN response[i + 2] ELSE h] :
        h \in heap}

\* Mutant: the bytes put together without the cast to the register's type.
loggedValue_Uncast(digits, type) ==
    Reading(Extend(digits, 4, FALSE), TRUE)

\* value is an int32_t: a UInt32 goes through it.
loggedValue(digits, type) ==
    Reading(Extend(digits, 4, Signed(type)), TRUE)

\* The fields that may be written; start byte 0xFF is not told from 0xF0.
LoggedFields(response, type, heap) ==
    IF Len(response) >= 4 /\ response[2] + 3 = Len(response) /\ Intact(response)
    THEN {loggedValue(d, type) : d \in Indexed(response, type, heap)}
    ELSE {NoField}
=============================================================================
