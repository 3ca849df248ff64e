---------------------------- MODULE ProtocolEVSE ----------------------------
(***************************************************************************)
(* How a packet that is held to be the reply to a command is checked: the  *)
(* unpack_ProtocolResponse functions (ProtocolEVSE.cpp) and the code that  *)
(* receiveResponse (evseInterface.hpp) makes of their result.              *)
(*                                                                         *)
(* A packet is what the checks look at: the length it states, whether its  *)
(* CRC agrees, the command it names, the keys of its JSON object ("none"   *)
(* when the payload is not JSON) and the keys whose value is as it should. *)
(***************************************************************************)
EXTENDS Integers

(* The commands the SECC sends whose reply is unpacked.                     *)
Commands == {"gettime", "settime", "gconevse", "gsysstat", "grfstate"}

Keys == {"currentTime", "powerLimit", "PP", "CP", "Lock", "RFIDState", "RFID"}

(* IFRX_BUFFER_SIZE, and the bytes of a packet that are not its payload.    *)
BufferSize == 256
Overhead == 11 + 2

(* UnpackError_*; UnpackError_Success stands for the length it returns.     *)
UnpackError ==
  {"BadValueCheck", "BadValue", "Misskey", "WrongCommand", "BadJson",
   "BadCRC", "BadSize", "Success"}

(* evsePayloadSize; 0: as long as the packet says.                          *)
evsePayloadSize(cmd) == IF cmd \in {"gettime", "settime"} THEN 37 ELSE 0

(* Only the reply to getTime leaves room for the rest of the packet.        *)
MaxPayload(cmd) ==
  IF cmd = "gettime" THEN BufferSize - Overhead ELSE BufferSize

RequiredKeys(cmd) ==
  CASE cmd \in {"gettime", "settime"} -> {"currentTime"}
    [] cmd = "gconevse" -> {"powerLimit"}
    [] cmd = "gsysstat" -> {"PP", "CP", "Lock"}
    [] cmd = "grfstate" -> {"RFIDState", "RFID"}

(* The keys whose value is looked at: a date and time, the enumerations PP, *)
(* CP and Lock.                                                             *)
CheckedKeys(cmd) ==
  IF cmd \in {"gettime", "settime", "gsysstat"} THEN RequiredKeys(cmd) ELSE {}

-----------------------------------------------------------------------------
PAGE_SIZE == 1024

(* Mutant: the terminating zero of the time string is packed as well.       *)
PackedSizeWithZero(request) ==
  CASE request \in {"gettime", "gsysstat"} -> 0
    [] request = "settime" -> 38
    [] request = "gconevse" -> 22
    [] request = "grfstate" -> 21
    [] request = "upgrade" -> PAGE_SIZE * 3 + 1

(* The size packet_ProtocolRequest gives the payload: the text of the keys  *)
(* asked for, three characters for each byte of a page.                     *)
PackedSize(request) ==
  CASE request \in {"gettime", "gsysstat"} -> 0
    [] request = "settime" -> 37
    [] request = "gconevse" -> 22
    [] request = "grfstate" -> 21
    [] request = "upgrade" -> PAGE_SIZE * 3 + 1

-----------------------------------------------------------------------------
HasKeys(cmd, packet) == RequiredKeys(cmd) \subseteq packet.keys

Checks(cmd, packet) ==
  <<packet.length <= MaxPayload(cmd), packet.crcAgrees, packet.command = cmd,
    packet.isJson, HasKeys(cmd, packet),
    "currentTime" \in CheckedKeys(cmd) => packet.isString,
    CheckedKeys(cmd) \subseteq packet.plausible>>

CheckErrors ==
  <<"BadSize", "BadCRC", "WrongCommand", "BadJson", "Misskey", "BadValue",
    "BadValueCheck">>

(* The first check that fails decides.                                      *)
unpack_ProtocolResponse(cmd, packet) ==
  LET failed == {i \in DOMAIN CheckErrors : ~Checks(cmd, packet)[i]}
  IN  IF failed = {} THEN "Success"
      ELSE CheckErrors[CHOOSE i \in failed : \A j \in failed : i <= j]

(* What receiveResponse returns for a packet it found in its buffer.        *)
ResponseCode(cmd, packet) ==
  LET ret == unpack_ProtocolResponse(cmd, packet)
      expected == IF evsePayloadSize(cmd) # 0 THEN evsePayloadSize(cmd)
                                              ELSE packet.length
  IN  CASE ret # "Success" -> "COMM_ERROR_Unpack"
        [] ret = "Success" /\ packet.length # expected
             -> "COMM_ERROR_PacketSize"
        [] OTHER -> "COMM_SUCCESS"

(* The buffer as receiveResponse clears it: the CRC-16 of eleven zero bytes *)
(* is not zero, so the two bytes after them do not agree with it.           *)
EmptyBuffer ==
  [length |-> 0, crcAgrees |-> FALSE, command |-> "none", isJson |-> FALSE,
   keys |-> {}, isString |-> FALSE, plausible |-> {}]

=============================================================================
