--------------------------- MODULE EvseInterface ----------------------------
(***************************************************************************)
(* What the SECC sees of the EVSE through EVSE_Interfacer: every exchange  *)
(* is one sendRequest followed by one receiveResponse, each returning a    *)
(* COMM_ERROR_E code.  The handlers only compare a code with COMM_SUCCESS, *)
(* so an exchange has three outcomes: the request is not sent, it is sent  *)
(* but not answered, it is answered.                                       *)
(*                                                                         *)
(* The EVSE board itself is not in the repository.  Its control pilot and  *)
(* connector lock are the variables below; they change at any time and an  *)
(* answer to getEVSEState reports the values they have when it is given.   *)
(***************************************************************************)

CONSTANTS
  SendCodes,      \* the codes sendRequest may return
  ReceiveCodes,   \* the codes receiveResponse may return
  PilotStates     \* the control-pilot values the EVSE may report

VARIABLES
  cp,             \* control pilot: A unplugged, B plugged in, C S2 closed
  lock            \* connector lock

evseVars == <<cp, lock>>

COMM_ERROR_E ==
  {"COMM_SUCCESS", "COMM_ERROR", "COMM_ERROR_MALLOC", "COMM_ERROR_PacketSize",
   "COMM_ERROR_SendSize", "COMM_ERROR_ReceiveTimeout",
   "COMM_ERROR_ReceiveSize", "COMM_ERROR_BadCRC", "COMM_ERROR_Unpack"}

(* CP_STATE_UNKNOWN never reaches a handler: unpack_ProtocolResponse        *)
(* refuses it, as it refuses LOCK_STATE_UNKNOWN.                            *)
CPState == {"A", "B", "C", "D", "E", "F", "INVALID"}
LockState == {"LOCKED", "UNLOCKED"}

ASSUME SendCodesAssumption ==
  SendCodes \subseteq {"COMM_SUCCESS", "COMM_ERROR_MALLOC",
                       "COMM_ERROR_PacketSize", "COMM_ERROR_SendSize"}
ASSUME ReceiveCodesAssumption ==
  ReceiveCodes \subseteq {"COMM_SUCCESS", "COMM_ERROR_ReceiveTimeout",
                          "COMM_ERROR_ReceiveSize", "COMM_ERROR_PacketSize",
                          "COMM_ERROR_Unpack"}
ASSUME PilotStatesAssumption == PilotStates \subseteq CPState

-----------------------------------------------------------------------------
(* The outcomes of one exchange.                                            *)
NotSent == \E code \in SendCodes : code # "COMM_SUCCESS"
Sent == "COMM_SUCCESS" \in SendCodes
Unanswered == Sent /\ \E code \in ReceiveCodes : code # "COMM_SUCCESS"
Answered == Sent /\ "COMM_SUCCESS" \in ReceiveCodes

-----------------------------------------------------------------------------
EvseInit == cp \in PilotStates /\ lock \in LockState

(* The driver plugs in or out, the car opens or closes S2, the EVSE detects *)
(* a fault on the pilot or moves the lock: nothing in the SECC drives it.   *)
EvseChanges ==
  /\ cp' \in PilotStates
  /\ lock' \in LockState
  /\ evseVars' # evseVars

=============================================================================
