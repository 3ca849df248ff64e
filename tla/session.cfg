SPECIFICATION Spec
CONSTANTS
  SendCodes = {"COMM_SUCCESS", "COMM_ERROR_MALLOC"}
  ReceiveCodes = {"COMM_SUCCESS", "COMM_ERROR_Unpack"}
  PilotStates = {"A", "B", "C", "F", "INVALID"}
  AuthOutcomes = {"Accepted", "Refused", "Timeout", "Error"}
  StartOutcomes = {"Accepted", "Refused", "Lost"}
  TxPending = TRUE
  MaxStart = 2
  Locations = {}
  MaxPages = 0
  ConfirmCodes = {}
  FlashFails = FALSE
  RestartPeriod = 2
  CountWrap = 7
  MayPowerCycle = TRUE
INVARIANTS BootFirst AuthorizedSession TxOnlyIfAuthorized AtMostOneStart
  OneOpenTx SettlementMatchesTx
PROPERTIES SafeStart NoUnsafeCharging
