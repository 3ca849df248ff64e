SPECIFICATION Spec
CONSTANTS
  SendCodes = {"COMM_SUCCESS"}
  ReceiveCodes = {"COMM_SUCCESS"}
  PilotStates = {"A", "C", "F"}
  AuthOutcomes = {"Accepted"}
  StartOutcomes = {"Accepted"}
  TxPending = TRUE
  MaxStart = 2
  Locations = {}
  MaxPages = 0
  ConfirmCodes = {}
  FlashFails = FALSE
  RestartPeriod = 2
  CountWrap = 7
  MayPowerCycle = FALSE
PROPERTY S2Awaited
