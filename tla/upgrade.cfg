SPECIFICATION Spec
CONSTANTS
  SendCodes = {"COMM_SUCCESS", "COMM_ERROR_MALLOC"}
  ReceiveCodes = {"COMM_SUCCESS"}
  PilotStates = {"B", "C"}
  AuthOutcomes = {"Accepted", "Timeout"}
  StartOutcomes = {"Accepted", "Refused", "Lost"}
  TxPending = FALSE
  MaxStart = 2
  Locations = {"LPC", "ESP", "Other"}
  MaxPages = 2
  ConfirmCodes = {"COMM_SUCCESS", "COMM_ERROR_ReceiveTimeout"}
  FlashFails = TRUE
  RestartPeriod = 2
  CountWrap = 7
  MayPowerCycle = TRUE
INVARIANTS Inv PagesInOrder
PROPERTIES OneSessionPerBoot OneImagePerBoot ImplementsSession
