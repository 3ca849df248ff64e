SPECIFICATION FairSpec
CONSTANTS
  SendCodes = {"COMM_SUCCESS"}
  ReceiveCodes = {"COMM_SUCCESS"}
  PilotStates = {"A", "C", "INVALID"}
  AuthOutcomes = {"Accepted"}
  StartOutcomes = {"Accepted"}
  TxPending = TRUE
  MaxStart = 2
  Locations = {"LPC"}
  MaxPages = 1
  ConfirmCodes = {"COMM_SUCCESS"}
  FlashFails = FALSE
  RestartPeriod = 2
  CountWrap = 5
  MayPowerCycle = FALSE
PROPERTIES BootsToService FinishingSettles UnplugEndsCharging InstalledImageRestarts
