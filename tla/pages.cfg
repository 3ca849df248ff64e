SPECIFICATION FairUpgradeSpec
CONSTANTS
  FileSizes <- SmallImages
  PageSize = 3
  SizeWrap = 8
  SendCodes = {"COMM_SUCCESS", "COMM_ERROR_SendSize"}
  ConfirmCodes = {"COMM_SUCCESS", "COMM_ERROR_ReceiveTimeout"}
  FlashFails = TRUE
INVARIANTS UpgradeTypeOK PagesMatch ImageRebuilt
PROPERTIES LoopAdvances LoopReturns ImplementsPush
