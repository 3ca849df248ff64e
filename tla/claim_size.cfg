SPECIFICATION UpgradeSpec
CONSTANTS
  FileSizes <- CommentImage
  PageSize = 1024
  SizeWrap = 65536
  SendCodes = {"COMM_SUCCESS"}
  ConfirmCodes = {"COMM_SUCCESS"}
  FlashFails = FALSE
INVARIANT SizeAnnounced
