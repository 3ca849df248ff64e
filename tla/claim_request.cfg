SPECIFICATION ReplySpec
CONSTANTS
  CommandID <- CommandNames
  PayloadText <- RequestTexts
  Replies = {}
  Requests <- RfidRequest
  Noise = {}
  StackBytes = {}
INVARIANT RfidRequestAsRecorded
CHECK_DEADLOCK FALSE
