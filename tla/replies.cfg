SPECIFICATION ReplySpec
CONSTANTS
  CommandID <- CommandNames
  PayloadText <- RequestTexts
  Replies <- RecordedReplies
  Requests <- RecordedRequests
  Noise <- BurstsOrScattered
  StackBytes <- ZeroBytes
INVARIANTS CopyFits NoiseRefused RecordedAccepted RequestsAsRecorded
  BurstRefused OddRefused
CHECK_DEADLOCK FALSE
