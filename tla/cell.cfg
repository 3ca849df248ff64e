SPECIFICATION FairSpec
CONSTANTS
  Size = 3
  MaxLen = 4
  MaxBytes = 5
  MaxRetry = 2
  FlushChunk = 2
INVARIANTS Inv CopyIsBuffered WriteReports WriteIsStubborn
PROPERTIES ShortReadMeansSilence CallsAdvance CallsReturn ImplementsQueue
