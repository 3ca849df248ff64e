\* A claim about an exchange, refuted.
CONSTANTS
  ClockWrap = 24
  Timeout = 10
  RxPeriod = 4
  MaxLag = 2
SPECIFICATION Spec
INVARIANT AnswersAreAccepted
