\* One exchange after another over the SPI port, across the clock's wrap.
CONSTANTS
  ClockWrap = 24
  Timeout = 10
  RxPeriod = 4
  MaxLag = 2
SPECIFICATION Spec
INVARIANTS BlocksBriefly SpiOutcomes
PROPERTY ExchangeReturns
