CONSTANTS
  MaxArrivals = 2
  Arrivals <- MCArrivals
  MaxRecallRetries = 1
SPECIFICATION Spec
INVARIANTS
  CommandsOutOfBand
  NoDuplicateWaiting
  PreloadMatchesPeeked
  BoundedRedelivery
PROPERTIES
  UnseenLeavesOnlyBySleepOrStop
