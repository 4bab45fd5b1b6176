CONSTANTS
  MaxArrivals = 2
  Arrivals <- LiveArrivals
  MaxRecallRetries = 1
SPECIFICATION FairSpec
PROPERTIES
  UrgentIsTakenUp
  StopIsHonoured
  NothingIsStuck
