CONSTANTS
  MaxRounds = 6
  Sizes = {1, 5}
  Backlog = 5
  CompactThreshold = 4
  MaxHistoryRounds = 2
  MaxPops = 2
  MaxPrunes = 2
  Chunks = 2
  DiskMayFail = TRUE
SPECIFICATION Spec
INVARIANTS
  TypeOK
  NoResurrection
  ConsolidatedIsOlder
  WindowBounded
PROPERTIES
  LossesAreKnown
  BacklogShrinks
