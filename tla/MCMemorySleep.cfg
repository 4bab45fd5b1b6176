CONSTANTS
  Item = {apple, pear}
  MaxCommunities = 2
  MinSize = 2
  IndexMax = 1
  ArchivePct = 10
  MayAbort = TRUE
SPECIFICATION Spec
PROPERTIES
  MemoryKeepsPromise
  EntriesSurvive
  ActiveKbsIndexed
SYMMETRY Symmetry
