CONSTANTS
  Item = {apple, pear}
  MaxCommunities = 2
  MinSize = 2
  IndexMax = 2
  ArchivePct = 10
  MayAbort = FALSE
SPECIFICATION Spec
PROPERTY OnlyActiveKbsIndexed
