CONSTANTS
  Name = {"x", "y", "z"}
  Category = {"FACT", "FOCUS"}
  Extraction <- MCExtraction
  NodeMax = 3
  Jobs = 3
SPECIFICATION GraphSpec
INVARIANT GraphStaysAcyclic
CHECK_DEADLOCK FALSE
