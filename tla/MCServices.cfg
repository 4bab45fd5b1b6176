CONSTANTS
  Stimulus <- MCStimulus
  MaxQueue = 4
  Text = {x}
  Krakey = Krakey
  Tab = {b1, b2}
  Sends = 2
  Loads = 2
  Order <- MCOrder
  Bundle <- MCBundle
  Manager = {m1}
  Builds = 4
  Reloads = 2
  Absent = Absent
  BrowserCall = {c1, c2}
  Servers = 1
  McpCall = {c1, c2}
  Reconnect = TRUE
  Transports = 3
  Name = {"x", "y", "z"}
  Category = {"FACT", "FOCUS"}
  Extraction <- MCExtraction
  NodeMax = 4
  Writes = 3
  Url = {"u"}
  NoUrl = NoUrl
  Wants = {1, 3, 9}
  Cap = 3
  Default = 4
  MaxPages = 2
  PageSize = 2
  Length = 4
  Launches = 2
  Terminal = {t1}
  Nobody = Nobody
  ShellCommand = {c1}
  AllowList = {"local", "sandbox"}
  Starts = 3
  Short = {"a", "b"}
  Plugged = {"p"}
  Unit = {"plugin", "engine"}
  EngineUnit = {"engine"}
  PipSpec = {"s"}
  Installer = {"cli", "dashboard"}
  NoRecord = NoRecord
  Edits = 1
  Tokens = {1024, 8192}
  Retries = {0, 2}
  RetryOn = {"429"}
  KeepLast = 1
  Editions = 3
  Seconds = 1
SPECIFICATION ServicesSpec
INVARIANTS
  ServicesTypeOK
  EventsExact
  FileIsCache
  WholeAtRest
  AnswersAreTrue
  AtMostOneRetry
  AcyclicUnlessRaced
  SearchIsExhaustive
  NoCallLostSilently
  LaunchIsClean
  RetryIsInformed
  DamageDegrades
  NothingPendingIsMissing
  RepeatsOnlyTransient
PROPERTIES
  EdgesJoinTheLinked
  TimedPauseEnds
  
CHECK_DEADLOCK FALSE
