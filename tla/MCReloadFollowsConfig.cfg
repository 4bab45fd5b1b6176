CONSTANTS
  Order <- MCOrder
  Manifest <- MCManifest
  Manager = {m1}
  Builds = 3
  Reloads = 2
  Absent = Absent
SPECIFICATION ReloadSpec
PROPERTY ReloadFollowsConfig
CHECK_DEADLOCK FALSE
