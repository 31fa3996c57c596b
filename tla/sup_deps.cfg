CONSTANTS
  Services = {"identity", "fs"}
  DependsOn <- FsNeedsIdentity
  MaxCrashes = 2
  CrashChCap = 1
  Requests = {}
  SpawnCanFail = TRUE
  MaxSpawn = 2
SPECIFICATION Spec
INVARIANT StartAllOrder
PROPERTY ImplementsLifecycle
