CONSTANTS
  Services = {"fs"}
  DependsOn <- NoDependencies
  MaxCrashes = 2
  CrashChCap = 1
  Requests = {"svc.stop"}
  SpawnCanFail = FALSE
  MaxSpawn = 3
SPECIFICATION FairSpec
INVARIANTS SingleProcess SocketIsCurrent DoneMeansExited NoPanic StopReplyMeansDead
PROPERTY CrashNoticed
PROPERTY CrashRecovered
PROPERTY StopTerminates
