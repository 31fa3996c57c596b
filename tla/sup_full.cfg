CONSTANTS
  Services = {"fs"}
  DependsOn <- NoDependencies
  MaxCrashes = 2
  CrashChCap = 1
  Requests = {"svc.start", "svc.stop"}
  SpawnCanFail = TRUE
  MaxSpawn = 2
SPECIFICATION Spec
INVARIANT TypeOK
INVARIANT NoLostCrash
PROPERTY StoppedIsFinal
