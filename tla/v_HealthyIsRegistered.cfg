CONSTANTS
  Services = {"registry", "identity"}
  DependsOn <- MCDependsOn
  MaxSpawn = 2
  Clients = {}
  Commands = {}
  maxFrameSize = 1
  maxReadSize = 1
  Envelope = 1
SPECIFICATION FairSpec
PROPERTY HealthyIsRegistered
CHECK_DEADLOCK FALSE
