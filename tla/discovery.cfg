\* A frame holds the envelope of an answer and no data.
CONSTANTS
  Services = {"registry", "fs"}
  DependsOn <- MCDependsOn
  MaxSpawn = 2
  Clients = {k1}
  Commands <- MCCommands
  maxFrameSize = 1
  maxReadSize = 1
  Envelope = 1
SPECIFICATION FairSpec
INVARIANT TypeOK
PROPERTIES RegistryIsOptional RegistrationLands CommandEnds
