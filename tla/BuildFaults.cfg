SPECIFICATION Spec
CONSTANTS
  SourceNics = {n1, n2}
  NewNic = n3
  Clones = {c1, c2}
  ClonePolls = 2
  Configs <- AllConfigs
  MaxFaults = 3
  Environment <- Everything
INVARIANTS
  TypeOK
  ArtifactSound
  FailureReported
  LeftoverAnnounced
  CleanSuccess
  BootDiskReady
  RemoveOnlyStopped
  EngineReady
PROPERTIES
  BuildAdvances
  ImplementsPromise
  Terminates
  CancelReturns
