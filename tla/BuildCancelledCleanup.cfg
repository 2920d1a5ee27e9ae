SPECIFICATION Spec
CONSTANTS
  SourceNics = {n1, n2}
  NewNic = n3
  Clones = {c1, c2}
  ClonePolls = 2
  Configs <- FullConfigs
  MaxFaults = 0
  Environment = {"cancel"}
INVARIANT KnownVMDeleted
