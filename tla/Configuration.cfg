SPECIFICATION Spec
CONSTANTS
  Given <- AllGiven
  Environments <- AllEnvironments
  Templates <- AllTemplates
INVARIANTS
  TypeOK
  AcceptedIffDocumented
  MeetsAssumptions
  
  RequestsAsDocumented
