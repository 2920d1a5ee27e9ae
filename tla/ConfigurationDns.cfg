SPECIFICATION Spec
CONSTANTS
  Given <- AllGiven
  Environments <- AllEnvironments
  Templates <- AllTemplates
INVARIANT DnsServersReachGuest
