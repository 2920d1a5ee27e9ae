SPECIFICATION Spec
CONSTANTS
  Retries <- TwoOrNegative
  MaxCalls = 3
INVARIANTS
  TypeOK
  NoSessionLeaked
  RetryOnOpenConnection
  SendsBounded
  BudgetSpent
PROPERTIES
  CallReturns
  CallAdvances
  ImplementsPromise
