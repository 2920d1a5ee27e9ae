SPECIFICATION Spec
CONSTANTS
  Retries = {2}
  MaxCalls = 2
INVARIANT RetriedRequestOnOpenConnection
