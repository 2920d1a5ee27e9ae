SPECIFICATION Spec
CONSTANTS
  Retries = {2}
  MaxCalls = 1
INVARIANT ReconnectRetried
