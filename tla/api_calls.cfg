SPECIFICATION FairSpec
CONSTANTS
  put = put
  patch = patch
  Calls <- MCCalls
  Idempotent <- MCIdempotent
  MaxRetries = 2
  MaxToken = 3
INVARIANTS
  IInv
  RefusedLeavesNothing
PROPERTIES
  PromiseKept
  EveryCallSettles
