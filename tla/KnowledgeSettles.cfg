\* One worker, conversions, index calls that outlive their callers.
SPECIFICATION FairSpec
CONSTANTS
  Worker = {w1}
  Conversion = TRUE
  LockFaults = FALSE
  CallsOutlive = TRUE
  DispatchesOverlap = FALSE
  MaxGeneration = 2
  MaxRetries = 1
PROPERTIES OutcomeIsFinal ActiveSettles
CHECK_DEADLOCK FALSE
