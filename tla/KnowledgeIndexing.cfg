\* Two workers, two generations, conversions; a live lock stays with its
\* holder and an index call ends with its caller.
SPECIFICATION Spec
CONSTANTS
  Worker = {w1, w2}
  Conversion = TRUE
  LockFaults = FALSE
  CallsOutlive = FALSE
  DispatchesOverlap = FALSE
  MaxGeneration = 2
  MaxRetries = 1
SYMMETRY Symmetry
INVARIANTS TypeOK OneWriter SuccessServesItsGeneration DeletedLeavesNoChunks
CHECK_DEADLOCK FALSE
