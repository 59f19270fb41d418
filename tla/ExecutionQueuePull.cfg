SPECIFICATION FairSpec
CONSTANTS
  None = None
  Device = {d1}
  Issue = {i1}
  Processor = {p1}
  Channels = {"pull", "fenced"}
  Prompt = FALSE
  Admissions = {"queued", "pending_approval", "waiting_runtime"}
  Overlapping = {}
  MaxRequests = 1
  MaxRetries = 0
  MaxRows = 1
  MaxCreates = 1
  MaxOpen = 0
  MaxVersion = 1
CHECK_DEADLOCK FALSE
INVARIANTS
  RunShowsOutcome
  OutcomeHasAnEnd
PROPERTIES
  CancelSticks
  CancelSettles
  StaleResolves
