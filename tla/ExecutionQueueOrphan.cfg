SPECIFICATION Spec
CONSTANTS
  None = None
  Device = {d1}
  Issue = {i1}
  Processor = {p1}
  Channels = {"pull"}
  Prompt = TRUE
  Admissions = {"queued"}
  Overlapping = {}
  MaxRequests = 1
  MaxRetries = 0
  MaxRows = 1
  MaxCreates = 1
  MaxOpen = 1
  MaxVersion = 2
CHECK_DEADLOCK FALSE
INVARIANTS
  TurnHoldsCapacity
