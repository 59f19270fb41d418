SPECIFICATION Spec
CONSTANTS
  None = None
  Device = {d1, d2}
  Issue = {i1}
  Processor = {p1}
  Channels = {"fenced"}
  Prompt = TRUE
  Admissions = {"queued"}
  Overlapping = {}
  MaxRequests = 2
  MaxRetries = 0
  MaxRows = 2
  MaxCreates = 1
  MaxOpen = 0
  MaxVersion = 1
CHECK_DEADLOCK FALSE
SYMMETRY Interchangeable
INVARIANTS
  TypeOK
  OneHolderPerScope
  OneDevicePerIssue
