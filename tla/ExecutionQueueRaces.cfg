SPECIFICATION Spec
CONSTANTS
  None = None
  Device = {d1}
  Issue = {i1}
  Processor = {p1}
  Channels = {"fenced"}
  Prompt = TRUE
  Admissions = {"queued"}
  Overlapping = {"cancel", "observe"}
  MaxRequests = 1
  MaxRetries = 1
  MaxRows = 3
  MaxCreates = 1
  MaxOpen = 1
  MaxVersion = 2
CHECK_DEADLOCK FALSE
INVARIANTS
  TurnHoldsCapacity
  OutcomeIsProven
  OneRetryPerAttempt
  RunShowsOutcome
PROPERTIES
  TerminalIrreversible
  CancelSticks
  StartedIsNotRequeued
