\* A finished turn and the next one, one loss of the socket, the tab may leave.
SPECIFICATION Spec
CONSTANTS
  Turns = 2
  Length = 3
  Outcomes = {"COMPLETED", "FAILED", "CANCELLED"}
  FirstOver = TRUE
  MaxJoins = 3
  MaxChecks = 0
  MaxDisconnects = 1
  MaxRefusals = 0
  MaxSelections = 2
INVARIANTS TypeOK TextIsProduced JoiningIsUnderWay
PROPERTIES OverIsReopenedByATurn TextNeverShrinks Recovers
CHECK_DEADLOCK FALSE
