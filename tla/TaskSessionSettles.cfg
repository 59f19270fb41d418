\* One turn that starts while the tab joins, a refused join, no loss of the socket.
SPECIFICATION FairSpec
CONSTANTS
  Turns = 1
  Length = 1
  Outcomes = {"COMPLETED"}
  FirstOver = FALSE
  MaxJoins = 3
  MaxChecks = 1
  MaxDisconnects = 0
  MaxRefusals = 1
  MaxSelections = 1
PROPERTIES Settles QueuedRecoveryStarts
CHECK_DEADLOCK FALSE
