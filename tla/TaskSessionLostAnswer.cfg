\* The loss of the socket during a join.
SPECIFICATION FairSpec
CONSTANTS
  Turns = 1
  Length = 1
  Outcomes = {"COMPLETED"}
  FirstOver = FALSE
  MaxJoins = 3
  MaxChecks = 0
  MaxDisconnects = 1
  MaxRefusals = 0
  MaxSelections = 1
PROPERTIES Settles
CHECK_DEADLOCK FALSE
