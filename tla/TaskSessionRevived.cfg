\* A turn that ends between the reads of a join and its answer.
SPECIFICATION FairSpec
CONSTANTS
  Turns = 1
  Length = 1
  Outcomes = {"COMPLETED"}
  FirstOver = FALSE
  MaxJoins = 2
  MaxChecks = 0
  MaxDisconnects = 0
  MaxRefusals = 0
  MaxSelections = 1
PROPERTIES OverEndsItsStream
CHECK_DEADLOCK FALSE
