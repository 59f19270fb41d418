\* A confirmation that ends between its first two writes.
SPECIFICATION Spec
CONSTANTS
  Versions = 3
  Breaking = {2}
  Unresumed = {"confirm"}
  MaxActivations = 2
  MaxWrites = 0
  MaxStops = 0
  MaxQuits = 0
PROPERTIES RollbackIsAsOffered
CHECK_DEADLOCK FALSE
