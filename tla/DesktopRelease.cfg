\* Four versions, two of them change the schema; the machine stops twice.
SPECIFICATION FairSpec
CONSTANTS
  Versions = 4
  Breaking = {2, 4}
  Unresumed = {}
  MaxActivations = 2
  MaxWrites = 1
  MaxStops = 2
  MaxQuits = 1
INVARIANTS TypeOK DataIsReadable NothingIsLost RollbackIsPossible
PROPERTIES RollbackIsAsOffered TriedOnce HealthyStays ActivationEnds
CHECK_DEADLOCK FALSE
