CONSTANTS
  Unit <- AllUnits
  Plans <- AllPlans
SPECIFICATION Spec
INVARIANTS TypeOK OneSentinel DrainsOnlyRetryable StallSound VerdictSound
PROPERTIES Terminates NoneStarved
CHECK_DEADLOCK FALSE
