SPECIFICATION Spec
CONSTANTS
  Retries = 1
  MaxRequests = 3
  LineHolds = 2
INVARIANT TypeOK
INVARIANT ReadyIsFresh
PROPERTY KeepsOneShot
PROPERTY JobsAreDone
CHECK_DEADLOCK FALSE
