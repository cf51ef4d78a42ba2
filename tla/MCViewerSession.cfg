CONSTANTS
  MaxOps = 3
  MaxRequests = 3
  MaxRefreshes = 1
SPECIFICATION Spec
INVARIANTS
  TypeOK
  NoHandleLeaks
  ClosedOnlyInTransition
  GatesNeedConsent
PROPERTIES
  DataFromInstalled
  LoadsYield
CHECK_DEADLOCK FALSE
