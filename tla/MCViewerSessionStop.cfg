CONSTANTS
  MaxOps = 1
  MaxRequests = 2
  MaxRefreshes = 0
SPECIFICATION Spec
PROPERTY StopSaves
CHECK_DEADLOCK FALSE
