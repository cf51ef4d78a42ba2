CONSTANTS
  MaxOps = 3
  MaxRequests = 3
  MaxRefreshes = 0
SPECIFICATION Spec
PROPERTY NewestRequestOwns
CHECK_DEADLOCK FALSE
