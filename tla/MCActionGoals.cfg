CONSTANTS
  MaxGoals = 3
  MaxCommands = 4
SPECIFICATION FairSpec
INVARIANTS
  TypeOK
  HandleIsPending
  AcceptedBeforeOutcome
PROPERTIES
  HandleLeavesForAReason
  HandlerReturns
CHECK_DEADLOCK FALSE
