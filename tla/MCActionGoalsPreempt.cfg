CONSTANTS
  MaxGoals = 2
  MaxCommands = 3
SPECIFICATION Spec
INVARIANT NewestGoalIsHeld
CHECK_DEADLOCK FALSE
