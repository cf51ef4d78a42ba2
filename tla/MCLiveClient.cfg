CONSTANTS
  service = service
  goal = goal
  Kinds = {service, goal}
  MaxRequests = 3
  MaxInbound = 1
SPECIFICATION FairSpec
INVARIANTS
  TypeOK
  ClosedIsQuiescent
  TimerGuardsItsSlot
  MismatchNeedsTimeout
  DirtyIsScheduled
PROPERTIES
  SettledForever
  CallsSettle
  ConnectSettles
CHECK_DEADLOCK FALSE
