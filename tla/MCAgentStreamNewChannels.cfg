CONSTANTS
  Topics = {t1}
  MaxTopics = 1
  Viewers = {v1}
  MaxData = 0
SPECIFICATION Spec
INVARIANT ClientsKnowChannels
CHECK_DEADLOCK FALSE
