CONSTANTS
  Topics = {t1, t2}
  MaxTopics = 2
  Viewers = {v1}
  MaxData = 2
SPECIFICATION FairSpec
INVARIANTS
  TypeOK
  SessionComesFirst
  DataFollowsChannel
  StatusIsRight
PROPERTY ChannelsArrive
CHECK_DEADLOCK FALSE
