CONSTANTS
  Topics = {t1, t2}
  Channels = {c1}
  Times <- MCTimes
  Ranges <- MCRanges
  MaxPerTopic = 2
  MaxCached = 1
  MaxMessages = 3
  MaxRevision = 5
  MaxQueries = 2
SYMMETRY MCSymmetry
SPECIFICATION Spec
INVARIANTS
  TypeOK
  IndexMatchesStore
  AnswersAreCurrent
  StatsCoverWindows
PROPERTY HoldsTheLatest
CHECK_DEADLOCK FALSE
