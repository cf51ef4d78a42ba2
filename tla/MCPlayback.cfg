SPECIFICATION Spec
CONSTANTS
  StaleAge = 6
  NoFrame = NoFrame
  Grain = 2
  Shift = 100
  NoBlob = NoBlob
  Garbled = Garbled
  NoManifest = NoManifest
  NoRequest = NoRequest
  Step = 4
  Lead = 6
  TickTime = 12
  MaxOps = 2
  MaxGestures = 1
  Files <- MCFiles
  Corrupt <- MCCorrupt
  Openings <- MCOpenings
  Caches <- MCCaches
  Requests <- MCRequests
  FixedFrames <- MCFrames
  Seeks <- MCSeeks
  Explored <- MCExplored
INVARIANTS
  TypeOK
  ExplanationFits
PROPERTIES
  AnswersAreTrue
  MarkersAreTrue
  OnlyFailuresForget
  InspectionCatchesUp
CHECK_DEADLOCK FALSE
