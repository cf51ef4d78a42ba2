SPECIFICATION Spec
CONSTANTS
  NaN = NaN
  Null = Null
  NoParam = NoParam
  BadParam = BadParam
  MinSpan = 2
  MaxAxes = 1
  MaxPoints = 4
  MaxDerived = 2
  MaxGrowth = 2
  MaxEvents = 4
  Recordings <- MCRecordings
  FieldsOf <- MCFieldsOf
  Preferred <- MCPreferred
  PointsOf <- MCPointsOf
  SpanOf <- MCSpanOf
  OriginOf <- MCOriginOf
  Colors <- MCColors
  NewDerived <- MCNewDerived
  Drags <- MCDrags
  Turns <- MCTurns
  InitialUrls <- MCInitialUrls
INVARIANTS
  TypeOK
  SettledShowsCurrent
  PlotShowsRange
  PageSurvivesReload
  SeriesAreTrue
CHECK_DEADLOCK FALSE
