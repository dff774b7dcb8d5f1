SPECIFICATION Spec
CONSTANTS
  Scopes = FALSE
  MaxRuns = 2
  MaxFaults = 2
  MaxAsks = 1
  MaxReps = 2
  Invocations = 2
  Options <- CommandLines
INVARIANTS TypeOK MeasuresOwnEngine NothingLeft PublishedIsFit LicensedWithinSession
PROPERTY EveryRunEnds
CHECK_DEADLOCK FALSE
