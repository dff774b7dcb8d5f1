SPECIFICATION Spec
CONSTANTS
  Scopes = FALSE
  MaxRuns = 2
  MaxFaults = 2
  MaxAsks = 1
  MaxReps = 2
  Invocations = 2
  Options <- CommandLines
INVARIANT LicensedBySameBuild
CHECK_DEADLOCK FALSE
