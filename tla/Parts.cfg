SPECIFICATION PartsSpec
CONSTANTS
  Table <- BenchTable
  SweptNames <- BenchSwept
  Encodings <- BenchEncodings
  DataFiles <- DatasetFiles
  ArchiveFile = "archive"
  RunRows <- SomeRows
  RowPasses = 2
  GateRetries = 1
  DirtyRetries = 1
  MaxOdd = 3
  FoldPasses = 3
  QpsValues = {90, 95, 100, 104, 110, 120}
  MaxOddities = 2
  Band = 10
  RecallTol = 1
  RecallFloor = 50
  Threads = {1, 2}
  Founders = {1}
  CoverageFloor = 2
  MaxWork = 2
  MaxUpsets = 1
  Budget = 1
  MaxBursts = 3
  MaxEvents = 2
  Cpus = {1, 2}
  MaxMeddling = 2
  ParamSets = {"none", "rescore"}
  Grades = {"none", "sel1"}
  MaxSweeps = 2
  MaxSinkTimes = 4
  Stems = {"sm", "qd"}
  MaxPass = 1
  MaxDay = 1
  MaxNotes = 1
  RetainDays = 1
  MaxFolds = 2
  SessionReps = 2
  MaxTroubles = 3
  MaxLaunches = 3
  ChainSteps <- SomeSteps
  MaxPolls = 4
  MaxShifts = 2
  MaxClock = 4
  MaxTreeEdits = 2
  MaxPageTimes = 4
INVARIANTS PartsTyped NothingReadAfterDrop MeasuredAsUploaded ArmKeepsOrder FoldsSaySo VerdictIsFair
INVARIANTS CountersAreTheRows HostIsSeen SetUpIsEnough RecallIsTheRows SinkIsFaithful PageIsFaithful
INVARIANTS ResultsAreKept ArmsAndGatesAreNamed RunJsonIsTheServer
CHECK_DEADLOCK FALSE
