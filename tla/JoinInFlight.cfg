SPECIFICATION Spec
CONSTANTS
  w1 = w1  w2 = w2
  g1 = g1  g2 = g2  g3 = g3
  s1 = s1  s2 = s2  s3 = s3
  NoOne = NoOne  Builder = Builder  Drainer = Drainer
  NoGraph = NoGraph  NoStore = NoStore
  Workers <- TwoWorkers
  Upserters <- TwoWorkers
  Searchers <- NoWorkers
  Pollers <- TwoWorkers
  Deleters <- NoWorkers
  Capacity = 3
  Graphs <- TwoGraphs
  Stores <- NoStores
  RebuildNum = 1
  RebuildDen = 1
  DrainChunk = 2
  MaxOverwritten = 1
  MaxDeleted = 0
  ParallelBuild = TRUE
  BuildFaults = FALSE
  SpawnFaults = FALSE
  PayloadFaults = FALSE
SYMMETRY FullSymmetry
INVARIANTS
  JoinIsImmediate
