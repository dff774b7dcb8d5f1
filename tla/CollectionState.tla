--------------------------- MODULE CollectionState ---------------------------
(***************************************************************************)
(* The shared state of one Collection (src/core/collection.zig): the rows  *)
(* published so far, the HNSW graph and the quantized store that serve     *)
(* them, the index state machine and the locks, together with the local    *)
(* state of the threads that work on them: request workers, the build      *)
(* thread and the tail drainer.  The modules Ingest, IndexBuild and        *)
(* SearchPath hold their actions and Collection composes them.             *)
(*                                                                         *)
(* A row's vector is not represented.  What a graph or a store holds for a *)
(* row is one of three values: nothing, the row at the vector it has now,  *)
(* or the row at a vector that has been overwritten since.                 *)
(***************************************************************************)
EXTENDS Integers, FiniteSets

CONSTANTS
  Workers,        \* request threads of the pool
  Upserters,      \* the workers that may serve Upsert
  Searchers,      \* the workers that may serve Search
  Pollers,        \* the workers that may reach ensureIndexBuilding
  Deleters,       \* the workers that may serve Delete
  Capacity,       \* Config.capacity, the rows the arena has room for
  Graphs,         \* the graph allocations the heap has room for
  Stores,         \* the quantized store allocations; empty: quant_mode none
  RebuildNum,     \* rebuild_ratio is RebuildNum / RebuildDen
  RebuildDen,
  DrainChunk,     \* drain_chunk
  MaxOverwritten, \* bound on overwritten_since_build
  MaxDeleted,     \* bound on the tombstoned rows
  ParallelBuild,  \* Engine.build_mode is .parallel
  BuildFaults,    \* whether a build may fail: no memory, cancelled
  SpawnFaults,    \* whether std.Thread.spawn may fail
  PayloadFaults   \* whether payload.set may reject a point

CONSTANTS NoOne, Builder, Drainer   \* owners of a lock that are not workers
CONSTANTS NoGraph, NoStore          \* null pointers

ASSUME RolesAssumption ==
  /\ Upserters \cup Searchers \cup Pollers \cup Deleters \subseteq Workers
  /\ {NoOne, Builder, Drainer} \cap Workers = {}
  /\ NoOne # Builder /\ NoOne # Drainer /\ Builder # Drainer
ASSUME HeapAssumption ==
  /\ NoGraph \notin Graphs /\ NoStore \notin Stores
  /\ IsFiniteSet(Workers)
ASSUME BoundsAssumption ==
  /\ Capacity \in Nat /\ MaxOverwritten \in Nat /\ MaxDeleted \in Nat
  /\ RebuildNum \in Nat \ {0} /\ RebuildDen \in Nat \ {0}
  /\ DrainChunk \in Nat \ {0}
ASSUME FaultsAssumption ==
  /\ BuildFaults \in BOOLEAN /\ SpawnFaults \in BOOLEAN
  /\ PayloadFaults \in BOOLEAN /\ ParallelBuild \in BOOLEAN

Rows == 0 .. Capacity - 1
Quantized == Stores # {}

\* What a graph or a store holds for a row.
Pos == {"none", "current", "stale"}
Blank == [r \in Rows |-> "none"]

VARIABLES
  next,                    \* id_space.next: rows published
  deleted,                 \* the tombstone bitmap
  graph,                   \* the published graph, or NoGraph
  graph_count,             \* its count as published beside the pointer
  count,                   \* count[g]: the field count of graph g
  node,                    \* node[g][r]: what graph g holds for row r
  heap,                    \* graphs that are allocated
  retired_graphs,
  quant,                   \* the published store, or NoStore
  code,                    \* code[s][r]: what store s holds for row r
  qheap,                   \* stores that are allocated
  retired_quant,
  index_state,
  overwritten_since_build,
  overwrite_log,
  overwrite_log_active,
  in_place_updates,
  drain_to,
  drain_running,
  write_lock,              \* the owner of each mutex, or NoOne
  index_writer,
  build_thread_lock

VARIABLES                  \* local to a worker
  pc,                      \* where each worker is
  row,                     \* the row it holds write_lock to overwrite
  written,                 \* its batch has written at least one point
  seen,                    \* the count needsRebuild loaded
  hgraph, hstore,          \* the graph and the store its search holds
  covered,                 \* the count its search loaded
  hits,                    \* rows its traversal admitted
  tail,                    \* rows its tail scan or brute force compared
  start                    \* history: rows published when its search began

VARIABLES                  \* local to the build thread and the drainer
  bpc,                     \* where the build thread is
  n,                       \* the rows this build covers
  newg, newq, oldg,        \* the graph and the store it makes, the one replaced
  moved,                   \* rows it replayed from the log, until they are counted
  to_link, to_encode,      \* the rows it has left to link, to encode
  dpc,                     \* where the drainer is
  drain_end, to_drain      \* its chunk: where it ends, the rows left to link

rowVars    == <<next, deleted>>
graphVars  == <<graph, graph_count, count, node, heap, retired_graphs>>
storeVars  == <<quant, code, qheap, retired_quant>>
writeVars  == <<overwritten_since_build, overwrite_log, overwrite_log_active,
                in_place_updates>>
drainVars  == <<drain_to, drain_running, dpc, drain_end, to_drain>>
lockVars   == <<write_lock, index_writer, build_thread_lock>>
upsertVars == <<row, written, seen>>
searchVars == <<hgraph, hstore, covered, hits, tail, start>>
buildVars  == <<bpc, n, newg, newq, oldg, moved, to_link, to_encode>>

vars == <<rowVars, graphVars, storeVars, writeVars, drainVars, lockVars,
          upsertVars, searchVars, buildVars, index_state, pc>>

----------------------------------------------------------------------------
(* Where a thread can be. *)

SearchSteps == {"open", "store", "count", "traverse", "brute", "tail", "end"}
WorkerSteps == {"idle", "batch", "drainSearches", "invState", "invTotal",
                "invDecide", "invStore", "maybeDrain", "startDrain", "exchange", "join"}
               \cup SearchSteps

\* The build holds write_lock from the replay of the log to the end of its
\* own invalidateIndex, and over an empty collection for the latter.
PublishSteps == {"graph", "count", "moved", "ready"}
SettleSteps == {"settle", "stepAside", "settleEmpty", "stepAsideEmpty"}
BuildSteps == {"none", "begin", "empty", "openLog", "extend", "encode", "link",
               "publishStore", "publish", "retire", "reclaim", "free", "failed"}
              \cup PublishSteps \cup SettleSteps
DrainSteps == {"none", "begin", "mark", "link", "publish", "count", "stop"}

Goto(w, step) == pc' = [pc EXCEPT ![w] = step]

\* active_searches: a search is counted from SearchGuard.begin to end.
ActiveSearches == Cardinality({w \in Workers : pc[w] \in SearchSteps})

\* Collection.count(): published rows less the tombstoned ones.
LiveCount == next - Cardinality(deleted)

\* needsRebuild on the three numbers it loads, when the assertion that the
\* graph covers no more rows than exist holds.
Due(total, cov, over) ==
  IF cov = 0 THEN total > 0
  ELSE /\ total > cov \/ over > 0
       /\ (total - cov + over) * RebuildDen >= cov * RebuildNum

\* The same on loads that were taken at different moments.  With cov > total
\* the assertion fails and the subtraction wraps: a build without safety
\* checks may answer either way.
Verdicts(total, cov, over) ==
  IF cov > total THEN BOOLEAN ELSE {Due(total, cov, over)}

NeedsRebuild == Due(next, graph_count, overwritten_since_build)

RowTypes == next \in 0 .. Capacity /\ deleted \subseteq Rows

GraphTypes ==
  /\ graph \in Graphs \cup {NoGraph} /\ graph_count \in 0 .. Capacity
  /\ count \in [Graphs -> 0 .. Capacity] /\ node \in [Graphs -> [Rows -> Pos]]
  /\ heap \subseteq Graphs /\ retired_graphs \subseteq Graphs

StoreTypes ==
  /\ quant \in Stores \cup {NoStore} /\ code \in [Stores -> [Rows -> Pos]]
  /\ qheap \subseteq Stores /\ retired_quant \subseteq Stores

WriteTypes ==
  /\ overwritten_since_build \in Nat
  /\ overwrite_log \subseteq Rows /\ overwrite_log_active \in BOOLEAN
  /\ in_place_updates \in BOOLEAN

DrainTypes ==
  /\ drain_to \in 0 .. Capacity /\ drain_running \in BOOLEAN
  /\ dpc \in DrainSteps /\ drain_end \in 0 .. Capacity /\ to_drain \subseteq Rows

LockTypes ==
  /\ write_lock \in Workers \cup {NoOne, Builder}
  /\ index_writer \in {NoOne, Builder, Drainer}
  /\ build_thread_lock \in Workers \cup {NoOne}

UpsertTypes ==
  /\ row \in [Workers -> 0 .. Capacity] /\ written \in [Workers -> BOOLEAN]
  /\ seen \in [Workers -> 0 .. Capacity]

SearchTypes ==
  /\ hgraph \in [Workers -> Graphs \cup {NoGraph}]
  /\ hstore \in [Workers -> Stores \cup {NoStore}]
  /\ covered \in [Workers -> 0 .. Capacity] /\ start \in [Workers -> 0 .. Capacity]
  /\ hits \in [Workers -> SUBSET Rows] /\ tail \in [Workers -> SUBSET Rows]

BuildTypes ==
  /\ bpc \in BuildSteps /\ n \in 0 .. Capacity
  /\ newg \in Graphs \cup {NoGraph} /\ oldg \in Graphs \cup {NoGraph}
  /\ newq \in Stores \cup {NoStore} /\ moved \in Nat
  /\ to_link \subseteq Rows /\ to_encode \subseteq Rows

StateTypes ==
  index_state \in {"absent", "building", "ready"} /\ pc \in [Workers -> WorkerSteps]

\* The type of every variable, the bounds on the counters included.
TypeOK ==
  /\ RowTypes /\ GraphTypes /\ StoreTypes /\ WriteTypes /\ DrainTypes
  /\ LockTypes /\ UpsertTypes /\ SearchTypes /\ BuildTypes /\ StateTypes

Init ==
  /\ next = 0 /\ deleted = {}
  /\ graph = NoGraph /\ graph_count = 0
  /\ count = [g \in Graphs |-> 0] /\ node = [g \in Graphs |-> Blank]
  /\ heap = {} /\ retired_graphs = {}
  /\ quant = NoStore /\ code = [s \in Stores |-> Blank]
  /\ qheap = {} /\ retired_quant = {}
  /\ index_state = "absent"
  /\ overwritten_since_build = 0
  /\ overwrite_log = {} /\ overwrite_log_active = FALSE
  /\ in_place_updates = FALSE
  /\ drain_to = 0 /\ drain_running = FALSE
  /\ write_lock = NoOne /\ index_writer = NoOne /\ build_thread_lock = NoOne
  /\ pc = [w \in Workers |-> "idle"] /\ row = [w \in Workers |-> 0]
  /\ written = [w \in Workers |-> FALSE] /\ seen = [w \in Workers |-> 0]
  /\ hgraph = [w \in Workers |-> NoGraph] /\ hstore = [w \in Workers |-> NoStore]
  /\ covered = [w \in Workers |-> 0] /\ hits = [w \in Workers |-> {}]
  /\ tail = [w \in Workers |-> {}] /\ start = [w \in Workers |-> 0]
  /\ bpc = "none" /\ n = 0 /\ newg = NoGraph /\ newq = NoStore /\ oldg = NoGraph
  /\ moved = 0 /\ to_link = {} /\ to_encode = {}
  /\ dpc = "none" /\ drain_end = 0 /\ to_drain = {}
=============================================================================
