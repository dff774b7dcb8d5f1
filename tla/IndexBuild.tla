------------------------------ MODULE IndexBuild ------------------------------
(***************************************************************************)
(* The two background threads of a collection (src/core/collection.zig):   *)
(* the build thread, which runs buildIndex once and ends, and the tail     *)
(* drainer, which runs drainTail chunk by chunk.  index_writer keeps them  *)
(* apart; every publication is made under write_lock.                      *)
(*                                                                         *)
(* Rows are read one at a time, in any order and without a lock, because   *)
(* the build's and the drainer's threads read them that way while          *)
(* overwrites land.                                                        *)
(***************************************************************************)
EXTENDS CollectionState

\* Mutant: the build and the drainer do not exclude each other.
IndexWriterUnchecked == TRUE

\* index_writer.lock() in buildIndex and in drainChunk.
IndexWriterFree == index_writer = NoOne

----------------------------------------------------------------------------
(* buildIndex *)

\* index_writer for the whole build, then the count it will cover.
BuildBegin ==
  /\ bpc = "begin" /\ IndexWriterFree
  /\ index_writer' = Builder
  /\ n' = next
  /\ bpc' = IF next = 0 THEN "empty" ELSE "openLog"
  /\ UNCHANGED <<rowVars, graphVars, storeVars, writeVars, drainVars, write_lock,
                 build_thread_lock, upsertVars, searchVars, newg, newq, oldg, moved,
                 to_link, to_encode, index_state, pc>>

\* Nothing to build over: ready under write_lock, which Settle then checks.
BuildEmpty ==
  /\ bpc = "empty" /\ write_lock = NoOne
  /\ write_lock' = Builder /\ index_state' = "ready"
  /\ bpc' = "settleEmpty"
  /\ UNCHANGED <<rowVars, graphVars, storeVars, writeVars, drainVars, index_writer,
                 build_thread_lock, upsertVars, searchVars, n, newg, newq, oldg,
                 moved, to_link, to_encode, pc>>

\* Allocate the graph and open the overwrite log.
BuildOpenLog ==
  /\ bpc = "openLog" /\ write_lock = NoOne
  /\ \E g \in Graphs \ heap : newg' = g /\ heap' = heap \cup {g}
  /\ overwrite_log_active' = TRUE
  /\ bpc' = "extend"
  /\ UNCHANGED <<rowVars, graph, graph_count, count, node, retired_graphs, storeVars,
                 overwritten_since_build, overwrite_log, in_place_updates, drainVars,
                 lockVars, upsertVars, searchVars, n, newq, oldg, moved, to_link,
                 to_encode, index_state, pc>>

\* Where the new graph starts from: the published one, copied, if it is
\* smaller and no row of it has been overwritten since it was built.
ExtendFrom ==
  IF /\ ParallelBuild /\ graph # NoGraph
     /\ overwritten_since_build = 0
     /\ count[graph] > 0 /\ count[graph] < n
  THEN count[graph] ELSE 0

\* Mutant: only the rows the new graph adds are encoded.
RowsAdded == ExtendFrom .. next - 1

\* buildQuantStore encodes every row published when it starts.
RowsToEncode == 0 .. next - 1

\* Copy the prior graph, or start empty; on a quantized collection allocate
\* the store, which is encoded first and over every row published by now.
BuildExtend ==
  /\ bpc = "extend"
  /\ node' = [node EXCEPT ![newg] =
                [r \in Rows |-> IF r < ExtendFrom THEN node[graph][r] ELSE "none"]]
  /\ count' = [count EXCEPT ![newg] = n]
  /\ to_link' = ExtendFrom .. n - 1
  /\ IF Quantized
     THEN /\ \E s \in Stores \ qheap :
               /\ newq' = s /\ qheap' = qheap \cup {s}
               /\ code' = [code EXCEPT ![s] = Blank]
          /\ to_encode' = RowsToEncode
          /\ bpc' = "encode"
     ELSE /\ bpc' = "link"
          /\ UNCHANGED <<newq, qheap, code, to_encode>>
  /\ UNCHANGED <<rowVars, graph, graph_count, heap, retired_graphs, quant, retired_quant,
                 writeVars, drainVars, lockVars, upsertVars, searchVars, n, newg, oldg,
                 moved, index_state, pc>>

\* One row read from the arena and encoded, in the order of the threads.
BuildEncode(r) ==
  /\ bpc = "encode" /\ r \in to_encode
  /\ code' = [code EXCEPT ![newq][r] = "current"]
  /\ to_encode' = to_encode \ {r}
  /\ bpc' = IF to_encode = {r} THEN "link" ELSE "encode"
  /\ UNCHANGED <<rowVars, graphVars, quant, qheap, retired_quant, writeVars,
                 drainVars, lockVars, upsertVars, searchVars, n, newg, newq, oldg,
                 moved, to_link, index_state, pc>>

\* One row read from the arena and linked.
BuildLink(r) ==
  /\ bpc = "link" /\ r \in to_link
  /\ node' = [node EXCEPT ![newg][r] = "current"]
  /\ to_link' = to_link \ {r}
  /\ bpc' = IF to_link # {r} THEN "link"
            ELSE IF Quantized THEN "publishStore" ELSE "publish"
  /\ UNCHANGED <<rowVars, graph, graph_count, count, heap, retired_graphs, storeVars,
                 writeVars, drainVars, lockVars, upsertVars, searchVars, n, newg,
                 newq, oldg, moved, to_encode, index_state, pc>>

\* Mutant: the replaced store is freed at the swap.
PublishAndFreeStore ==
  /\ bpc = "publishStore" /\ write_lock = NoOne
  /\ quant' = newq /\ newq' = NoStore
  /\ qheap' = qheap \ {quant}
  /\ bpc' = "publish"
  /\ UNCHANGED <<rowVars, graphVars, code, retired_quant, writeVars, drainVars,
                 lockVars, upsertVars, searchVars, n, newg, oldg, moved, to_link,
                 to_encode, index_state, pc>>

\* publishQuantStore: swap the pointer and retire the store it replaces.
PublishStore ==
  /\ bpc = "publishStore" /\ write_lock = NoOne
  /\ quant' = newq /\ newq' = NoStore
  /\ retired_quant' = retired_quant \cup ({quant} \ {NoStore})
  /\ bpc' = "publish"
  /\ UNCHANGED <<rowVars, graphVars, code, qheap, writeVars, drainVars, lockVars,
                 upsertVars, searchVars, n, newg, oldg, moved, to_link, to_encode,
                 index_state, pc>>

\* Mutant: the log is dropped instead of replayed.
NoneMoved == {}

\* The logged rows the new graph covers; past n is the tail.
Moved == {r \in overwrite_log : r < n}

\* Take write_lock, close the log and re-encode the logged rows the graph
\* covers into the store about to be served.  Nothing is logged or written
\* while the lock is held, which it is to the end of Settle.
ReplayLog ==
  /\ bpc = "publish" /\ write_lock = NoOne
  /\ write_lock' = Builder
  /\ code' = IF quant = NoStore THEN code
             ELSE [code EXCEPT ![quant] =
                     [r \in Rows |-> IF r \in Moved THEN "current" ELSE @[r]]]
  /\ moved' = Cardinality(Moved)
  /\ overwrite_log' = {} /\ overwrite_log_active' = FALSE
  /\ bpc' = "graph"
  /\ UNCHANGED <<rowVars, graphVars, quant, qheap, retired_quant,
                 overwritten_since_build, in_place_updates, drainVars, index_writer,
                 build_thread_lock, upsertVars, searchVars, n, newg, newq, oldg,
                 to_link, to_encode, index_state, pc>>

\* Then four stores, in this order; who reads without the lock may read
\* between any two of them.  First the pointer, ...
PublishGraph ==
  /\ bpc = "graph"
  /\ graph' = newg /\ oldg' = graph /\ newg' = NoGraph
  /\ bpc' = "count"
  /\ UNCHANGED <<rowVars, graph_count, count, node, heap, retired_graphs, storeVars,
                 writeVars, drainVars, lockVars, upsertVars, searchVars, n, newq,
                 moved, to_link, to_encode, index_state, pc>>

\* Mutant: the count published is of the rows there are by now.
PublishCountOfNow ==
  /\ bpc = "count"
  /\ graph_count' = next
  /\ bpc' = "moved"
  /\ UNCHANGED <<rowVars, graph, count, node, heap, retired_graphs, storeVars,
                 writeVars, drainVars, lockVars, upsertVars, searchVars, n, newg, newq,
                 oldg, moved, to_link, to_encode, index_state, pc>>

\* ... its count, ...
PublishCount ==
  /\ bpc = "count"
  /\ graph_count' = n
  /\ bpc' = "moved"
  /\ UNCHANGED <<rowVars, graph, count, node, heap, retired_graphs, storeVars,
                 writeVars, drainVars, lockVars, upsertVars, searchVars, n, newg, newq,
                 oldg, moved, to_link, to_encode, index_state, pc>>

\* ... the rows overwritten since they were read for it, not zero, ...
PublishMoved ==
  /\ bpc = "moved"
  /\ overwritten_since_build' = moved /\ moved' = 0
  /\ bpc' = "ready"
  /\ UNCHANGED <<rowVars, graphVars, storeVars, overwrite_log, overwrite_log_active,
                 in_place_updates, drainVars, lockVars, upsertVars, searchVars, n, newg,
                 newq, oldg, to_link, to_encode, index_state, pc>>

\* ... and the state.
PublishReady ==
  /\ bpc = "ready"
  /\ index_state' = "ready"
  /\ bpc' = "settle"
  /\ UNCHANGED <<rowVars, graphVars, storeVars, writeVars, drainVars, lockVars,
                 upsertVars, searchVars, n, newg, newq, oldg, moved, to_link,
                 to_encode, pc>>

\* Mutant: the publish stays ready whatever was written meanwhile.
NeverOutrun == FALSE

\* Ingest has outrun what was just published.
Outrun == index_state = "ready" /\ NeedsRebuild

\* The build has looked, and releases write_lock.
Unlock ==
  /\ write_lock' = NoOne
  /\ IF bpc \in {"settle", "stepAside"}
     THEN bpc' = "retire" /\ UNCHANGED <<index_writer, n>>
     ELSE bpc' = "none" /\ index_writer' = NoOne /\ n' = 0

\* invalidateIndex as the build calls it, still under write_lock: the look, ...
Settle ==
  /\ bpc \in {"settle", "settleEmpty"}
  /\ IF Outrun
     THEN /\ bpc' = IF bpc = "settle" THEN "stepAside" ELSE "stepAsideEmpty"
          /\ UNCHANGED <<write_lock, index_writer, n>>
     ELSE Unlock
  /\ UNCHANGED <<rowVars, graphVars, storeVars, writeVars, drainVars,
                 build_thread_lock, upsertVars, searchVars, newg, newq, oldg, moved,
                 to_link, to_encode, index_state, pc>>

\* ... and the plain store, over whatever the state has become since.
StepAside ==
  /\ bpc \in {"stepAside", "stepAsideEmpty"}
  /\ index_state' = "absent"
  /\ Unlock
  /\ UNCHANGED <<rowVars, graphVars, storeVars, writeVars, drainVars,
                 build_thread_lock, upsertVars, searchVars, newg, newq, oldg, moved,
                 to_link, to_encode, pc>>

\* The graph that was replaced is retired, after the lock is released.
Retire ==
  /\ bpc = "retire"
  /\ retired_graphs' = retired_graphs \cup ({oldg} \ {NoGraph})
  /\ oldg' = NoGraph /\ n' = 0
  /\ bpc' = "reclaim"
  /\ UNCHANGED <<rowVars, graph, graph_count, count, node, heap, storeVars, writeVars,
                 drainVars, lockVars, upsertVars, searchVars, newg, newq, moved,
                 to_link, to_encode, index_state, pc>>

\* Mutant: what is retired is freed without looking for readers.
AlwaysReclaimable == TRUE

\* No search is in flight, so none can hold what is retired.
Reclaimable == ActiveSearches = 0

\* reclaimRetired: one look at active_searches, ...
ReclaimCheck ==
  /\ bpc = "reclaim"
  /\ IF Reclaimable
     THEN bpc' = "free" /\ UNCHANGED index_writer
     ELSE bpc' = "none" /\ index_writer' = NoOne
  /\ UNCHANGED <<rowVars, graphVars, storeVars, writeVars, drainVars, write_lock,
                 build_thread_lock, upsertVars, searchVars, n, newg, newq, oldg,
                 moved, to_link, to_encode, index_state, pc>>

\* ... then everything retired is freed, whatever has begun since.
ReclaimFree ==
  /\ bpc = "free"
  /\ heap' = heap \ retired_graphs /\ retired_graphs' = {}
  /\ qheap' = qheap \ retired_quant /\ retired_quant' = {}
  /\ node' = [g \in Graphs |-> IF g \in retired_graphs THEN Blank ELSE node[g]]
  /\ count' = [g \in Graphs |-> IF g \in retired_graphs THEN 0 ELSE count[g]]
  /\ code' = [s \in Stores |-> IF s \in retired_quant THEN Blank ELSE code[s]]
  /\ index_writer' = NoOne
  /\ bpc' = "none"
  /\ UNCHANGED <<rowVars, graph, graph_count, quant, writeVars, drainVars, write_lock,
                 build_thread_lock, upsertVars, searchVars, n, newg, newq, oldg,
                 moved, to_link, to_encode, index_state, pc>>

\* A build that fails closes the log, frees what it made and releases
\* index_writer.  An allocation the heap has no room for is a failure.
NoRoom == \/ bpc = "openLog" /\ heap = Graphs
          \/ bpc = "extend" /\ Quantized /\ qheap = Stores

BuildFail ==
  /\ bpc \in {"openLog", "extend", "encode", "link", "publishStore"}
  /\ BuildFaults \/ NoRoom
  /\ bpc # "openLog" => write_lock = NoOne
  /\ overwrite_log_active' = FALSE /\ overwrite_log' = {}
  /\ heap' = heap \ {newg} /\ qheap' = qheap \ {newq}
  /\ node' = [g \in Graphs |-> IF g = newg THEN Blank ELSE node[g]]
  /\ count' = [g \in Graphs |-> IF g = newg THEN 0 ELSE count[g]]
  /\ code' = [s \in Stores |-> IF s = newq THEN Blank ELSE code[s]]
  /\ n' = 0 /\ newg' = NoGraph /\ newq' = NoStore /\ to_link' = {} /\ to_encode' = {}
  /\ index_writer' = NoOne
  /\ bpc' = "failed"
  /\ UNCHANGED <<rowVars, graph, graph_count, retired_graphs, quant, retired_quant,
                 overwritten_since_build, in_place_updates, drainVars, write_lock,
                 build_thread_lock, upsertVars, searchVars, oldg, moved,
                 index_state, pc>>

\* The thread's task then returns the collection to absent.
BuildFailed ==
  /\ bpc = "failed"
  /\ index_state' = "absent" /\ bpc' = "none"
  /\ UNCHANGED <<rowVars, graphVars, storeVars, writeVars, drainVars, lockVars,
                 upsertVars, searchVars, n, newg, newq, oldg, moved, to_link,
                 to_encode, pc>>

----------------------------------------------------------------------------
(* drainTail, one chunk at a time *)

\* Whether a chunk may be linked; what it tests is stable under index_writer,
\* but for the count of overwrites.
MayDrain ==
  /\ index_state = "ready" /\ quant = NoStore /\ graph # NoGraph
  /\ ~ NeedsRebuild
  /\ count[graph] > 0 /\ count[graph] < next

\* Mutant: a chunk is always whole.
WholeChunkEnd(from) == from + DrainChunk

\* One past the last row of a chunk that starts at from.
ChunkEnd(from) == IF from + DrainChunk < next THEN from + DrainChunk ELSE next

\* Take index_writer and decide, or stop.
DrainBegin ==
  /\ dpc = "begin" /\ IndexWriterFree
  /\ IF MayDrain
     THEN /\ index_writer' = Drainer /\ dpc' = "mark"
          /\ drain_end' = ChunkEnd(count[graph])
          /\ to_drain' = count[graph] .. ChunkEnd(count[graph]) - 1
     ELSE /\ dpc' = "stop"
          /\ UNCHANGED <<index_writer, drain_end, to_drain>>
  /\ UNCHANGED <<rowVars, graphVars, storeVars, writeVars, drain_to, drain_running,
                 write_lock, build_thread_lock, upsertVars, searchVars, buildVars,
                 index_state, pc>>

\* Announce the end of the chunk before a row of it is read.
DrainMark ==
  /\ dpc = "mark" /\ write_lock = NoOne
  /\ drain_to' = drain_end
  /\ dpc' = "link"
  /\ UNCHANGED <<rowVars, graphVars, storeVars, writeVars, drain_running, drain_end,
                 to_drain, lockVars, upsertVars, searchVars, buildVars, index_state, pc>>

\* One row of the chunk, linked into the graph that is being searched.
DrainLink(r) ==
  /\ dpc = "link" /\ r \in to_drain
  /\ node' = [node EXCEPT ![graph][r] = "current"]
  /\ to_drain' = to_drain \ {r}
  /\ dpc' = IF to_drain = {r} THEN "publish" ELSE "link"
  /\ UNCHANGED <<rowVars, graph, graph_count, count, heap, retired_graphs, storeVars,
                 writeVars, drain_to, drain_running, drain_end, lockVars, upsertVars,
                 searchVars, buildVars, index_state, pc>>

\* drainLive fails: the drainer returns with the count where it was.
DrainFail ==
  /\ dpc = "link" /\ BuildFaults
  /\ dpc' = "stop"
  /\ to_drain' = {} /\ drain_end' = 0
  /\ index_writer' = NoOne
  /\ UNCHANGED <<rowVars, graphVars, storeVars, writeVars, drain_to, drain_running, write_lock,
                 build_thread_lock, upsertVars, searchVars, buildVars, index_state, pc>>

\* The graph's own count, after every row of the chunk is linked.
DrainPublish ==
  /\ dpc = "publish"
  /\ count' = [count EXCEPT ![graph] = drain_end]
  /\ dpc' = "count"
  /\ UNCHANGED <<rowVars, graph, graph_count, node, heap, retired_graphs, storeVars,
                 writeVars, drain_to, drain_running, drain_end, to_drain, lockVars,
                 upsertVars, searchVars, buildVars, index_state, pc>>

\* The count beside the pointer, and the next chunk.
DrainCount ==
  /\ dpc = "count" /\ write_lock = NoOne
  /\ graph_count' = drain_end
  /\ index_writer' = NoOne
  /\ drain_end' = 0
  /\ dpc' = "begin"
  /\ UNCHANGED <<rowVars, graph, count, node, heap, retired_graphs, storeVars, writeVars,
                 drain_to, drain_running, to_drain, write_lock, build_thread_lock,
                 upsertVars, searchVars, buildVars, index_state, pc>>

\* drainTail returns: a row appended since the last look waits for the next
\* trigger.
DrainStop ==
  /\ dpc = "stop"
  /\ drain_running' = FALSE /\ dpc' = "none"
  /\ UNCHANGED <<rowVars, graphVars, storeVars, writeVars, drain_to, drain_end,
                 to_drain, lockVars, upsertVars, searchVars, buildVars, index_state, pc>>
=============================================================================
