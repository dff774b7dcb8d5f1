------------------------------ MODULE Collection ------------------------------
(***************************************************************************)
(* One collection under concurrent upserts, deletes and searches, with the *)
(* build thread and the tail drainer it starts: the composition of Ingest, *)
(* IndexBuild and SearchPath, and what must hold of it.                    *)
(***************************************************************************)
EXTENDS Ingest, IndexBuild, SearchPath

WorkerNext(w) ==
  \/ BeginUpsert(w) \/ AppendPoint(w) \/ RefuseAppend(w) \/ FinishBatch(w)
  \/ \E r \in Rows : AnnounceInPlace(w, r) \/ OverwritePoint(w, r) \/ DeletePoint(w, r)
  \/ InvalidateState(w) \/ LoadTotal(w) \/ InvalidateDecide(w) \/ InvalidateStore(w)
  \/ MaybeDrain(w) \/ StartDrain(w)
  \/ PollAbsent(w) \/ Exchange(w) \/ JoinAndSpawn(w)
  \/ BeginSearch(w) \/ OpenGraph(w) \/ OpenStore(w) \/ LoadCovered(w)
  \/ Traverse(w) \/ ScanTail(w) \/ EndSearch(w)

BuilderNext ==
  \/ BuildBegin \/ BuildEmpty \/ BuildOpenLog \/ BuildExtend
  \/ \E r \in Rows : BuildEncode(r) \/ BuildLink(r)
  \/ PublishStore \/ ReplayLog \/ PublishGraph \/ PublishCount \/ PublishMoved
  \/ PublishReady \/ Settle \/ StepAside \/ Retire \/ ReclaimCheck \/ ReclaimFree
  \/ BuildFail \/ BuildFailed

DrainerNext ==
  \/ DrainBegin \/ DrainMark \/ (\E r \in Rows : DrainLink(r))
  \/ DrainFail \/ DrainPublish \/ DrainCount \/ DrainStop

Next == (\E w \in Workers : WorkerNext(w)) \/ BuilderNext \/ DrainerNext

Spec == Init /\ [][Next]_vars

----------------------------------------------------------------------------
(* Reclamation (SearchGuard, retired_graphs, reclaimRetired). *)

\* What a search holds is allocated, and so is what the next one would load:
\* no rebuild frees a graph or a store under a reader, whenever the reader
\* came in relative to the publish, the retire and the reclaim.
NoDanglingRead ==
  /\ graph # NoGraph => graph \in heap
  /\ quant # NoStore => quant \in qheap
  /\ \A w \in Workers :
       /\ hgraph[w] # NoGraph => hgraph[w] \in heap
       /\ hstore[w] # NoStore => hstore[w] \in qheap

----------------------------------------------------------------------------
(* What a search answers from (Bounded, scanPendingTail). *)

\* Every row published before a search began is in exactly one of the two
\* regions it answers from, while the drainer links into the graph it
\* traverses and a build replaces it: a row in neither is missing from the
\* answer, a row in both is returned twice.
EachRowOnce ==
  \A w \in Workers : pc[w] = "end" =>
    /\ 0 .. start[w] - 1 \subseteq hits[w] \cup tail[w]
    /\ hits[w] \cap tail[w] = {}

\* The store a search scores with has a code for every row its traversal can
\* reach (the two are loaded apart, and are published apart).
StoreCoversTraversal ==
  \A w \in Workers : pc[w] = "traverse" /\ hstore[w] # NoStore =>
    \A r \in 0 .. covered[w] - 1 : code[hstore[w]][r] # "none"

----------------------------------------------------------------------------
(* Overwrites racing a build or a drain (overwrite_log, drain_to).  *)

StaleRows == IF graph = NoGraph THEN {}
             ELSE {r \in Rows : node[graph][r] = "stale"}

\* Every row the served graph holds at a vector it no longer has is counted
\* in overwritten_since_build, whatever was reading the row when it changed:
\* the count is what makes a full rebuild due, and what forbids extending
\* the graph, which would keep the row where it is for good.  Between the
\* store of a graph and the store of the counter, under one write_lock, the
\* rows are those the publication is about to count.
StaleRowsCounted ==
  Cardinality(StaleRows) <= IF bpc \in {"count", "moved"} THEN moved
                            ELSE overwritten_since_build

\* The served store has the present code of every row the served graph
\* covers, or the row is on the log that the next publish replays.
CodesCurrent ==
  quant # NoStore =>
    \A r \in Rows : r < graph_count =>
      code[quant][r] = "current" \/ (overwrite_log_active /\ r \in overwrite_log)

----------------------------------------------------------------------------
(* The published count (graph_count beside the pointer). *)

\* The count request threads read without a guard or a lock never runs ahead
\* of the graph's own, and lags it only while the drainer or a publication is
\* between its two stores, the graph and its count being stored apart; neither
\* is ahead of the rows there are.
CountsAgree ==
  graph # NoGraph =>
    /\ graph_count <= count[graph] /\ count[graph] <= next
    /\ dpc # "count" /\ bpc # "count" => graph_count = count[graph]

\* The served graph never loses a row it covers: a build that started before
\* a drain does not publish an older count over it.
NeverCoversLess == [][graph_count' >= graph_count]_vars

----------------------------------------------------------------------------
(* The index state machine. *)

\* When nothing is running, a collection that says ready has no rebuild due.
\* ready is what ensureIndexBuilding leaves alone, so a rebuild that is due
\* here is one no poll can start.
NoStrandedRebuild ==
  /\ index_state = "ready" /\ bpc = "none"
  /\ \A w \in Workers : pc[w] \in {"idle"} \cup SearchSteps
  => ~ NeedsRebuild

\* building is left by whoever entered it: a build is running, or a worker is
\* about to spawn one.  Nothing else would, so a client would wait for ever.
BuildingHasBuilder ==
  index_state = "building" =>
    bpc # "none" \/ \E w \in Workers : pc[w] = "join"

\* ensureIndexBuilding: "Winning the cmpxchg above means the prior build
\* reached `ready` or `absent`, so its thread has already exited and the join
\* is immediate."
JoinIsImmediate ==
  \A w \in Workers : pc[w] = "join" =>
    bpc \notin {"begin", "empty", "openLog", "extend", "encode", "link",
                "publishStore", "publish"} \cup PublishSteps

\* needsRebuild: assert(covered_n <= total).
CoveredWithinTotal ==
  \A w \in Workers : pc[w] = "invDecide" => graph_count <= seen[w]
=============================================================================
