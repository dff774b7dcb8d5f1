------------------------------ MODULE SearchPath ------------------------------
(***************************************************************************)
(* A query from SearchGuard.begin to end: searchFiltered                   *)
(* (src/core/collection.zig) and, where a store is published,              *)
(* searchQuantized (src/core/quantized_search.zig).  It answers from two   *)
(* regions, the traversal of the graph it loaded and a scan of the rows    *)
(* past the count it loaded; or, without a graph, from a scan of all rows. *)
(*                                                                         *)
(* hits is every row the traversal may return: the rows reachable in the   *)
(* graph and below the query's bound.  Which of them the beam visits, and  *)
(* how they score, is not represented.                                     *)
(***************************************************************************)
EXTENDS CollectionState

\* SearchGuard.begin: counted in active_searches before any pointer is read.
BeginSearch(w) ==
  /\ w \in Searchers /\ pc[w] = "idle"
  /\ Goto(w, "open")
  /\ start' = [start EXCEPT ![w] = next]
  /\ UNCHANGED <<rowVars, graphVars, storeVars, writeVars, drainVars, lockVars,
                 upsertVars, hgraph, hstore, covered, hits, tail, buildVars, index_state>>

\* choosePath, then one load of the graph.
OpenGraph(w) ==
  /\ pc[w] = "open"
  /\ IF graph = NoGraph
     THEN Goto(w, "brute") /\ UNCHANGED hgraph
     ELSE /\ hgraph' = [hgraph EXCEPT ![w] = graph]
          /\ \/ Goto(w, "count")              \* fp32, or quantization.ignore
             \/ quant # NoStore /\ Goto(w, "store")
  /\ UNCHANGED <<rowVars, graphVars, storeVars, writeVars, drainVars, lockVars,
                 upsertVars, hstore, covered, hits, tail, start, buildVars, index_state>>

\* The store is loaded once, after the graph.
OpenStore(w) ==
  /\ pc[w] = "store"
  /\ hstore' = [hstore EXCEPT ![w] = quant]
  /\ Goto(w, "count")
  /\ UNCHANGED <<rowVars, graphVars, storeVars, writeVars, drainVars, lockVars,
                 upsertVars, hgraph, covered, hits, tail, start, buildVars, index_state>>

\* One load of the graph's count, for the traversal and for the tail.
LoadCovered(w) ==
  /\ pc[w] = "count"
  /\ covered' = [covered EXCEPT ![w] = count[hgraph[w]]]
  /\ Goto(w, "traverse")
  /\ UNCHANGED <<rowVars, graphVars, storeVars, writeVars, drainVars, lockVars,
                 upsertVars, hgraph, hstore, hits, tail, start, buildVars, index_state>>

\* Mutant: the traversal goes wherever the live graph's edges lead.
ReachableNow(w) == {r \in Rows : node[hgraph[w]][r] # "none"}

\* What a traversal may return, bounded by the query's own count (Index.bound).
Reachable(w) == {r \in Rows : r < covered[w] /\ node[hgraph[w]][r] # "none"}

Traverse(w) ==
  /\ pc[w] = "traverse"
  /\ hits' = [hits EXCEPT ![w] = Reachable(w)]
  /\ Goto(w, "tail")
  /\ UNCHANGED <<rowVars, graphVars, storeVars, writeVars, drainVars, lockVars,
                 upsertVars, hgraph, hstore, covered, tail, start, buildVars, index_state>>

\* scanPendingTail over [covered, total); without a graph, over [0, total).
ScanTail(w) ==
  /\ pc[w] \in {"tail", "brute"}
  /\ tail' = [tail EXCEPT ![w] = {r \in Rows : covered[w] <= r /\ r < next}]
  /\ Goto(w, "end")
  /\ UNCHANGED <<rowVars, graphVars, storeVars, writeVars, drainVars, lockVars,
                 upsertVars, hgraph, hstore, covered, hits, start, buildVars, index_state>>

\* SearchGuard.end, after the last use of either pointer.
EndSearch(w) ==
  /\ pc[w] = "end"
  /\ Goto(w, "idle")
  /\ hgraph' = [hgraph EXCEPT ![w] = NoGraph]
  /\ hstore' = [hstore EXCEPT ![w] = NoStore]
  /\ covered' = [covered EXCEPT ![w] = 0]
  /\ hits' = [hits EXCEPT ![w] = {}]
  /\ tail' = [tail EXCEPT ![w] = {}]
  /\ start' = [start EXCEPT ![w] = 0]
  /\ UNCHANGED <<rowVars, graphVars, storeVars, writeVars, drainVars, lockVars,
                 upsertVars, buildVars, index_state>>
=============================================================================
