-------------------------------- MODULE Ingest --------------------------------
(***************************************************************************)
(* The write side of a collection: the Upsert and Delete handlers          *)
(* (src/api/handlers.zig) down to Collection.upsertWithPayload and delete, *)
(* the invalidation a batch ends with, and the two triggers that start     *)
(* background work, ensureIndexBuilding and ensureTailDraining.            *)
(*                                                                         *)
(* What runs under write_lock and becomes visible with one store is one    *)
(* action.  An overwrite is one action from the row write to the unlock:   *)
(* all that noteOverwrite reads (the log flag, graph_count, drain_to,      *)
(* quant) is written only under the same lock.                             *)
(***************************************************************************)
EXTENDS CollectionState

----------------------------------------------------------------------------
(* Upsert: a batch of points, then the deferred invalidation. *)

BeginUpsert(w) ==
  /\ w \in Upserters /\ pc[w] = "idle"
  /\ Goto(w, "batch")
  /\ UNCHANGED <<rowVars, graphVars, storeVars, writeVars, drainVars, lockVars,
                 upsertVars, searchVars, buildVars, index_state>>

\* The handler leaves its loop; a batch that wrote nothing does not
\* invalidate (the defer tests written).
LeaveBatch(w) ==
  /\ Goto(w, IF written[w] THEN "invState" ELSE "idle")
  /\ written' = [written EXCEPT ![w] = FALSE]

\* A new id: the row is written, then published by the store to next.
AppendPoint(w) ==
  /\ pc[w] = "batch" /\ write_lock = NoOne /\ next < Capacity
  /\ next' = next + 1
  /\ written' = [written EXCEPT ![w] = TRUE]
  /\ UNCHANGED <<graphVars, storeVars, writeVars, drainVars, lockVars,
                 searchVars, buildVars, index_state, deleted, pc, row, seen>>

\* A new id that is refused, by the capacity or by payload.set before the
\* publish: nothing is visible and the handler returns an error.
RefuseAppend(w) ==
  /\ pc[w] = "batch" /\ write_lock = NoOne
  /\ next = Capacity \/ PayloadFaults
  /\ LeaveBatch(w)
  /\ UNCHANGED <<rowVars, graphVars, storeVars, writeVars, drainVars, lockVars,
                 searchVars, buildVars, index_state, row, seen>>

\* Mutant: the chunk being drained is not counted until it is published.
CountedOncePublished(r) == r < graph_count

\* Rows whose overwrite counts against the graph.
Counted(r) == r < graph_count \/ r < drain_to

\* A copy of row r turns stale wherever one is held.
Outdate(held, r) ==
  [x \in DOMAIN held |->
     IF held[x][r] = "none" THEN held[x] ELSE [held[x] EXCEPT ![r] = "stale"]]

\* The bound on overwritten_since_build.
MayOverwrite(r) == Counted(r) => overwritten_since_build < MaxOverwritten

\* The row write and noteOverwrite: log the row while a build is reading,
\* count it and re-encode it when the graph (or the chunk being drained)
\* covers it.
NoteOverwrite(r) ==
  /\ node' = Outdate(node, r)
  /\ overwrite_log' = IF overwrite_log_active THEN overwrite_log \cup {r}
                      ELSE overwrite_log
  /\ overwritten_since_build' = overwritten_since_build + (IF Counted(r) THEN 1 ELSE 0)
  /\ code' = IF Counted(r) /\ quant # NoStore
             THEN [Outdate(code, r) EXCEPT ![quant][r] = "current"]
             ELSE Outdate(code, r)

\* beginInPlace on the first overwrite of the collection: announce, keep the
\* lock, and wait for the searches that may not have seen the flag.
AnnounceInPlace(w, r) ==
  /\ pc[w] = "batch" /\ write_lock = NoOne /\ r < next
  /\ ~in_place_updates /\ MayOverwrite(r)
  /\ write_lock' = w /\ in_place_updates' = TRUE
  /\ row' = [row EXCEPT ![w] = r]
  /\ Goto(w, "drainSearches")
  /\ UNCHANGED <<rowVars, graphVars, storeVars, drainVars, searchVars, buildVars,
                 index_state, overwritten_since_build, overwrite_log,
                 overwrite_log_active, index_writer, build_thread_lock, written, seen>>

\* A known id.  payload.set runs after the row is written and counted, so a
\* payload it rejects leaves the new vector in place, the tombstone set and
\* written as it was.
OverwritePoint(w, r) ==
  /\ \/ pc[w] = "batch" /\ write_lock = NoOne /\ r < next /\ in_place_updates
     \/ pc[w] = "drainSearches" /\ row[w] = r /\ ActiveSearches = 0
  /\ MayOverwrite(r)
  /\ NoteOverwrite(r)
  /\ write_lock' = NoOne
  /\ row' = [row EXCEPT ![w] = 0]
  /\ \/ /\ deleted' = deleted \ {r}
        /\ written' = [written EXCEPT ![w] = TRUE]
        /\ Goto(w, "batch")
     \/ /\ PayloadFaults
        /\ LeaveBatch(w)
        /\ UNCHANGED deleted
  /\ UNCHANGED <<next, graph, graph_count, count, heap, retired_graphs, quant, qheap,
                 retired_quant, overwrite_log_active, in_place_updates, drainVars,
                 index_writer, build_thread_lock, seen, searchVars, buildVars,
                 index_state>>

FinishBatch(w) ==
  /\ pc[w] = "batch"
  /\ LeaveBatch(w)
  /\ UNCHANGED <<rowVars, graphVars, storeVars, writeVars, drainVars, lockVars,
                 searchVars, buildVars, index_state, row, seen>>

----------------------------------------------------------------------------
(* invalidateIndex from the handler, without a lock: the state, the total,  *)
(* the two counts it is compared with (one action: read apart, a drain's or *)
(* a publication's stores between them could only make the verdict more     *)
(* eager), and the store.                                                   *)

InvalidateState(w) ==
  /\ pc[w] = "invState"
  /\ Goto(w, IF index_state = "ready" THEN "invTotal" ELSE "maybeDrain")
  /\ UNCHANGED <<rowVars, graphVars, storeVars, writeVars, drainVars, lockVars,
                 upsertVars, searchVars, buildVars, index_state>>

LoadTotal(w) ==
  /\ pc[w] = "invTotal"
  /\ seen' = [seen EXCEPT ![w] = next]
  /\ Goto(w, "invDecide")
  /\ UNCHANGED <<rowVars, graphVars, storeVars, writeVars, drainVars, lockVars,
                 searchVars, buildVars, index_state, row, written>>

InvalidateDecide(w) ==
  /\ pc[w] = "invDecide"
  /\ \E due \in Verdicts(seen[w], graph_count, overwritten_since_build) :
       Goto(w, IF due THEN "invStore" ELSE "maybeDrain")
  /\ seen' = [seen EXCEPT ![w] = 0]
  /\ UNCHANGED <<rowVars, graphVars, storeVars, writeVars, drainVars, lockVars,
                 searchVars, buildVars, index_state, row, written>>

\* A plain store: what the state has become since it was loaded is lost.
InvalidateStore(w) ==
  /\ pc[w] = "invStore"
  /\ index_state' = "absent"
  /\ Goto(w, "maybeDrain")
  /\ UNCHANGED <<rowVars, graphVars, storeVars, writeVars, drainVars, lockVars,
                 upsertVars, searchVars, buildVars>>

----------------------------------------------------------------------------
(* The triggers. *)

\* The early outs of ensureTailDraining.
DrainWanted == graph_count < LiveCount /\ ~drain_running /\ quant = NoStore

\* ensureTailDraining up to its lock: from an upsert whose batch left the
\* state ready, or from a poll that read it ready.
MaybeDrain(w) ==
  /\ \/ pc[w] = "maybeDrain"
     \/ w \in Pollers /\ pc[w] = "idle" /\ index_state = "ready" /\ DrainWanted
  /\ Goto(w, IF index_state = "ready" /\ DrainWanted THEN "startDrain" ELSE "idle")
  /\ UNCHANGED <<rowVars, graphVars, storeVars, writeVars, drainVars, lockVars,
                 upsertVars, searchVars, buildVars, index_state>>

\* Under build_thread_lock: elect one spawner, join the drainer before it,
\* which has returned, and spawn.
StartDrain(w) ==
  /\ pc[w] = "startDrain" /\ build_thread_lock = NoOne
  /\ Goto(w, "idle")
  /\ \/ ~drain_running /\ drain_running' = TRUE /\ dpc' = "begin"
     \/ drain_running /\ UNCHANGED <<drain_running, dpc>>
     \/ SpawnFaults /\ ~drain_running /\ UNCHANGED <<drain_running, dpc>>
  /\ UNCHANGED <<rowVars, graphVars, storeVars, writeVars, lockVars, upsertVars,
                 searchVars, buildVars, index_state, drain_to, drain_end, to_drain>>

\* ensureIndexBuilding reads the state; building and ready are early outs.
PollAbsent(w) ==
  /\ w \in Pollers /\ pc[w] = "idle" /\ index_state = "absent"
  /\ Goto(w, "exchange")
  /\ UNCHANGED <<rowVars, graphVars, storeVars, writeVars, drainVars, lockVars,
                 upsertVars, searchVars, buildVars, index_state>>

\* Under build_thread_lock, one winner of the absent -> building exchange.
Exchange(w) ==
  /\ pc[w] = "exchange" /\ build_thread_lock = NoOne
  /\ IF index_state = "absent"
     THEN /\ index_state' = "building" /\ build_thread_lock' = w
          /\ Goto(w, "join")
     ELSE /\ Goto(w, "idle") /\ UNCHANGED <<index_state, build_thread_lock>>
  /\ UNCHANGED <<rowVars, graphVars, storeVars, writeVars, drainVars, upsertVars,
                 searchVars, buildVars, write_lock, index_writer>>

\* Mutant: a spawn that fails leaves the state building.
JoinAndSpawnOrGiveUp(w) ==
  /\ pc[w] = "join" /\ bpc = "none"
  /\ build_thread_lock' = NoOne
  /\ Goto(w, "idle")
  /\ bpc' = "begin" \/ (SpawnFaults /\ UNCHANGED bpc)
  /\ UNCHANGED <<rowVars, graphVars, storeVars, writeVars, drainVars, write_lock,
                 index_writer, upsertVars, searchVars, n, newg, newq, oldg,
                 moved, to_link, to_encode, index_state>>

\* The winner joins the build before it, whatever it is doing, and spawns.
JoinAndSpawn(w) ==
  /\ pc[w] = "join" /\ bpc = "none"
  /\ build_thread_lock' = NoOne
  /\ Goto(w, "idle")
  /\ \/ bpc' = "begin" /\ UNCHANGED index_state
     \/ SpawnFaults /\ index_state' = "absent" /\ UNCHANGED bpc
  /\ UNCHANGED <<rowVars, graphVars, storeVars, writeVars, drainVars, write_lock,
                 index_writer, upsertVars, searchVars, n, newg, newq, oldg,
                 moved, to_link, to_encode>>

----------------------------------------------------------------------------
(* Delete: a tombstone, under write_lock. *)

DeletePoint(w, r) ==
  /\ w \in Deleters /\ pc[w] = "idle" /\ write_lock = NoOne
  /\ r < next /\ r \notin deleted /\ Cardinality(deleted) < MaxDeleted
  /\ deleted' = deleted \cup {r}
  /\ UNCHANGED <<next, graphVars, storeVars, writeVars, drainVars, lockVars,
                 upsertVars, searchVars, buildVars, index_state, pc>>
=============================================================================
