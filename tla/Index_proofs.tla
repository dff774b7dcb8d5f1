----------------------------- MODULE Index_proofs -----------------------------
(***************************************************************************)
(* What Collection_proofs leaves of Collection!Spec, for any number of     *)
(* workers, rows, graphs and stores: the counts, the rows a search answers *)
(* from, the overwrites that race a build or a drain, the codes of a       *)
(* quantized store, and the index state machine.                           *)
(*                                                                         *)
(* None of these is inductive.  They rest on each other in the order of    *)
(* the sections: who holds the locks; what the counts of the graphs are;   *)
(* which rows below them are linked; which of the linked rows are stale;   *)
(* what a search has seen of all that; what the stores hold; and who is    *)
(* bound to look whether a rebuild is due.                                 *)
(***************************************************************************)
EXTENDS Collection_proofs

----------------------------------------------------------------------------
(* The inductive invariant. *)

\* The drainer holds index_writer from its decision to the count it stores.
Draining == {"mark", "link", "publish", "count"}

\* The build has a graph of its own, until it is published.
Making == {"extend", "encode", "link", "publishStore", "publish", "graph"}

\* index_writer is held by one of the two background threads, from where it
\* locks it to where it lets go; write_lock by the build that publishes and
\* settles, or by the worker that waits for the searches; a drainer at work is
\* announced.
LocksHeld ==
  /\ index_writer = Builder <=> bpc \notin {"none", "begin", "failed"}
  /\ index_writer = Drainer <=> dpc \in Draining
  /\ write_lock = Builder <=> bpc \in PublishSteps \cup SettleSteps
  /\ \A w \in Workers : write_lock = w <=> pc[w] = "drainSearches"
  /\ dpc # "none" => drain_running

\* The published graph covers at least what any other one in use covers, the
\* build's will cover no less, and the drainer's chunk begins where the
\* published one ends.
CountsHeld ==
  /\ CountsAgree
  /\ graph = NoGraph => graph_count = 0
  /\ \A g \in heap \ {newg} : graph # NoGraph /\ count[g] <= count[graph]
  /\ bpc \in Making \cup {"openLog", "count"} =>
       n > 0 /\ n <= next /\ graph_count <= n
  /\ bpc \in Making => newg # NoGraph
  /\ bpc \in Making \ {"extend"} => count[newg] = n
  /\ bpc = "count" => graph # NoGraph /\ count[graph] = n
  /\ dpc \in Draining =>
       /\ graph # NoGraph /\ quant = NoStore
       /\ graph_count < drain_end /\ drain_end <= next
       /\ drain_end <= graph_count + DrainChunk
  /\ dpc = "count" => count[graph] = drain_end

\* Every graph in use has linked the rows its count covers; the build's has,
\* or has them before it, and so has the drainer its chunk.
LinksHeld ==
  /\ \A g \in heap \ {newg}, r \in Rows : r < count[g] => node[g][r] # "none"
  /\ bpc \in Making \ {"extend"} =>
       \A r \in Rows : r < n <=> node[newg][r] # "none" \/ r \in to_link
  /\ bpc \in {"publishStore", "publish", "graph"} => to_link = {}
  /\ dpc \in {"mark", "link", "publish"} =>
       \A r \in Rows : r < drain_end /\ ~ r < graph_count =>
         node[graph][r] # "none" \/ r \in to_drain
  /\ dpc \in Draining => \A r \in to_drain : r < drain_end
  /\ dpc \in {"publish", "count"} => to_drain = {}

\* A row the published graph holds past its count was linked in a chunk that
\* drain_to announces still, the failed one included, and the next chunk
\* reaches it.  A graph whose count is not stored yet has none past its own.
DrainedAnnounced ==
  /\ graph # NoGraph /\ bpc # "count" =>
       \A r \in Rows : node[graph][r] # "none" /\ ~ r < graph_count =>
         r < drain_to /\ r < graph_count + DrainChunk /\ r < next
  /\ bpc = "count" => \A r \in Rows : node[graph][r] # "none" => r < n
  /\ dpc \in Draining => \A r \in Rows : node[graph][r] # "none" => r < drain_end
  /\ dpc \in Draining \ {"mark"} => drain_to = drain_end

\* The log is open while the build reads, and has every row it read too soon.
OverwritesLogged ==
  /\ bpc \in Making \ {"graph"} => overwrite_log_active
  /\ bpc \in Making \ {"extend", "graph"} =>
       \A r \in Rows : node[newg][r] = "stale" => r \in overwrite_log

\* What was on the log when it was closed counts every stale row of the graph
\* that is about to be published.
NewStaleRows == {r \in Rows : node[newg][r] = "stale"}
MovedCounted == bpc = "graph" => Cardinality(NewStaleRows) <= moved

StaleHeld == DrainedAnnounced /\ OverwritesLogged /\ MovedCounted /\ StaleRowsCounted

\* What a search has loaded bounds what it has seen.
AnswerHeld ==
  \A w \in Workers :
    /\ pc[w] \in SearchSteps => start[w] <= next
    /\ pc[w] \notin {"traverse", "tail", "end"} => covered[w] = 0
    /\ pc[w] \notin {"tail", "end"} => hits[w] = {}
    /\ pc[w] = "traverse" => covered[w] <= count[hgraph[w]]
    /\ pc[w] = "tail" => hits[w] = {r \in Rows : r < covered[w]}
SearchHeld == AnswerHeld /\ EachRowOnce

\* The published store has the present code of what the published graph
\* covers.  From its publication to that of its graph it has the codes of the
\* next graph instead, as the build read them; the log has the others until
\* it is replayed.
PublishedCodes ==
  quant # NoStore =>
    /\ bpc = "publish" =>
         \A r \in Rows : r < n =>
           \/ code[quant][r] = "current"
           \/ code[quant][r] = "stale" /\ r \in overwrite_log
    /\ bpc \in {"graph", "count"} =>
         \A r \in Rows : r < n => code[quant][r] = "current"
    /\ bpc \notin {"publish", "graph", "count"} =>
         \A r \in Rows : r < graph_count => code[quant][r] = "current"

MadeCodes ==
  /\ newq # NoStore =>
       \A r \in Rows : r < n =>
         \/ code[newq][r] = "current" \/ r \in to_encode
         \/ code[newq][r] = "stale" /\ r \in overwrite_log
  /\ bpc \in {"encode", "publishStore"} => newq # NoStore
  /\ bpc = "link" /\ Quantized => newq # NoStore
  /\ bpc # "encode" => to_encode = {}

HeldCodes ==
  \A w \in Workers : hstore[w] # NoStore =>
    /\ quant # NoStore /\ pc[w] \notin {"open", "store"}
    /\ pc[w] \in {"count", "traverse"} =>
         \A r \in Rows : r < count[hgraph[w]] => code[hstore[w]][r] # "none"

CodesHeld == PublishedCodes /\ MadeCodes /\ HeldCodes

IndexInv == /\ CollectionInv /\ LocksHeld /\ CountsHeld /\ LinksHeld
            /\ StaleHeld /\ SearchHeld /\ CodesHeld

\* building is left by whoever entered it, before the thread that runs ends.
BuildingHeld ==
  index_state = "building" =>
    \/ bpc \in Making \cup PublishSteps \cup {"begin", "empty", "openLog", "failed"}
    \/ \E w \in Workers : pc[w] = "join"

\* A worker that will compare the present total with what is covered before
\* it is idle again, or is about to say absent.
WillLook(w) ==
  \/ pc[w] \in {"batch", "drainSearches"} /\ written[w]
  \/ pc[w] \in {"invState", "invTotal", "invStore"}
  \/ pc[w] = "invDecide" /\ seen[w] = next

\* Whatever made a rebuild due has someone bound to find it: the publication
\* between its counters and its own look, or a worker.
Publishing == {"moved", "ready"} \cup SettleSteps
DueHeld ==
  index_state = "ready" /\ NeedsRebuild =>
    bpc \in Publishing \/ \E w \in Workers : WillLook(w)

----------------------------------------------------------------------------
(* What a step leaves alone. *)

\* What the two background threads make, and what an overwrite notes.
indexVars == <<graphVars, storeVars, overwritten_since_build, overwrite_log,
               overwrite_log_active, drain_to, drain_end, to_drain, index_writer,
               n, newg, newq, oldg, moved, to_link, to_encode>>

\* What a worker keeps to itself.
localVars(w) == <<pc[w], row[w], written[w], seen[w], hgraph[w], hstore[w],
                  covered[w], hits[w], tail[w], start[w]>>

\* A step of a worker that neither appends nor overwrites leaves the rows, the
\* graphs and the stores alone; it may start a thread that is not running.
Quiet ==
  /\ UNCHANGED <<next, indexVars>>
  /\ \/ bpc' = bpc
     \/ bpc = "none" /\ bpc' = "begin"
  /\ \/ UNCHANGED <<dpc, drain_running>>
     \/ ~ drain_running /\ drain_running' /\ dpc' = "begin"

\* Apart from an append and an overwrite, every step of a worker is quiet.
LEMMA WorkerMoves ==
  ASSUME NEW w \in Workers, WorkerNext(w)
  PROVE  AppendPoint(w) \/ (\E r \in Rows : OverwritePoint(w, r)) \/ Quiet
PROOF
  <1> USE DEF Quiet, indexVars, rowVars, graphVars, storeVars, writeVars, drainVars,
              lockVars, buildVars
  <1>1. CASE BeginUpsert(w)
    BY <1>1 DEF BeginUpsert
  <1>2. CASE RefuseAppend(w)
    BY <1>2 DEF RefuseAppend
  <1>3. CASE FinishBatch(w)
    BY <1>3 DEF FinishBatch
  <1>4. CASE InvalidateState(w)
    BY <1>4 DEF InvalidateState
  <1>5. CASE LoadTotal(w)
    BY <1>5 DEF LoadTotal
  <1>6. CASE InvalidateDecide(w)
    BY <1>6 DEF InvalidateDecide
  <1>7. CASE InvalidateStore(w)
    BY <1>7 DEF InvalidateStore
  <1>8. CASE MaybeDrain(w)
    BY <1>8 DEF MaybeDrain
  <1>9. CASE StartDrain(w)
    BY <1>9 DEF StartDrain
  <1>10. CASE PollAbsent(w)
    BY <1>10 DEF PollAbsent
  <1>11. CASE Exchange(w)
    BY <1>11 DEF Exchange
  <1>12. CASE JoinAndSpawn(w)
    BY <1>12 DEF JoinAndSpawn
  <1>13. CASE BeginSearch(w)
    BY <1>13 DEF BeginSearch
  <1>14. CASE OpenGraph(w)
    BY <1>14 DEF OpenGraph
  <1>15. CASE OpenStore(w)
    BY <1>15 DEF OpenStore
  <1>16. CASE LoadCovered(w)
    BY <1>16 DEF LoadCovered
  <1>17. CASE Traverse(w)
    BY <1>17 DEF Traverse
  <1>18. CASE ScanTail(w)
    BY <1>18 DEF ScanTail
  <1>19. CASE EndSearch(w)
    BY <1>19 DEF EndSearch
  <1>20. ASSUME NEW r \in Rows, AnnounceInPlace(w, r) PROVE Quiet
    BY <1>20 DEF AnnounceInPlace
  <1>21. ASSUME NEW r \in Rows, DeletePoint(w, r) PROVE Quiet
    BY <1>21 DEF DeletePoint
  <1> QED
    BY <1>1, <1>2, <1>3, <1>4, <1>5, <1>6, <1>7, <1>8, <1>9, <1>10, <1>11, <1>12, <1>13,
       <1>14, <1>15, <1>16, <1>17, <1>18, <1>19, <1>20, <1>21 DEF WorkerNext

\* A worker's step touches what is local to another worker nowhere.
LEMMA WorkersApart ==
  ASSUME TypeOK, NEW w \in Workers, WorkerNext(w), NEW v \in Workers \ {w}
  PROVE  UNCHANGED localVars(v)
PROOF
  <1> USE DEF localVars, TypeOK, UpsertTypes, SearchTypes, StateTypes, upsertVars,
              searchVars, Goto, LeaveBatch
  <1>1. CASE BeginUpsert(w)
    BY <1>1 DEF BeginUpsert
  <1>2. CASE AppendPoint(w)
    BY <1>2 DEF AppendPoint
  <1>3. CASE RefuseAppend(w)
    BY <1>3 DEF RefuseAppend
  <1>4. CASE FinishBatch(w)
    BY <1>4 DEF FinishBatch
  <1>5. CASE InvalidateState(w)
    BY <1>5 DEF InvalidateState
  <1>6. CASE LoadTotal(w)
    BY <1>6 DEF LoadTotal
  <1>7. CASE InvalidateDecide(w)
    BY <1>7 DEF InvalidateDecide
  <1>8. CASE InvalidateStore(w)
    BY <1>8 DEF InvalidateStore
  <1>9. CASE MaybeDrain(w)
    BY <1>9 DEF MaybeDrain
  <1>10. CASE StartDrain(w)
    BY <1>10 DEF StartDrain
  <1>11. CASE PollAbsent(w)
    BY <1>11 DEF PollAbsent
  <1>12. CASE Exchange(w)
    BY <1>12 DEF Exchange
  <1>13. CASE JoinAndSpawn(w)
    BY <1>13 DEF JoinAndSpawn
  <1>14. CASE BeginSearch(w)
    BY <1>14 DEF BeginSearch
  <1>15. CASE OpenGraph(w)
    BY <1>15 DEF OpenGraph
  <1>16. CASE OpenStore(w)
    BY <1>16 DEF OpenStore
  <1>17. CASE LoadCovered(w)
    BY <1>17 DEF LoadCovered
  <1>18. CASE Traverse(w)
    BY <1>18 DEF Traverse
  <1>19. CASE ScanTail(w)
    BY <1>19 DEF ScanTail
  <1>20. CASE EndSearch(w)
    BY <1>20 DEF EndSearch
  <1>21. ASSUME NEW r \in Rows, AnnounceInPlace(w, r) PROVE UNCHANGED localVars(v)
    BY <1>21 DEF AnnounceInPlace
  <1>22. ASSUME NEW r \in Rows, OverwritePoint(w, r) PROVE UNCHANGED localVars(v)
    BY <1>22 DEF OverwritePoint
  <1>23. ASSUME NEW r \in Rows, DeletePoint(w, r) PROVE UNCHANGED localVars(v)
    BY <1>23 DEF DeletePoint
  <1> QED
    BY <1>1, <1>2, <1>3, <1>4, <1>5, <1>6, <1>7, <1>8, <1>9, <1>10, <1>11, <1>12, <1>13,
       <1>14, <1>15, <1>16, <1>17, <1>18, <1>19, <1>20, <1>21, <1>22, <1>23 DEF
       WorkerNext

\* The background threads touch nothing of a worker's, and no row.
LEMMA ThreadsApart ==
  ASSUME BuilderNext \/ DrainerNext
  PROVE  UNCHANGED <<rowVars, upsertVars, searchVars, pc, build_thread_lock>>
PROOF
  <1> USE DEF lockVars
  <1>1. CASE BuildBegin
    BY <1>1 DEF BuildBegin
  <1>2. CASE BuildEmpty
    BY <1>2 DEF BuildEmpty
  <1>3. CASE BuildOpenLog
    BY <1>3 DEF BuildOpenLog
  <1>4. CASE BuildExtend
    BY <1>4 DEF BuildExtend
  <1>5. CASE PublishStore
    BY <1>5 DEF PublishStore
  <1>6. CASE ReplayLog
    BY <1>6 DEF ReplayLog
  <1>7. CASE PublishGraph
    BY <1>7 DEF PublishGraph
  <1>8. CASE PublishCount
    BY <1>8 DEF PublishCount
  <1>9. CASE PublishMoved
    BY <1>9 DEF PublishMoved
  <1>10. CASE PublishReady
    BY <1>10 DEF PublishReady
  <1>11. CASE Settle
    BY <1>11 DEF Settle, Unlock
  <1>12. CASE StepAside
    BY <1>12 DEF StepAside, Unlock
  <1>13. CASE Retire
    BY <1>13 DEF Retire
  <1>14. CASE ReclaimCheck
    BY <1>14 DEF ReclaimCheck
  <1>15. CASE ReclaimFree
    BY <1>15 DEF ReclaimFree
  <1>16. CASE BuildFail
    BY <1>16 DEF BuildFail
  <1>17. CASE BuildFailed
    BY <1>17 DEF BuildFailed
  <1>18. CASE DrainBegin
    BY <1>18 DEF DrainBegin
  <1>19. CASE DrainMark
    BY <1>19 DEF DrainMark
  <1>20. CASE DrainFail
    BY <1>20 DEF DrainFail
  <1>21. CASE DrainPublish
    BY <1>21 DEF DrainPublish
  <1>22. CASE DrainCount
    BY <1>22 DEF DrainCount
  <1>23. CASE DrainStop
    BY <1>23 DEF DrainStop
  <1>24. ASSUME NEW r \in Rows, BuildEncode(r)
        PROVE  UNCHANGED <<rowVars, upsertVars, searchVars, pc, build_thread_lock>>
    BY <1>24 DEF BuildEncode
  <1>25. ASSUME NEW r \in Rows, BuildLink(r)
        PROVE  UNCHANGED <<rowVars, upsertVars, searchVars, pc, build_thread_lock>>
    BY <1>25 DEF BuildLink
  <1>26. ASSUME NEW r \in Rows, DrainLink(r)
        PROVE  UNCHANGED <<rowVars, upsertVars, searchVars, pc, build_thread_lock>>
    BY <1>26 DEF DrainLink
  <1> QED
    BY <1>1, <1>2, <1>3, <1>4, <1>5, <1>6, <1>7, <1>8, <1>9, <1>10, <1>11, <1>12,
       <1>13, <1>14, <1>15, <1>16, <1>17, <1>18, <1>19, <1>20, <1>21, <1>22, <1>23,
       <1>24, <1>25, <1>26 DEF BuilderNext, DrainerNext

----------------------------------------------------------------------------
(* Locks. *)

\* Locks are taken and let go where LocksHeld says.
LEMMA LocksStep ==
  ASSUME TypeOK, LocksHeld, Next
  PROVE  LocksHeld'
PROOF
  <1> USE RolesAssumption
      DEF LocksHeld, Draining, PublishSteps, SettleSteps, TypeOK, LockTypes, StateTypes, BuildTypes,
      DrainTypes,
          lockVars, drainVars, buildVars, Goto
  <1>1. ASSUME NEW w \in Workers, WorkerNext(w) PROVE LocksHeld'
    <2>1. CASE BeginUpsert(w)
      BY <2>1 DEF BeginUpsert
    <2>2. CASE AppendPoint(w)
      BY <2>2 DEF AppendPoint
    <2>3. CASE RefuseAppend(w)
      BY <2>3 DEF RefuseAppend, LeaveBatch
    <2>4. CASE FinishBatch(w)
      BY <2>4 DEF FinishBatch, LeaveBatch
    <2>5. CASE InvalidateState(w)
      BY <2>5 DEF InvalidateState
    <2>6. CASE LoadTotal(w)
      BY <2>6 DEF LoadTotal
    <2>7. CASE InvalidateDecide(w)
      BY <2>7 DEF InvalidateDecide
    <2>8. CASE InvalidateStore(w)
      BY <2>8 DEF InvalidateStore
    <2>9. CASE MaybeDrain(w)
      BY <2>9 DEF MaybeDrain
    <2>10. CASE StartDrain(w)
      BY <2>10 DEF StartDrain
    <2>11. CASE PollAbsent(w)
      BY <2>11 DEF PollAbsent
    <2>12. CASE Exchange(w)
      BY <2>12 DEF Exchange
    <2>13. CASE JoinAndSpawn(w)
      BY <2>13 DEF JoinAndSpawn
    <2>14. CASE BeginSearch(w)
      BY <2>14 DEF BeginSearch
    <2>15. CASE OpenGraph(w)
      BY <2>15 DEF OpenGraph
    <2>16. CASE OpenStore(w)
      BY <2>16 DEF OpenStore
    <2>17. CASE LoadCovered(w)
      BY <2>17 DEF LoadCovered
    <2>18. CASE Traverse(w)
      BY <2>18 DEF Traverse
    <2>19. CASE ScanTail(w)
      BY <2>19 DEF ScanTail
    <2>20. CASE EndSearch(w)
      BY <2>20 DEF EndSearch
    <2>21. ASSUME NEW r \in Rows, AnnounceInPlace(w, r) PROVE LocksHeld'
      BY <2>21 DEF AnnounceInPlace
    <2>22. ASSUME NEW r \in Rows, OverwritePoint(w, r) PROVE LocksHeld'
      BY <2>22 DEF OverwritePoint, LeaveBatch
    <2>23. ASSUME NEW r \in Rows, DeletePoint(w, r) PROVE LocksHeld'
      BY <2>23 DEF DeletePoint
    <2> QED
      BY <1>1, <2>1, <2>2, <2>3, <2>4, <2>5, <2>6, <2>7, <2>8, <2>9, <2>10, <2>11,
         <2>12, <2>13, <2>14, <2>15, <2>16, <2>17, <2>18, <2>19, <2>20, <2>21,
         <2>22, <2>23 DEF WorkerNext
  <1>2. CASE BuilderNext
    <2>1. CASE BuildBegin
      BY <2>1 DEF BuildBegin, IndexWriterFree
    <2>2. CASE BuildEmpty
      BY <2>2 DEF BuildEmpty
    <2>3. CASE BuildOpenLog
      BY <2>3 DEF BuildOpenLog
    <2>4. CASE BuildExtend
      BY <2>4 DEF BuildExtend
    <2>5. CASE PublishStore
      BY <2>5 DEF PublishStore
    <2>6. CASE ReplayLog
      BY <2>6 DEF ReplayLog
    <2>7. CASE PublishGraph
      BY <2>7 DEF PublishGraph
    <2>8. CASE PublishCount
      BY <2>8 DEF PublishCount
    <2>9. CASE PublishMoved
      BY <2>9 DEF PublishMoved
    <2>10. CASE PublishReady
      BY <2>10 DEF PublishReady
    <2>11. CASE Settle
      BY <2>11 DEF Settle, Unlock
    <2>12. CASE StepAside
      BY <2>12 DEF StepAside, Unlock
    <2>13. CASE Retire
      BY <2>13 DEF Retire
    <2>14. CASE ReclaimCheck
      BY <2>14 DEF ReclaimCheck
    <2>15. CASE ReclaimFree
      BY <2>15 DEF ReclaimFree
    <2>16. CASE BuildFail
      BY <2>16 DEF BuildFail
    <2>17. CASE BuildFailed
      BY <2>17 DEF BuildFailed
    <2>18. ASSUME NEW r \in Rows, BuildEncode(r) PROVE LocksHeld'
      BY <2>18 DEF BuildEncode
    <2>19. ASSUME NEW r \in Rows, BuildLink(r) PROVE LocksHeld'
      BY <2>19 DEF BuildLink
    <2> QED
      BY <1>2, <2>1, <2>2, <2>3, <2>4, <2>5, <2>6, <2>7, <2>8, <2>9, <2>10, <2>11,
         <2>12, <2>13, <2>14, <2>15, <2>16, <2>17, <2>18, <2>19 DEF BuilderNext
  <1>3. CASE DrainerNext
    <2>1. CASE DrainBegin
      BY <2>1 DEF DrainBegin, IndexWriterFree
    <2>2. CASE DrainMark
      BY <2>2 DEF DrainMark
    <2>3. CASE DrainFail
      BY <2>3 DEF DrainFail
    <2>4. CASE DrainPublish
      BY <2>4 DEF DrainPublish
    <2>5. CASE DrainCount
      BY <2>5 DEF DrainCount
    <2>6. CASE DrainStop
      BY <2>6 DEF DrainStop
    <2>7. ASSUME NEW r \in Rows, DrainLink(r) PROVE LocksHeld'
      BY <2>7 DEF DrainLink
    <2> QED
      BY <1>3, <2>1, <2>2, <2>3, <2>4, <2>5, <2>6, <2>7 DEF DrainerNext
  <1> QED BY <1>1, <1>2, <1>3 DEF Next

----------------------------------------------------------------------------
(* Counts. *)

\* One step keeps the counts of the graphs in order.
LEMMA CountsStep ==
  ASSUME CollectionInv, LocksHeld, CountsHeld, Next
  PROVE  CountsHeld'
PROOF
  <1> USE HeapAssumption, RolesAssumption, BoundsAssumption
      DEF CollectionInv, Handles, GraphsHeld, LocksHeld, PublishSteps, SettleSteps, CountsHeld,
      CountsAgree,
          Draining, Making, TypeOK, RowTypes, GraphTypes, StoreTypes, BuildTypes,
          DrainTypes, LockTypes, rowVars, graphVars, storeVars, drainVars, lockVars,
          buildVars
  <1>1. ASSUME NEW w \in Workers, WorkerNext(w) PROVE CountsHeld'
    <2>1. CASE AppendPoint(w)
      BY <2>1 DEF AppendPoint
    <2>2. ASSUME NEW r \in Rows, OverwritePoint(w, r) PROVE CountsHeld'
      BY <2>2 DEF OverwritePoint, NoteOverwrite
    <2>3. CASE Quiet
      BY <2>3 DEF Quiet, indexVars
    <2> QED BY <1>1, <2>1, <2>2, <2>3, WorkerMoves
  <1>2. CASE BuilderNext
    <2>1. CASE BuildBegin
      BY <2>1 DEF BuildBegin, IndexWriterFree
    <2>2. CASE BuildEmpty
      BY <2>2 DEF BuildEmpty
    <2>3. CASE BuildOpenLog
      BY <2>3 DEF BuildOpenLog
    <2>4. CASE BuildExtend
      BY <2>4 DEF BuildExtend, ExtendFrom
    <2>5. CASE PublishStore
      BY <2>5 DEF PublishStore
    <2>6. CASE ReplayLog
      BY <2>6 DEF ReplayLog
    <2>7. CASE PublishGraph
      BY <2>7 DEF PublishGraph
    <2>8. CASE PublishCount
      BY <2>8 DEF PublishCount
    <2>9. CASE PublishMoved
      BY <2>9 DEF PublishMoved
    <2>10. CASE PublishReady
      BY <2>10 DEF PublishReady
    <2>11. CASE Settle
      BY <2>11 DEF Settle, Unlock
    <2>12. CASE StepAside
      BY <2>12 DEF StepAside, Unlock
    <2>13. CASE Retire
      BY <2>13 DEF Retire
    <2>14. CASE ReclaimCheck
      BY <2>14 DEF ReclaimCheck
    <2>15. CASE ReclaimFree
      BY <2>15 DEF ReclaimFree
    <2>16. CASE BuildFail
      BY <2>16 DEF BuildFail
    <2>17. CASE BuildFailed
      BY <2>17 DEF BuildFailed
    <2>18. ASSUME NEW r \in Rows, BuildEncode(r) PROVE CountsHeld'
      BY <2>18 DEF BuildEncode
    <2>19. ASSUME NEW r \in Rows, BuildLink(r) PROVE CountsHeld'
      BY <2>19 DEF BuildLink, Quantized
    <2> QED
      BY <1>2, <2>1, <2>2, <2>3, <2>4, <2>5, <2>6, <2>7, <2>8, <2>9, <2>10, <2>11,
         <2>12, <2>13, <2>14, <2>15, <2>16, <2>17, <2>18, <2>19 DEF BuilderNext
  <1>3. CASE DrainerNext
    <2>1. CASE DrainBegin
      BY <2>1 DEF DrainBegin, IndexWriterFree, MayDrain, ChunkEnd
    <2>2. CASE DrainMark
      BY <2>2 DEF DrainMark
    <2>3. CASE DrainFail
      BY <2>3 DEF DrainFail
    <2>4. CASE DrainPublish
      BY <2>4 DEF DrainPublish
    <2>5. CASE DrainCount
      BY <2>5 DEF DrainCount
    <2>6. CASE DrainStop
      BY <2>6 DEF DrainStop
    <2>7. ASSUME NEW r \in Rows, DrainLink(r) PROVE CountsHeld'
      BY <2>7 DEF DrainLink
    <2> QED
      BY <1>3, <2>1, <2>2, <2>3, <2>4, <2>5, <2>6, <2>7 DEF DrainerNext
  <1> QED BY <1>1, <1>2, <1>3 DEF Next

----------------------------------------------------------------------------
(* Links. *)

\* One step keeps every row a graph covers linked in it.
LEMMA LinksStep ==
  ASSUME CollectionInv, LocksHeld, CountsHeld, LinksHeld, Next
  PROVE  LinksHeld'
PROOF
  <1> USE HeapAssumption, RolesAssumption, BoundsAssumption
      DEF CollectionInv, Handles, GraphsHeld, LocksHeld, PublishSteps, SettleSteps, CountsHeld,
      CountsAgree,
          LinksHeld, Draining, Making, TypeOK, RowTypes, GraphTypes, StoreTypes,
          BuildTypes, DrainTypes, LockTypes, Rows, Pos, rowVars, graphVars,
          storeVars, drainVars, lockVars, buildVars
  <1>1. ASSUME NEW w \in Workers, WorkerNext(w) PROVE LinksHeld'
    <2>1. CASE AppendPoint(w)
      BY <2>1 DEF AppendPoint
    <2>2. ASSUME NEW r \in Rows, OverwritePoint(w, r) PROVE LinksHeld'
      BY <2>2 DEF OverwritePoint, NoteOverwrite, Outdate
    <2>3. CASE Quiet
      BY <2>3 DEF Quiet, indexVars
    <2> QED BY <1>1, <2>1, <2>2, <2>3, WorkerMoves
  <1>2. CASE BuilderNext
    <2>1. CASE BuildBegin
      BY <2>1 DEF BuildBegin, IndexWriterFree
    <2>2. CASE BuildEmpty
      BY <2>2 DEF BuildEmpty
    <2>3. CASE BuildOpenLog
      BY <2>3 DEF BuildOpenLog
    <2>4. CASE BuildExtend
      BY <2>4 DEF BuildExtend, ExtendFrom
    <2>5. CASE PublishStore
      BY <2>5 DEF PublishStore
    <2>6. CASE ReplayLog
      BY <2>6 DEF ReplayLog
    <2>7. CASE PublishGraph
      BY <2>7 DEF PublishGraph
    <2>8. CASE PublishCount
      BY <2>8 DEF PublishCount
    <2>9. CASE PublishMoved
      BY <2>9 DEF PublishMoved
    <2>10. CASE PublishReady
      BY <2>10 DEF PublishReady
    <2>11. CASE Settle
      BY <2>11 DEF Settle, Unlock
    <2>12. CASE StepAside
      BY <2>12 DEF StepAside, Unlock
    <2>13. CASE Retire
      BY <2>13 DEF Retire
    <2>14. CASE ReclaimCheck
      BY <2>14 DEF ReclaimCheck
    <2>15. CASE ReclaimFree
      BY <2>15 DEF ReclaimFree
    <2>16. CASE BuildFail
      BY <2>16 DEF BuildFail
    <2>17. CASE BuildFailed
      BY <2>17 DEF BuildFailed
    <2>18. ASSUME NEW r \in Rows, BuildEncode(r) PROVE LinksHeld'
      BY <2>18 DEF BuildEncode
    <2>19. ASSUME NEW r \in Rows, BuildLink(r) PROVE LinksHeld'
      BY <2>19 DEF BuildLink, Quantized
    <2> QED
      BY <1>2, <2>1, <2>2, <2>3, <2>4, <2>5, <2>6, <2>7, <2>8, <2>9, <2>10, <2>11,
         <2>12, <2>13, <2>14, <2>15, <2>16, <2>17, <2>18, <2>19 DEF BuilderNext
  <1>3. CASE DrainerNext
    <2>1. CASE DrainBegin
      BY <2>1 DEF DrainBegin, IndexWriterFree, MayDrain, ChunkEnd
    <2>2. CASE DrainMark
      BY <2>2 DEF DrainMark
    <2>3. CASE DrainFail
      BY <2>3 DEF DrainFail
    <2>4. CASE DrainPublish
      BY <2>4 DEF DrainPublish
    <2>5. CASE DrainCount
      BY <2>5 DEF DrainCount
    <2>6. CASE DrainStop
      BY <2>6 DEF DrainStop
    <2>7. ASSUME NEW r \in Rows, DrainLink(r) PROVE LinksHeld'
      BY <2>7 DEF DrainLink
    <2> QED
      BY <1>3, <2>1, <2>2, <2>3, <2>4, <2>5, <2>6, <2>7 DEF DrainerNext
  <1> QED BY <1>1, <1>2, <1>3 DEF Next

----------------------------------------------------------------------------
(* Overwrites. *)

\* What is linked past the published count stays announced and in reach.
LEMMA DrainedStep ==
  ASSUME CollectionInv, LocksHeld, CountsHeld, LinksHeld, DrainedAnnounced, Next
  PROVE  DrainedAnnounced'
PROOF
  <1> USE HeapAssumption, RolesAssumption, BoundsAssumption
      DEF CollectionInv, Handles, GraphsHeld, LocksHeld, PublishSteps, SettleSteps, CountsHeld,
      CountsAgree,
          LinksHeld, Draining, Making, TypeOK, RowTypes, GraphTypes, StoreTypes,
          WriteTypes, BuildTypes, DrainTypes, LockTypes, Rows, Pos, rowVars, graphVars,
          storeVars, writeVars, drainVars, lockVars, buildVars, DrainedAnnounced
  <1>1. ASSUME NEW w \in Workers, WorkerNext(w) PROVE DrainedAnnounced'
    <2>1. CASE AppendPoint(w)
      BY <2>1 DEF AppendPoint
    <2>2. ASSUME NEW r \in Rows, OverwritePoint(w, r) PROVE DrainedAnnounced'
      BY <2>2 DEF OverwritePoint, NoteOverwrite, Outdate
    <2>3. CASE Quiet
      BY <2>3 DEF Quiet, indexVars
    <2> QED BY <1>1, <2>1, <2>2, <2>3, WorkerMoves
  <1>2. CASE BuilderNext
    <2>1. CASE BuildBegin
      BY <2>1 DEF BuildBegin, IndexWriterFree
    <2>2. CASE BuildEmpty
      BY <2>2 DEF BuildEmpty
    <2>3. CASE BuildOpenLog
      BY <2>3 DEF BuildOpenLog
    <2>4. CASE BuildExtend
      BY <2>4 DEF BuildExtend, ExtendFrom
    <2>5. CASE PublishStore
      BY <2>5 DEF PublishStore
    <2>6. CASE ReplayLog
      BY <2>6 DEF ReplayLog, Moved
    <2>7. CASE PublishGraph
      BY <2>7 DEF PublishGraph
    <2>8. CASE PublishCount
      BY <2>8 DEF PublishCount
    <2>9. CASE PublishMoved
      BY <2>9 DEF PublishMoved
    <2>10. CASE PublishReady
      BY <2>10 DEF PublishReady
    <2>11. CASE Settle
      BY <2>11 DEF Settle, Unlock
    <2>12. CASE StepAside
      BY <2>12 DEF StepAside, Unlock
    <2>13. CASE Retire
      BY <2>13 DEF Retire
    <2>14. CASE ReclaimCheck
      BY <2>14 DEF ReclaimCheck
    <2>15. CASE ReclaimFree
      BY <2>15 DEF ReclaimFree
    <2>16. CASE BuildFail
      BY <2>16 DEF BuildFail
    <2>17. CASE BuildFailed
      BY <2>17 DEF BuildFailed
    <2>18. ASSUME NEW r \in Rows, BuildEncode(r) PROVE DrainedAnnounced'
      BY <2>18 DEF BuildEncode
    <2>19. ASSUME NEW r \in Rows, BuildLink(r) PROVE DrainedAnnounced'
      BY <2>19 DEF BuildLink, Quantized
    <2> QED
      BY <1>2, <2>1, <2>2, <2>3, <2>4, <2>5, <2>6, <2>7, <2>8, <2>9, <2>10, <2>11,
         <2>12, <2>13, <2>14, <2>15, <2>16, <2>17, <2>18, <2>19 DEF BuilderNext
  <1>3. CASE DrainerNext
    <2>1. CASE DrainBegin
      BY <2>1 DEF DrainBegin, IndexWriterFree, MayDrain, ChunkEnd
    <2>2. CASE DrainMark
      BY <2>2 DEF DrainMark
    <2>3. CASE DrainFail
      BY <2>3 DEF DrainFail
    <2>4. CASE DrainPublish
      BY <2>4 DEF DrainPublish
    <2>5. CASE DrainCount
      BY <2>5 DEF DrainCount
    <2>6. CASE DrainStop
      BY <2>6 DEF DrainStop
    <2>7. ASSUME NEW r \in Rows, DrainLink(r) PROVE DrainedAnnounced'
      BY <2>7 DEF DrainLink
    <2> QED
      BY <1>3, <2>1, <2>2, <2>3, <2>4, <2>5, <2>6, <2>7 DEF DrainerNext
  <1> QED BY <1>1, <1>2, <1>3 DEF Next

\* Rows are finitely many, so sets of them can be counted.
LEMMA RowsFinite ==
  ASSUME NEW S \in SUBSET Rows
  PROVE  IsFiniteSet(S) /\ Cardinality(S) \in Nat
PROOF
  <1>1. IsFiniteSet(Rows)
    BY BoundsAssumption, FS_Interval DEF Rows
  <1> QED BY <1>1, FS_Subset, FS_CardinalityType

\* A graph none of whose stale rows is counted has none.
LEMMA NoneStale ==
  ASSUME StaleRowsCounted, overwritten_since_build = 0, bpc \notin {"count", "moved"}
  PROVE  StaleRows = {}
PROOF
  <1>1. StaleRows \in SUBSET Rows
    BY DEF StaleRows
  <1>2. Cardinality(StaleRows) = 0
    BY <1>1, RowsFinite DEF StaleRowsCounted
  <1> QED BY <1>1, <1>2, RowsFinite, FS_EmptySet

\* The log is open from before the build reads a row to its publish.
LEMMA LoggedStep ==
  ASSUME CollectionInv, LocksHeld, CountsHeld, LinksHeld, OverwritesLogged,
         StaleRowsCounted, Next
  PROVE  OverwritesLogged'
PROOF
  <1> USE HeapAssumption, RolesAssumption, BoundsAssumption
      DEF CollectionInv, Handles, GraphsHeld, LocksHeld, PublishSteps, SettleSteps, CountsHeld,
      CountsAgree,
          LinksHeld, Draining, Making, TypeOK, RowTypes, GraphTypes, StoreTypes,
          WriteTypes, BuildTypes, DrainTypes, LockTypes, Rows, Pos, rowVars, graphVars,
          storeVars, writeVars, drainVars, lockVars, buildVars, OverwritesLogged
  <1>1. ASSUME NEW w \in Workers, WorkerNext(w) PROVE OverwritesLogged'
    <2>1. CASE AppendPoint(w)
      BY <2>1 DEF AppendPoint
    <2>2. ASSUME NEW r \in Rows, OverwritePoint(w, r) PROVE OverwritesLogged'
      BY <2>2 DEF OverwritePoint, NoteOverwrite, Outdate
    <2>3. CASE Quiet
      BY <2>3 DEF Quiet, indexVars
    <2> QED BY <1>1, <2>1, <2>2, <2>3, WorkerMoves
  <1>2. CASE BuilderNext
    <2>1. CASE BuildBegin
      BY <2>1 DEF BuildBegin, IndexWriterFree
    <2>2. CASE BuildEmpty
      BY <2>2 DEF BuildEmpty
    <2>3. CASE BuildOpenLog
      BY <2>3 DEF BuildOpenLog
    <2>4. CASE BuildExtend
      <3>1. overwrite_log_active'
        BY <2>4 DEF BuildExtend
      <3>2. ASSUME NEW r \in Rows, node'[newg'][r] = "stale" PROVE FALSE
        <4>1. node'[newg][r] = IF r < ExtendFrom THEN node[graph][r] ELSE "none"
          BY <2>4 DEF BuildExtend
        <4>2. newg' = newg
          BY <2>4 DEF BuildExtend
        <4>3. r < ExtendFrom /\ node[graph][r] = "stale"
          BY <3>2, <4>1, <4>2
        <4>4. graph # NoGraph /\ overwritten_since_build = 0
          BY <4>3 DEF ExtendFrom
        <4>5. StaleRowsCounted
          OBVIOUS
        <4>6. StaleRows = {}
          BY <2>4, <4>4, <4>5, NoneStale DEF BuildExtend
        <4> QED BY <4>3, <4>4, <4>6 DEF StaleRows
      <3> QED BY <3>1, <3>2
    <2>5. CASE PublishStore
      BY <2>5 DEF PublishStore
    <2>6. CASE ReplayLog
      BY <2>6 DEF ReplayLog, Moved
    <2>7. CASE PublishGraph
      BY <2>7 DEF PublishGraph
    <2>8. CASE PublishCount
      BY <2>8 DEF PublishCount
    <2>9. CASE PublishMoved
      BY <2>9 DEF PublishMoved
    <2>10. CASE PublishReady
      BY <2>10 DEF PublishReady
    <2>11. CASE Settle
      BY <2>11 DEF Settle, Unlock
    <2>12. CASE StepAside
      BY <2>12 DEF StepAside, Unlock
    <2>13. CASE Retire
      BY <2>13 DEF Retire
    <2>14. CASE ReclaimCheck
      BY <2>14 DEF ReclaimCheck
    <2>15. CASE ReclaimFree
      BY <2>15 DEF ReclaimFree
    <2>16. CASE BuildFail
      BY <2>16 DEF BuildFail
    <2>17. CASE BuildFailed
      BY <2>17 DEF BuildFailed
    <2>18. ASSUME NEW r \in Rows, BuildEncode(r) PROVE OverwritesLogged'
      BY <2>18 DEF BuildEncode
    <2>19. ASSUME NEW r \in Rows, BuildLink(r) PROVE OverwritesLogged'
      BY <2>19 DEF BuildLink, Quantized
    <2> QED
      BY <1>2, <2>1, <2>2, <2>3, <2>4, <2>5, <2>6, <2>7, <2>8, <2>9, <2>10, <2>11,
         <2>12, <2>13, <2>14, <2>15, <2>16, <2>17, <2>18, <2>19 DEF BuilderNext
  <1>3. CASE DrainerNext
    <2>1. CASE DrainBegin
      BY <2>1 DEF DrainBegin, IndexWriterFree, MayDrain, ChunkEnd
    <2>2. CASE DrainMark
      BY <2>2 DEF DrainMark
    <2>3. CASE DrainFail
      BY <2>3 DEF DrainFail
    <2>4. CASE DrainPublish
      BY <2>4 DEF DrainPublish
    <2>5. CASE DrainCount
      BY <2>5 DEF DrainCount
    <2>6. CASE DrainStop
      BY <2>6 DEF DrainStop
    <2>7. ASSUME NEW r \in Rows, DrainLink(r) PROVE OverwritesLogged'
      BY <2>7 DEF DrainLink
    <2> QED
      BY <1>3, <2>1, <2>2, <2>3, <2>4, <2>5, <2>6, <2>7 DEF DrainerNext
  <1> QED BY <1>1, <1>2, <1>3 DEF Next

\* No row of the next graph turns stale between the replay and the publish:
\* write_lock is held.
LEMMA MovedStep ==
  ASSUME CollectionInv, LocksHeld, LinksHeld, OverwritesLogged, MovedCounted, Next
  PROVE  MovedCounted'
PROOF
  <1> SUFFICES ASSUME bpc' = "graph" PROVE Cardinality(NewStaleRows') <= moved'
    BY DEF MovedCounted
  <1> USE RolesAssumption
      DEF CollectionInv, TypeOK, LockTypes, GraphTypes, BuildTypes, LocksHeld, Draining,
          PublishSteps, SettleSteps, NewStaleRows
  <1>1. ASSUME NEW w \in Workers, WorkerNext(w) PROVE MovedCounted'
    <2>1. CASE AppendPoint(w)
      BY <2>1 DEF AppendPoint, MovedCounted, graphVars, buildVars
    <2>2. ASSUME NEW r \in Rows, OverwritePoint(w, r) PROVE MovedCounted'
      BY <2>2 DEF OverwritePoint, buildVars, MovedCounted
    <2>3. CASE Quiet
      BY <2>3 DEF Quiet, indexVars, graphVars, MovedCounted
    <2> QED BY <1>1, <2>1, <2>2, <2>3, WorkerMoves
  <1>2. CASE ReplayLog
    <2>1. NewStaleRows' \subseteq Moved /\ Moved \in SUBSET Rows
      BY <1>2 DEF ReplayLog, Moved, OverwritesLogged, LinksHeld, Making, graphVars, WriteTypes
    <2>2. Cardinality(NewStaleRows') <= Cardinality(Moved)
      BY <2>1, RowsFinite, FS_Subset
    <2> QED BY <1>2, <2>2 DEF ReplayLog, MovedCounted
  <1>3. CASE BuilderNext /\ ~ ReplayLog
    BY <1>3 DEF BuilderNext, BuildBegin, BuildEmpty, BuildOpenLog, BuildExtend, BuildEncode,
       BuildLink, PublishStore, PublishGraph, PublishCount, PublishMoved, PublishReady,
       Settle, StepAside, Unlock, Retire, ReclaimCheck, ReclaimFree, BuildFail, BuildFailed
  <1>4. CASE DrainerNext
    <2>1. bpc = "graph" /\ dpc \notin Draining
      BY <1>4 DEF DrainerNext, DrainBegin, DrainMark, DrainLink, DrainFail, DrainPublish,
         DrainCount, DrainStop, buildVars
    <2> QED
      BY <1>4, <2>1 DEF MovedCounted, DrainerNext, DrainBegin, IndexWriterFree, DrainMark,
         DrainLink, DrainFail, DrainPublish, DrainCount, DrainStop, buildVars, graphVars
  <1> QED BY <1>1, <1>2, <1>3, <1>4 DEF Next, MovedCounted

\* A set of rows that gains at most one has at most one more.
LEMMA OneMoreRow ==
  ASSUME NEW S \in SUBSET Rows, NEW T \in SUBSET Rows, NEW r \in Rows,
         T \subseteq S \cup {r}
  PROVE  Cardinality(T) <= Cardinality(S) + 1
PROOF
  <1>1. S \cup {r} \in SUBSET Rows
    OBVIOUS
  <1>2. Cardinality(T) <= Cardinality(S \cup {r})
    BY <1>1, RowsFinite, FS_Subset
  <1>3. Cardinality(S \cup {r}) <= Cardinality(S) + 1
    BY RowsFinite, FS_AddElement
  <1> QED BY <1>1, <1>2, <1>3, RowsFinite

\* No row turns stale in the published graph uncounted.
LEMMA StaleStep ==
  ASSUME CollectionInv, LocksHeld, CountsHeld, LinksHeld, StaleHeld, Next
  PROVE  StaleRowsCounted'
PROOF
  <1> DEFINE Told == IF bpc \in {"count", "moved"} THEN moved ELSE overwritten_since_build
             NoneCame == StaleRows' \subseteq StaleRows /\ Told' = Told
  <1>1. StaleRows \in SUBSET Rows /\ StaleRows' \in SUBSET Rows
    BY DEF StaleRows
  <1>2. Told \in Nat /\ Cardinality(StaleRows) \in Nat /\ Cardinality(StaleRows) <= Told
    BY <1>1, RowsFinite DEF CollectionInv, TypeOK, WriteTypes, BuildTypes, StaleHeld,
       StaleRowsCounted
  <1>3. ASSUME NoneCame PROVE StaleRowsCounted'
    <2>1. Cardinality(StaleRows') <= Cardinality(StaleRows)
      BY <1>1, <1>3, RowsFinite, FS_Subset
    <2> QED BY <1>1, <1>2, <1>3, <2>1, RowsFinite DEF StaleRowsCounted
  <1> HIDE DEF NoneCame
  <1> USE HeapAssumption, RolesAssumption, BoundsAssumption
      DEF CollectionInv, Handles, GraphsHeld, LocksHeld, PublishSteps, SettleSteps, CountsHeld,
      CountsAgree,
          LinksHeld, Draining, Making, TypeOK, RowTypes, GraphTypes, StoreTypes,
          WriteTypes, BuildTypes, DrainTypes, LockTypes, Rows, Pos, rowVars, graphVars,
          storeVars, writeVars, drainVars, lockVars, buildVars, StaleHeld,
          DrainedAnnounced, OverwritesLogged
  <1>4. ASSUME NEW w \in Workers, WorkerNext(w) PROVE StaleRowsCounted'
    <2>1. CASE AppendPoint(w)
      <3>1. NoneCame
        BY <2>1 DEF AppendPoint, NoneCame, StaleRows
      <3> QED BY <3>1, <1>3
    <2>2. ASSUME NEW r \in Rows, OverwritePoint(w, r) PROVE StaleRowsCounted'
      <3>1. StaleRows' \subseteq StaleRows \cup {r}
        BY <2>2 DEF OverwritePoint, NoteOverwrite, Outdate, StaleRows
      <3>2. CASE Counted(r)
        <4>1. Told' = Told + 1
          BY <2>2, <3>2 DEF OverwritePoint, NoteOverwrite
        <4>2. Cardinality(StaleRows') <= Cardinality(StaleRows) + 1
          BY <1>1, <3>1, OneMoreRow
        <4>3. Cardinality(StaleRows') \in Nat
          BY <1>1, RowsFinite
        <4>4. Cardinality(StaleRows') <= Told'
          <5> HIDE DEF Told
          <5> QED BY <1>2, <4>1, <4>2, <4>3
        <4> QED BY <4>4 DEF StaleRowsCounted
      <3>3. CASE ~ Counted(r)
        <4>0. bpc # "count"
          BY <2>2 DEF OverwritePoint
        <4>1. graph # NoGraph => node[graph][r] = "none"
          BY <3>3, <4>0 DEF Counted
        <4>2. StaleRows' \subseteq StaleRows
          BY <2>2, <4>1 DEF OverwritePoint, NoteOverwrite, Outdate, StaleRows
        <4>3. Told' = Told
          BY <2>2, <3>3, <1>2 DEF OverwritePoint, NoteOverwrite
        <4> QED BY <4>2, <4>3, <1>3 DEF NoneCame
      <3> QED BY <3>2, <3>3
    <2>3. CASE Quiet
      <3>1. NoneCame
        BY <2>3 DEF Quiet, indexVars, NoneCame, StaleRows
      <3> QED BY <3>1, <1>3
    <2> QED BY <1>4, <2>1, <2>2, <2>3, WorkerMoves
  <1>5. CASE PublishGraph
    <2>1. StaleRows' \subseteq NewStaleRows /\ NewStaleRows \in SUBSET Rows
      BY <1>5 DEF PublishGraph, StaleRows, NewStaleRows
    <2>2. Told' = moved /\ moved \in Nat /\ Cardinality(NewStaleRows) <= moved
      BY <1>5 DEF PublishGraph, MovedCounted
    <2>3. Cardinality(StaleRows') <= Cardinality(NewStaleRows)
      BY <2>1, RowsFinite, FS_Subset
    <2>4. Cardinality(NewStaleRows) \in Nat /\ Cardinality(StaleRows') \in Nat
      BY <1>1, <2>1, RowsFinite
    <2>5. Cardinality(StaleRows') <= Told'
      <3> HIDE DEF Told
      <3> QED BY <2>2, <2>3, <2>4
    <2> QED BY <2>5 DEF StaleRowsCounted
  <1>6. ASSUME BuilderNext, ~ PublishGraph PROVE NoneCame
    <2>1. CASE BuildBegin
      BY <2>1 DEF BuildBegin, IndexWriterFree, NoneCame, StaleRows
    <2>2. CASE BuildEmpty
      BY <2>2 DEF BuildEmpty, NoneCame, StaleRows
    <2>3. CASE BuildOpenLog
      BY <2>3 DEF BuildOpenLog, NoneCame, StaleRows
    <2>4. CASE BuildExtend
      BY <2>4 DEF BuildExtend, ExtendFrom, NoneCame, StaleRows
    <2>5. CASE PublishStore
      BY <2>5 DEF PublishStore, NoneCame, StaleRows
    <2>6. CASE ReplayLog
      BY <2>6 DEF ReplayLog, NoneCame, StaleRows
    <2>7. CASE PublishCount
      BY <2>7 DEF PublishCount, NoneCame, StaleRows
    <2>8. CASE PublishMoved
      BY <2>8 DEF PublishMoved, NoneCame, StaleRows
    <2>9. CASE PublishReady
      BY <2>9 DEF PublishReady, NoneCame, StaleRows
    <2>10. CASE Settle
      BY <2>10 DEF Settle, Unlock, NoneCame, StaleRows
    <2>11. CASE StepAside
      BY <2>11 DEF StepAside, Unlock, NoneCame, StaleRows
    <2>12. CASE Retire
      BY <2>12 DEF Retire, NoneCame, StaleRows
    <2>13. CASE ReclaimCheck
      BY <2>13 DEF ReclaimCheck, NoneCame, StaleRows
    <2>14. CASE ReclaimFree
      BY <2>14 DEF ReclaimFree, NoneCame, StaleRows
    <2>15. CASE BuildFail
      BY <2>15 DEF BuildFail, NoneCame, StaleRows
    <2>16. CASE BuildFailed
      BY <2>16 DEF BuildFailed, NoneCame, StaleRows
    <2>17. ASSUME NEW r \in Rows, BuildEncode(r) PROVE NoneCame
      BY <2>17 DEF BuildEncode, NoneCame, StaleRows
    <2>18. ASSUME NEW r \in Rows, BuildLink(r) PROVE NoneCame
      BY <2>18 DEF BuildLink, Quantized, NoneCame, StaleRows
    <2> QED
      BY <1>6, <2>1, <2>2, <2>3, <2>4, <2>5, <2>6, <2>7, <2>8, <2>9, <2>10, <2>11,
         <2>12, <2>13, <2>14, <2>15, <2>16, <2>17, <2>18 DEF BuilderNext
  <1>7. ASSUME DrainerNext PROVE NoneCame
    <2>1. CASE DrainBegin
      BY <2>1 DEF DrainBegin, IndexWriterFree, MayDrain, ChunkEnd, NoneCame, StaleRows
    <2>2. CASE DrainMark
      BY <2>2 DEF DrainMark, NoneCame, StaleRows
    <2>3. CASE DrainFail
      BY <2>3 DEF DrainFail, NoneCame, StaleRows
    <2>4. CASE DrainPublish
      BY <2>4 DEF DrainPublish, NoneCame, StaleRows
    <2>5. CASE DrainCount
      BY <2>5 DEF DrainCount, NoneCame, StaleRows
    <2>6. CASE DrainStop
      BY <2>6 DEF DrainStop, NoneCame, StaleRows
    <2>7. ASSUME NEW r \in Rows, DrainLink(r) PROVE NoneCame
      BY <2>7 DEF DrainLink, NoneCame, StaleRows
    <2> QED
      BY <1>7, <2>1, <2>2, <2>3, <2>4, <2>5, <2>6, <2>7 DEF DrainerNext
  <1> QED BY <1>3, <1>4, <1>5, <1>6, <1>7 DEF Next

----------------------------------------------------------------------------
(* Answers. *)

\* While a search holds a graph, the graph's count only grows.
LEMMA HeldCountsGrow ==
  ASSUME CollectionInv, LocksHeld, CountsHeld, BuilderNext \/ DrainerNext,
         NEW w \in Workers, hgraph[w] # NoGraph
  PROVE  count'[hgraph[w]] >= count[hgraph[w]]
PROOF
  <1> USE HeapAssumption
      DEF CollectionInv, Handles, GraphsHeld, NoOldReaders, LocksHeld, PublishSteps, SettleSteps,
      CountsHeld,
          CountsAgree, Draining, Making, TypeOK, GraphTypes, SearchTypes, DrainTypes,
          BuildTypes, graphVars
  <1> DEFINE Grows == count'[hgraph[w]] >= count[hgraph[w]]
  <1>1. CASE BuilderNext
    <2>1. CASE BuildBegin
      BY <2>1 DEF BuildBegin
    <2>2. CASE BuildEmpty
      BY <2>2 DEF BuildEmpty
    <2>3. CASE BuildOpenLog
      BY <2>3 DEF BuildOpenLog
    <2>4. CASE BuildExtend
      BY <2>4 DEF BuildExtend
    <2>5. CASE PublishStore
      BY <2>5 DEF PublishStore
    <2>6. CASE ReplayLog
      BY <2>6 DEF ReplayLog
    <2>7. CASE PublishGraph
      BY <2>7 DEF PublishGraph
    <2>8. CASE PublishCount
      BY <2>8 DEF PublishCount
    <2>9. CASE PublishMoved
      BY <2>9 DEF PublishMoved
    <2>10. CASE PublishReady
      BY <2>10 DEF PublishReady
    <2>11. CASE Settle
      BY <2>11 DEF Settle, Unlock
    <2>12. CASE StepAside
      BY <2>12 DEF StepAside, Unlock
    <2>13. CASE Retire
      BY <2>13 DEF Retire
    <2>14. CASE ReclaimCheck
      BY <2>14 DEF ReclaimCheck
    <2>15. CASE ReclaimFree
      BY <2>15 DEF ReclaimFree
    <2>16. CASE BuildFail
      BY <2>16 DEF BuildFail
    <2>17. CASE BuildFailed
      BY <2>17 DEF BuildFailed
    <2>18. ASSUME NEW r \in Rows, BuildEncode(r) PROVE Grows
      BY <2>18 DEF BuildEncode
    <2>19. ASSUME NEW r \in Rows, BuildLink(r) PROVE Grows
      BY <2>19 DEF BuildLink
    <2> QED
      BY <1>1, <2>1, <2>2, <2>3, <2>4, <2>5, <2>6, <2>7, <2>8, <2>9, <2>10, <2>11,
         <2>12, <2>13, <2>14, <2>15, <2>16, <2>17, <2>18, <2>19 DEF BuilderNext
  <1>2. CASE DrainerNext
    <2>1. CASE DrainBegin
      BY <2>1 DEF DrainBegin
    <2>2. CASE DrainMark
      BY <2>2 DEF DrainMark
    <2>3. CASE DrainFail
      BY <2>3 DEF DrainFail
    <2>4. CASE DrainPublish
      <3>1. index_writer = Drainer /\ bpc # "count" /\ graph \in heap
        BY <2>4, RolesAssumption DEF DrainPublish
      <3>2. graph_count = count[graph] /\ graph_count < drain_end
        BY <2>4, <3>1 DEF DrainPublish
      <3> QED BY <2>4, <3>1, <3>2 DEF DrainPublish
    <2>5. CASE DrainCount
      BY <2>5 DEF DrainCount
    <2>6. CASE DrainStop
      BY <2>6 DEF DrainStop
    <2>7. ASSUME NEW r \in Rows, DrainLink(r) PROVE Grows
      BY <2>7 DEF DrainLink
    <2> QED
      BY <1>2, <2>1, <2>2, <2>3, <2>4, <2>5, <2>6, <2>7 DEF DrainerNext
  <1> QED BY <1>1, <1>2

\* What a search has loaded bounds what it has seen, whoever moves.
LEMMA AnswerStep ==
  ASSUME CollectionInv, LocksHeld, CountsHeld, LinksHeld, SearchHeld, Next
  PROVE  SearchHeld'
PROOF
  <1> USE HeapAssumption, BoundsAssumption
      DEF SearchHeld, AnswerHeld, EachRowOnce, CollectionInv, Handles, HandlesInSearch,
          GraphsHeld, LinksHeld, TypeOK, RowTypes, GraphTypes, SearchTypes, StateTypes,
          UpsertTypes, SearchSteps, Rows, rowVars, graphVars, upsertVars, searchVars, Goto
  <1>1. ASSUME NEW w \in Workers, WorkerNext(w) PROVE SearchHeld'
    <2>1. CASE BeginUpsert(w)
      BY <2>1 DEF BeginUpsert
    <2>2. CASE AppendPoint(w)
      BY <2>2 DEF AppendPoint
    <2>3. CASE RefuseAppend(w)
      BY <2>3 DEF RefuseAppend, LeaveBatch
    <2>4. CASE FinishBatch(w)
      BY <2>4 DEF FinishBatch, LeaveBatch
    <2>5. CASE InvalidateState(w)
      BY <2>5 DEF InvalidateState
    <2>6. CASE LoadTotal(w)
      BY <2>6 DEF LoadTotal
    <2>7. CASE InvalidateDecide(w)
      BY <2>7 DEF InvalidateDecide
    <2>8. CASE InvalidateStore(w)
      BY <2>8 DEF InvalidateStore
    <2>9. CASE MaybeDrain(w)
      BY <2>9 DEF MaybeDrain
    <2>10. CASE StartDrain(w)
      BY <2>10 DEF StartDrain
    <2>11. CASE PollAbsent(w)
      BY <2>11 DEF PollAbsent
    <2>12. CASE Exchange(w)
      <3>1. \E step \in {"join", "idle"} : pc' = [pc EXCEPT ![w] = step]
        BY <2>12 DEF Exchange
      <3>2. UNCHANGED <<rowVars, graphVars, searchVars>>
        BY <2>12 DEF Exchange
      <3> QED BY <2>12, <3>1, <3>2 DEF Exchange
    <2>13. CASE JoinAndSpawn(w)
      BY <2>13 DEF JoinAndSpawn
    <2>14. CASE BeginSearch(w)
      BY <2>14 DEF BeginSearch
    <2>15. CASE OpenGraph(w)
      <3>1. EachRowOnce'
        BY <2>15 DEF OpenGraph
      <3>2. CASE graph = NoGraph
        BY <2>15, <3>1, <3>2 DEF OpenGraph
      <3>3. CASE graph # NoGraph
        BY <2>15, <3>1, <3>3 DEF OpenGraph
      <3> QED BY <3>2, <3>3
    <2>16. CASE OpenStore(w)
      BY <2>16 DEF OpenStore
    <2>17. CASE LoadCovered(w)
      BY <2>17 DEF LoadCovered
    <2>18. CASE Traverse(w)
      BY <2>18 DEF Traverse, Reachable
    <2>19. CASE ScanTail(w)
      <3>1. AnswerHeld'
        BY <2>19 DEF ScanTail
      <3>2. \A r \in Rows : r \in hits[w] <=> r < covered[w]
        <4>1. CASE pc[w] = "tail"
          BY <4>1
        <4>2. CASE pc[w] = "brute"
          <5>1. covered[w] = 0 /\ hits[w] = {}
            BY <4>2
          <5> QED BY <5>1
        <4> QED BY <2>19, <4>1, <4>2 DEF ScanTail
      <3>3. 0 .. start[w] - 1 \subseteq hits[w] \cup tail'[w] /\ hits[w] \cap tail'[w] = {}
        BY <2>19, <3>2 DEF ScanTail
      <3>4. EachRowOnce'
        BY <2>19, <3>3 DEF ScanTail
      <3> QED BY <3>1, <3>4
    <2>20. CASE EndSearch(w)
      BY <2>20 DEF EndSearch
    <2>21. ASSUME NEW r \in Rows, AnnounceInPlace(w, r) PROVE SearchHeld'
      BY <2>21 DEF AnnounceInPlace
    <2>22. ASSUME NEW r \in Rows, OverwritePoint(w, r) PROVE SearchHeld'
      <3>1. \E step \in {"batch", "invState", "idle"} : pc' = [pc EXCEPT ![w] = step]
        BY <2>22 DEF OverwritePoint, LeaveBatch
      <3>2. UNCHANGED <<next, count, searchVars>>
        BY <2>22 DEF OverwritePoint
      <3>3. pc[w] \in {"batch", "drainSearches"}
        BY <2>22 DEF OverwritePoint
      <3> QED BY <3>1, <3>2, <3>3
    <2>23. ASSUME NEW r \in Rows, DeletePoint(w, r) PROVE SearchHeld'
      BY <2>23 DEF DeletePoint
    <2> QED
      BY <1>1, <2>1, <2>2, <2>3, <2>4, <2>5, <2>6, <2>7, <2>8, <2>9, <2>10, <2>11,
         <2>12, <2>13, <2>14, <2>15, <2>16, <2>17, <2>18, <2>19, <2>20, <2>21,
         <2>22, <2>23 DEF WorkerNext
  <1>2. CASE BuilderNext \/ DrainerNext
    <2>1. UNCHANGED <<rowVars, searchVars, pc>>
      BY <1>2, ThreadsApart
    <2>2. \A w \in Workers : hgraph[w] # NoGraph => count'[hgraph[w]] >= count[hgraph[w]]
      BY <1>2, HeldCountsGrow
    <2>3. count' \in [Graphs -> 0 .. Capacity]
      BY <1>2, BuilderTypes, DrainerTypes
    <2> QED BY <2>1, <2>2, <2>3
  <1> QED BY <1>1, <1>2 DEF Next

----------------------------------------------------------------------------
(* Codes. *)

\* The store being made has the code of each row it has read, or the log the row.
LEMMA MadeStep ==
  ASSUME CollectionInv, LocksHeld, CountsHeld, StaleHeld, MadeCodes, Next
  PROVE  MadeCodes'
PROOF
  <1> USE HeapAssumption, RolesAssumption, BoundsAssumption
      DEF CollectionInv, Handles, GraphsHeld, StoresHeld, LocksHeld, PublishSteps, SettleSteps,
      CountsHeld,
          CountsAgree, StaleHeld, OverwritesLogged, Draining, Making, TypeOK, RowTypes,
          GraphTypes, StoreTypes, WriteTypes, BuildTypes, DrainTypes, Rows, Pos,
          Quantized, rowVars, graphVars, storeVars, writeVars, drainVars, lockVars,
          buildVars, MadeCodes
  <1>1. ASSUME NEW w \in Workers, WorkerNext(w) PROVE MadeCodes'
    <2>1. CASE AppendPoint(w)
      BY <2>1 DEF AppendPoint
    <2>2. ASSUME NEW r \in Rows, OverwritePoint(w, r) PROVE MadeCodes'
      BY <2>2 DEF OverwritePoint, NoteOverwrite, Outdate, Counted
    <2>3. CASE Quiet
      BY <2>3 DEF Quiet, indexVars
    <2> QED BY <1>1, <2>1, <2>2, <2>3, WorkerMoves
  <1>2. CASE BuilderNext
    <2>1. CASE BuildBegin
      BY <2>1 DEF BuildBegin, IndexWriterFree
    <2>2. CASE BuildEmpty
      BY <2>2 DEF BuildEmpty
    <2>3. CASE BuildOpenLog
      BY <2>3 DEF BuildOpenLog
    <2>4. CASE BuildExtend
      <3>1. CASE Quantized
        <4>1. newq' # NoStore /\ bpc' = "encode"
          BY <2>4, <3>1 DEF BuildExtend
        <4>2. \A r \in Rows : r < n => r \in to_encode'
          BY <2>4, <3>1 DEF BuildExtend, RowsToEncode
        <4> QED BY <2>4, <4>1, <4>2 DEF BuildExtend
      <3>2. CASE ~ Quantized
        BY <2>4, <3>2 DEF BuildExtend
      <3> QED BY <3>1, <3>2
    <2>5. CASE PublishStore
      BY <2>5 DEF PublishStore
    <2>6. CASE ReplayLog
      BY <2>6 DEF ReplayLog, Moved
    <2>7. CASE PublishGraph
      BY <2>7 DEF PublishGraph
    <2>8. CASE PublishCount
      BY <2>8 DEF PublishCount
    <2>9. CASE PublishMoved
      BY <2>9 DEF PublishMoved
    <2>10. CASE PublishReady
      BY <2>10 DEF PublishReady
    <2>11. CASE Settle
      BY <2>11 DEF Settle, Unlock
    <2>12. CASE StepAside
      BY <2>12 DEF StepAside, Unlock
    <2>13. CASE Retire
      BY <2>13 DEF Retire
    <2>14. CASE ReclaimCheck
      BY <2>14 DEF ReclaimCheck
    <2>15. CASE ReclaimFree
      BY <2>15 DEF ReclaimFree
    <2>16. CASE BuildFail
      BY <2>16 DEF BuildFail
    <2>17. CASE BuildFailed
      BY <2>17 DEF BuildFailed
    <2>18. ASSUME NEW r \in Rows, BuildEncode(r) PROVE MadeCodes'
      BY <2>18 DEF BuildEncode
    <2>19. ASSUME NEW r \in Rows, BuildLink(r) PROVE MadeCodes'
      BY <2>19 DEF BuildLink
    <2> QED
      BY <1>2, <2>1, <2>2, <2>3, <2>4, <2>5, <2>6, <2>7, <2>8, <2>9, <2>10, <2>11,
         <2>12, <2>13, <2>14, <2>15, <2>16, <2>17, <2>18, <2>19 DEF BuilderNext
  <1>3. CASE DrainerNext
    <2>1. CASE DrainBegin
      BY <2>1 DEF DrainBegin, IndexWriterFree, MayDrain, ChunkEnd
    <2>2. CASE DrainMark
      BY <2>2 DEF DrainMark
    <2>3. CASE DrainFail
      BY <2>3 DEF DrainFail
    <2>4. CASE DrainPublish
      BY <2>4 DEF DrainPublish
    <2>5. CASE DrainCount
      BY <2>5 DEF DrainCount
    <2>6. CASE DrainStop
      BY <2>6 DEF DrainStop
    <2>7. ASSUME NEW r \in Rows, DrainLink(r) PROVE MadeCodes'
      BY <2>7 DEF DrainLink
    <2> QED
      BY <1>3, <2>1, <2>2, <2>3, <2>4, <2>5, <2>6, <2>7 DEF DrainerNext
  <1> QED BY <1>1, <1>2, <1>3 DEF Next

\* The published store has the present codes, the log what is left of them.
LEMMA PublishedStep ==
  ASSUME CollectionInv, LocksHeld, CountsHeld, StaleHeld, MadeCodes,
         PublishedCodes, Next
  PROVE  PublishedCodes'
PROOF
  <1> USE HeapAssumption, RolesAssumption, BoundsAssumption
      DEF CollectionInv, Handles, GraphsHeld, StoresHeld, LocksHeld, PublishSteps, SettleSteps,
      CountsHeld,
          CountsAgree, StaleHeld, OverwritesLogged, Draining, Making, TypeOK, RowTypes,
          GraphTypes, StoreTypes, WriteTypes, BuildTypes, DrainTypes, Rows, Pos,
          Quantized, rowVars, graphVars, storeVars, writeVars, drainVars, lockVars,
          buildVars, MadeCodes, PublishedCodes
  <1>1. ASSUME NEW w \in Workers, WorkerNext(w) PROVE PublishedCodes'
    <2>1. CASE AppendPoint(w)
      BY <2>1 DEF AppendPoint
    <2>2. ASSUME NEW r \in Rows, OverwritePoint(w, r) PROVE PublishedCodes'
      BY <2>2 DEF OverwritePoint, NoteOverwrite, Outdate, Counted
    <2>3. CASE Quiet
      BY <2>3 DEF Quiet, indexVars
    <2> QED BY <1>1, <2>1, <2>2, <2>3, WorkerMoves
  <1>2. CASE BuilderNext
    <2>1. CASE BuildBegin
      BY <2>1 DEF BuildBegin, IndexWriterFree
    <2>2. CASE BuildEmpty
      BY <2>2 DEF BuildEmpty
    <2>3. CASE BuildOpenLog
      BY <2>3 DEF BuildOpenLog
    <2>4. CASE BuildExtend
      BY <2>4 DEF BuildExtend, ExtendFrom, RowsToEncode
    <2>5. CASE PublishStore
      BY <2>5 DEF PublishStore
    <2>6. CASE ReplayLog
      BY <2>6 DEF ReplayLog, Moved
    <2>7. CASE PublishGraph
      BY <2>7 DEF PublishGraph
    <2>8. CASE PublishCount
      BY <2>8 DEF PublishCount
    <2>9. CASE PublishMoved
      BY <2>9 DEF PublishMoved
    <2>10. CASE PublishReady
      BY <2>10 DEF PublishReady
    <2>11. CASE Settle
      BY <2>11 DEF Settle, Unlock
    <2>12. CASE StepAside
      BY <2>12 DEF StepAside, Unlock
    <2>13. CASE Retire
      BY <2>13 DEF Retire
    <2>14. CASE ReclaimCheck
      BY <2>14 DEF ReclaimCheck
    <2>15. CASE ReclaimFree
      BY <2>15 DEF ReclaimFree
    <2>16. CASE BuildFail
      BY <2>16 DEF BuildFail
    <2>17. CASE BuildFailed
      BY <2>17 DEF BuildFailed
    <2>18. ASSUME NEW r \in Rows, BuildEncode(r) PROVE PublishedCodes'
      BY <2>18 DEF BuildEncode
    <2>19. ASSUME NEW r \in Rows, BuildLink(r) PROVE PublishedCodes'
      BY <2>19 DEF BuildLink
    <2> QED
      BY <1>2, <2>1, <2>2, <2>3, <2>4, <2>5, <2>6, <2>7, <2>8, <2>9, <2>10, <2>11,
         <2>12, <2>13, <2>14, <2>15, <2>16, <2>17, <2>18, <2>19 DEF BuilderNext
  <1>3. CASE DrainerNext
    <2>1. CASE DrainBegin
      BY <2>1 DEF DrainBegin, IndexWriterFree, MayDrain, ChunkEnd
    <2>2. CASE DrainMark
      BY <2>2 DEF DrainMark
    <2>3. CASE DrainFail
      BY <2>3 DEF DrainFail
    <2>4. CASE DrainPublish
      BY <2>4 DEF DrainPublish
    <2>5. CASE DrainCount
      BY <2>5 DEF DrainCount
    <2>6. CASE DrainStop
      BY <2>6 DEF DrainStop
    <2>7. ASSUME NEW r \in Rows, DrainLink(r) PROVE PublishedCodes'
      BY <2>7 DEF DrainLink
    <2> QED
      BY <1>3, <2>1, <2>2, <2>3, <2>4, <2>5, <2>6, <2>7 DEF DrainerNext
  <1> QED BY <1>1, <1>2, <1>3 DEF Next

\* The store a search holds has a code for every row its graph covers.
LEMMA HeldCodesStep ==
  ASSUME CollectionInv, LocksHeld, CountsHeld, CodesHeld, Next
  PROVE  HeldCodes'
PROOF
  <1> USE HeapAssumption
      DEF CollectionInv, Handles, GraphsHeld, StoresHeld, HandlesInSearch, NoOldReaders,
          CountsHeld, CountsAgree, LocksHeld, PublishSteps, SettleSteps, Draining, Making,
          CodesHeld, HeldCodes,
          TypeOK, RowTypes, GraphTypes, StoreTypes, DrainTypes, SearchTypes, StateTypes,
          BuildTypes, SearchSteps, Rows, rowVars, graphVars, storeVars, upsertVars,
          searchVars, Goto
  <1>1. ASSUME NEW w \in Workers, WorkerNext(w) PROVE HeldCodes'
    <2>1. CASE BeginUpsert(w)
      BY <2>1 DEF BeginUpsert
    <2>2. CASE AppendPoint(w)
      BY <2>2 DEF AppendPoint
    <2>3. CASE RefuseAppend(w)
      BY <2>3 DEF RefuseAppend, LeaveBatch
    <2>4. CASE FinishBatch(w)
      BY <2>4 DEF FinishBatch, LeaveBatch
    <2>5. CASE InvalidateState(w)
      BY <2>5 DEF InvalidateState
    <2>6. CASE LoadTotal(w)
      BY <2>6 DEF LoadTotal
    <2>7. CASE InvalidateDecide(w)
      BY <2>7 DEF InvalidateDecide
    <2>8. CASE InvalidateStore(w)
      BY <2>8 DEF InvalidateStore
    <2>9. CASE MaybeDrain(w)
      BY <2>9 DEF MaybeDrain
    <2>10. CASE StartDrain(w)
      BY <2>10 DEF StartDrain
    <2>11. CASE PollAbsent(w)
      BY <2>11 DEF PollAbsent
    <2>12. CASE Exchange(w)
      <3>1. \E step \in {"join", "idle"} : pc' = [pc EXCEPT ![w] = step]
        BY <2>12 DEF Exchange
      <3>2. UNCHANGED <<graphVars, storeVars, searchVars>>
        BY <2>12 DEF Exchange
      <3> QED BY <3>1, <3>2
    <2>13. CASE JoinAndSpawn(w)
      BY <2>13 DEF JoinAndSpawn
    <2>14. CASE BeginSearch(w)
      BY <2>14 DEF BeginSearch
    <2>15. CASE OpenGraph(w)
      BY <2>15 DEF OpenGraph
    <2>16. CASE OpenStore(w)
      <3>1. CASE quant = NoStore
        BY <2>16, <3>1 DEF OpenStore
      <3>2. CASE quant # NoStore
        <4> DEFINE reach == IF bpc \in {"publish", "graph", "count"} THEN n ELSE graph_count
        <4>1. hgraph[w] \in Graphs /\ count[hgraph[w]] <= reach
          BY <2>16, <3>2 DEF OpenStore
        <4>2. \A r \in Rows : r < reach => code[quant][r] # "none"
          BY <3>2 DEF PublishedCodes
        <4>3. reach \in Nat
          OBVIOUS
        <4> HIDE DEF reach
        <4>4. \A r \in Rows : r < count[hgraph[w]] => code[quant][r] # "none"
          BY <4>1, <4>2, <4>3
        <4> QED BY <2>16, <3>2, <4>4 DEF OpenStore
      <3> QED BY <3>1, <3>2
    <2>17. CASE LoadCovered(w)
      BY <2>17 DEF LoadCovered
    <2>18. CASE Traverse(w)
      BY <2>18 DEF Traverse
    <2>19. CASE ScanTail(w)
      BY <2>19 DEF ScanTail
    <2>20. CASE EndSearch(w)
      BY <2>20 DEF EndSearch
    <2>21. ASSUME NEW r \in Rows, AnnounceInPlace(w, r) PROVE HeldCodes'
      <3>1. pc' = [pc EXCEPT ![w] = "drainSearches"]
        BY <2>21 DEF AnnounceInPlace
      <3>2. UNCHANGED <<graphVars, storeVars, searchVars>>
        BY <2>21 DEF AnnounceInPlace
      <3> QED BY <3>1, <3>2
    <2>22. ASSUME NEW r \in Rows, OverwritePoint(w, r) PROVE HeldCodes'
      <3>1. \E step \in {"batch", "invState", "idle"} : pc' = [pc EXCEPT ![w] = step]
        BY <2>22 DEF OverwritePoint, LeaveBatch
      <3>2. UNCHANGED <<graph, graph_count, count, quant, searchVars>>
        BY <2>22 DEF OverwritePoint
      <3>3. \A s \in Stores, x \in Rows : code[s][x] # "none" => code'[s][x] # "none"
        <4> DEFINE old == Outdate(code, r)
        <4>1. \A s \in Stores, x \in Rows : code[s][x] # "none" => old[s][x] # "none"
          BY DEF Outdate
        <4>2. code' \in {old, [old EXCEPT ![quant][r] = "current"]}
          BY <2>22 DEF OverwritePoint, NoteOverwrite
        <4>3. old \in [Stores -> [Rows -> Pos]]
          BY DEF Outdate, Pos
        <4> HIDE DEF old
        <4>4. CASE code' = old
          BY <4>1, <4>4
        <4>5. CASE code' = [old EXCEPT ![quant][r] = "current"]
          <5> SUFFICES ASSUME NEW s \in Stores, NEW x \in Rows, code[s][x] # "none"
                       PROVE  code'[s][x] # "none"
            OBVIOUS
          <5>1. code'[s][x] \in {old[s][x], "current"}
            BY <4>3, <4>5
          <5> QED BY <4>1, <5>1
        <4> QED BY <4>2, <4>4, <4>5
      <3>4. pc[w] \notin SearchSteps
        BY <2>22 DEF OverwritePoint
      <3>5. \A v \in Workers : hstore[v] # NoStore => pc'[v] = pc[v]
        BY <3>1, <3>4
      <3> QED BY <3>2, <3>3, <3>5
    <2>23. ASSUME NEW r \in Rows, DeletePoint(w, r) PROVE HeldCodes'
      BY <2>23 DEF DeletePoint
    <2> QED
      BY <1>1, <2>1, <2>2, <2>3, <2>4, <2>5, <2>6, <2>7, <2>8, <2>9, <2>10, <2>11,
         <2>12, <2>13, <2>14, <2>15, <2>16, <2>17, <2>18, <2>19, <2>20, <2>21,
         <2>22, <2>23 DEF WorkerNext
  <1>2. CASE BuilderNext
    <2>1. CASE BuildBegin
      BY <2>1 DEF BuildBegin, IndexWriterFree
    <2>2. CASE BuildEmpty
      BY <2>2 DEF BuildEmpty
    <2>3. CASE BuildOpenLog
      BY <2>3 DEF BuildOpenLog
    <2>4. CASE BuildExtend
      <3>1. UNCHANGED <<quant, searchVars, pc>>
        BY <2>4 DEF BuildExtend
      <3>2. \A v \in Workers : hgraph[v] # NoGraph => count'[hgraph[v]] = count[hgraph[v]]
        BY <2>4 DEF BuildExtend
      <3>3. \A v \in Workers : hstore[v] # NoStore => code'[hstore[v]] = code[hstore[v]]
        BY <2>4 DEF BuildExtend
      <3> QED BY <3>1, <3>2, <3>3
    <2>5. CASE PublishStore
      BY <2>5 DEF PublishStore, MadeCodes
    <2>6. CASE ReplayLog
      BY <2>6 DEF ReplayLog, Moved
    <2>7. CASE PublishGraph
      BY <2>7 DEF PublishGraph
    <2>8. CASE PublishCount
      BY <2>8 DEF PublishCount
    <2>9. CASE PublishMoved
      BY <2>9 DEF PublishMoved
    <2>10. CASE PublishReady
      BY <2>10 DEF PublishReady
    <2>11. CASE Settle
      BY <2>11 DEF Settle, Unlock
    <2>12. CASE StepAside
      BY <2>12 DEF StepAside, Unlock
    <2>13. CASE Retire
      BY <2>13 DEF Retire
    <2>14. CASE ReclaimCheck
      BY <2>14 DEF ReclaimCheck
    <2>15. CASE ReclaimFree
      BY <2>15 DEF ReclaimFree
    <2>16. CASE BuildFail
      BY <2>16 DEF BuildFail
    <2>17. CASE BuildFailed
      BY <2>17 DEF BuildFailed
    <2>18. ASSUME NEW r \in Rows, BuildEncode(r) PROVE HeldCodes'
      BY <2>18 DEF BuildEncode
    <2>19. ASSUME NEW r \in Rows, BuildLink(r) PROVE HeldCodes'
      BY <2>19 DEF BuildLink
    <2> QED
      BY <1>2, <2>1, <2>2, <2>3, <2>4, <2>5, <2>6, <2>7, <2>8, <2>9, <2>10, <2>11,
         <2>12, <2>13, <2>14, <2>15, <2>16, <2>17, <2>18, <2>19 DEF BuilderNext
  <1>3. CASE DrainerNext
    <2>10. UNCHANGED <<searchVars, pc>>
      BY <1>3, ThreadsApart
    <2>1. CASE DrainBegin
      BY <2>1 DEF DrainBegin, IndexWriterFree, MayDrain, ChunkEnd
    <2>2. CASE DrainMark
      BY <2>2 DEF DrainMark
    <2>3. CASE DrainFail
      BY <2>3 DEF DrainFail
    <2>4. CASE DrainPublish
      BY <2>4 DEF DrainPublish
    <2>5. CASE DrainCount
      BY <2>5 DEF DrainCount
    <2>6. CASE DrainStop
      BY <2>6 DEF DrainStop
    <2>7. ASSUME NEW r \in Rows, DrainLink(r) PROVE HeldCodes'
      BY <2>7 DEF DrainLink
    <2> QED
      BY <1>3, <2>1, <2>2, <2>3, <2>4, <2>5, <2>6, <2>7 DEF DrainerNext
  <1> QED BY <1>1, <1>2, <1>3 DEF Next

----------------------------------------------------------------------------
(* The invariant. *)

\* A collection that is empty has nothing to disagree about.
LEMMA IndexInit == Init => IndexInv
PROOF
  <1> SUFFICES ASSUME Init PROVE IndexInv
    OBVIOUS
  <1>1. CollectionInv
    BY InitInv
  <1>2. LocksHeld
    BY RolesAssumption DEF Init, LocksHeld, Draining, PublishSteps, SettleSteps
  <1>3. CountsHeld
    BY DEF Init, CountsHeld, CountsAgree, Making, Draining
  <1>4. LinksHeld
    BY DEF Init, LinksHeld, Making, Draining
  <1>5. StaleHeld
    <2>1. StaleRowsCounted
      BY FS_EmptySet DEF Init, StaleRowsCounted, StaleRows
    <2> QED BY <2>1 DEF Init, StaleHeld, DrainedAnnounced, OverwritesLogged, MovedCounted,
                      Making, Draining
  <1>6. SearchHeld
    BY DEF Init, SearchHeld, AnswerHeld, EachRowOnce, SearchSteps
  <1>7. CodesHeld
    BY DEF Init, CodesHeld, PublishedCodes, MadeCodes, HeldCodes
  <1> QED BY <1>1, <1>2, <1>3, <1>4, <1>5, <1>6, <1>7 DEF IndexInv

\* Every step keeps it: each part by its own lemma, from the parts before it.
LEMMA IndexNext == IndexInv /\ [Next]_vars => IndexInv'
PROOF
  <1> SUFFICES ASSUME IndexInv, [Next]_vars PROVE IndexInv'
    OBVIOUS
  <1>1. CollectionInv'
    BY NextInv DEF IndexInv
  <1>2. CASE Next
    <2> USE <1>2 DEF IndexInv
    <2>1. LocksHeld'
      BY LocksStep DEF CollectionInv
    <2>2. CountsHeld'
      BY CountsStep
    <2>3. LinksHeld'
      BY LinksStep
    <2>4. StaleHeld'
      BY DrainedStep, LoggedStep, MovedStep, StaleStep DEF StaleHeld
    <2>5. SearchHeld'
      BY AnswerStep
    <2>6. CodesHeld'
      BY MadeStep, PublishedStep, HeldCodesStep DEF CodesHeld
    <2> QED BY <1>1, <2>1, <2>2, <2>3, <2>4, <2>5, <2>6
  <1>3. CASE UNCHANGED vars
    <2> USE <1>3 DEF IndexInv, vars, rowVars, graphVars, storeVars, writeVars, drainVars,
                     lockVars, upsertVars, searchVars, buildVars
    <2>1. LocksHeld'
      BY DEF LocksHeld
    <2>2. CountsHeld'
      BY DEF CountsHeld, CountsAgree
    <2>3. LinksHeld'
      BY DEF LinksHeld
    <2>4. StaleHeld'
      BY DEF StaleHeld, DrainedAnnounced, OverwritesLogged, MovedCounted, NewStaleRows,
             StaleRowsCounted, StaleRows
    <2>5. SearchHeld'
      BY DEF SearchHeld, AnswerHeld, EachRowOnce
    <2>6. CodesHeld'
      BY DEF CodesHeld, PublishedCodes, MadeCodes, HeldCodes
    <2> QED BY <1>1, <2>1, <2>2, <2>3, <2>4, <2>5, <2>6
  <1> QED BY <1>2, <1>3

----------------------------------------------------------------------------
(* What follows. *)

\* The count that request threads read beside the graph pointer
\* (graph_count) never runs ahead of the graph's own, and equals it but between
\* the two stores of drainChunk, or those of buildIndex, which publishes the
\* pointer and then the count; no graph covers a row that does not exist.
THEOREM CountsCorrect == Spec => []CountsAgree
PROOF
  <1>1. IndexInv => CountsAgree
    BY DEF IndexInv, CountsHeld
  <1> QED BY IndexInit, IndexNext, <1>1, PTL DEF Spec

\* buildIndex publishes over at least the rows that were covered, and the
\* drainer's store only adds to them: index_writer keeps a build that read
\* the total before a chunk from publishing after it.
THEOREM NeverCoversLessCorrect == Spec => NeverCoversLess
PROOF
  <1> USE DEF IndexInv, CollectionInv, TypeOK, GraphTypes, CountsHeld, CountsAgree,
              Draining, Making, graphVars
  <1> DEFINE Kept == graph_count' >= graph_count
  <1>1. ASSUME IndexInv, [Next]_vars PROVE graph_count' >= graph_count
    <2>1. ASSUME NEW w \in Workers, WorkerNext(w) PROVE Kept
      <3>1. CASE AppendPoint(w)
        BY <1>1, <3>1 DEF AppendPoint
      <3>2. ASSUME NEW r \in Rows, OverwritePoint(w, r) PROVE Kept
        BY <1>1, <3>2 DEF OverwritePoint
      <3>3. CASE Quiet
        BY <1>1, <3>3 DEF Quiet, indexVars
      <3> QED BY <2>1, <3>1, <3>2, <3>3, WorkerMoves
    <2>2. CASE PublishCount
      BY <1>1, <2>2 DEF PublishCount
    <2>3. CASE DrainCount
      BY <1>1, <2>3 DEF DrainCount
    <2>4. CASE BuilderNext /\ ~ PublishCount
      BY <1>1, <2>4 DEF BuilderNext, BuildBegin, BuildEmpty, BuildOpenLog, BuildExtend,
         BuildEncode, BuildLink, PublishStore, ReplayLog, PublishGraph, PublishMoved,
         PublishReady, Settle, StepAside, Retire, ReclaimCheck, ReclaimFree, BuildFail,
         BuildFailed
    <2>5. CASE DrainerNext /\ ~ DrainCount
      BY <1>1, <2>5 DEF DrainerNext, DrainBegin, DrainMark, DrainLink, DrainFail,
         DrainPublish, DrainStop
    <2>6. CASE UNCHANGED vars
      BY <1>1, <2>6 DEF vars
    <2> QED BY <1>1, <2>1, <2>2, <2>3, <2>4, <2>5, <2>6 DEF Next
  <1> QED BY IndexInit, IndexNext, <1>1, PTL DEF Spec, NeverCoversLess

\* A search answers from every row published before it began, once: the
\* traversal is bounded by the one count it loaded (Index.bound) and the scan
\* of the tail begins there, whatever was linked, published or replaced
\* meanwhile.
THEOREM EachRowOnceCorrect == Spec => []EachRowOnce
PROOF
  <1>1. IndexInv => EachRowOnce
    BY DEF IndexInv, SearchHeld
  <1> QED BY IndexInit, IndexNext, <1>1, PTL DEF Spec

\* overwritten_since_build counts every row the served graph holds at a
\* vector it no longer has, whether the build, the drainer or nobody was
\* reading it when the overwrite landed.
THEOREM StaleRowsCountedCorrect == Spec => []StaleRowsCounted
PROOF
  <1>1. IndexInv => StaleRowsCounted
    BY DEF IndexInv, StaleHeld
  <1> QED BY IndexInit, IndexNext, <1>1, PTL DEF Spec

\* A row the served graph covers has its present code in the served store,
\* or the publish in progress finds it on the log.
THEOREM CodesCurrentCorrect == Spec => []CodesCurrent
PROOF
  <1>1. ASSUME IndexInv PROVE CodesCurrent
    <2> SUFFICES ASSUME quant # NoStore, NEW r \in Rows, r < graph_count
                 PROVE  \/ code[quant][r] = "current"
                        \/ overwrite_log_active /\ r \in overwrite_log
      BY DEF CodesCurrent
    <2>1. CASE bpc = "publish"
      <3>1. graph_count <= n /\ overwrite_log_active
        BY <1>1, <2>1 DEF IndexInv, CountsHeld, StaleHeld, OverwritesLogged, Making
      <3>2. r < n
        BY <1>1, <3>1 DEF IndexInv, CollectionInv, TypeOK, GraphTypes, BuildTypes, Rows
      <3> QED BY <1>1, <2>1, <3>1, <3>2 DEF IndexInv, CodesHeld, PublishedCodes
    <2>2. CASE bpc \in {"graph", "count"}
      <3>1. graph_count <= n
        BY <1>1, <2>2 DEF IndexInv, CountsHeld, Making
      <3>2. r < n
        BY <1>1, <3>1 DEF IndexInv, CollectionInv, TypeOK, GraphTypes, BuildTypes, Rows
      <3> QED BY <1>1, <2>2, <3>2 DEF IndexInv, CodesHeld, PublishedCodes
    <2>3. CASE bpc \notin {"publish", "graph", "count"}
      BY <1>1, <2>3 DEF IndexInv, CodesHeld, PublishedCodes
    <2> QED BY <2>1, <2>2, <2>3
  <1> QED BY IndexInit, IndexNext, <1>1, PTL DEF Spec

\* searchQuantized never scores a row by a code its store does not have,
\* although it loads the graph, the store and the count one after another and
\* the build publishes them one after another.
THEOREM StoreCoversTraversalCorrect == Spec => []StoreCoversTraversal
PROOF
  <1>1. ASSUME IndexInv PROVE StoreCoversTraversal
    <2> SUFFICES ASSUME NEW w \in Workers, pc[w] = "traverse", hstore[w] # NoStore,
                        NEW r \in 0 .. covered[w] - 1
                 PROVE  code[hstore[w]][r] # "none"
      BY DEF StoreCoversTraversal
    <2>1. hgraph[w] \in Graphs /\ covered[w] <= count[hgraph[w]]
      BY <1>1 DEF IndexInv, CollectionInv, Handles, HandlesInSearch, SearchHeld,
                  AnswerHeld, TypeOK, SearchTypes
    <2>2. r \in Rows /\ r < count[hgraph[w]]
      BY <1>1, <2>1, BoundsAssumption
      DEF IndexInv, CollectionInv, TypeOK, GraphTypes, SearchTypes, Rows
    <2> QED BY <1>1, <2>2 DEF IndexInv, CodesHeld, HeldCodes
  <1> QED BY IndexInit, IndexNext, <1>1, PTL DEF Spec

----------------------------------------------------------------------------
(* The index state machine. *)

\* building is left by whoever entered it: the winner of the exchange waits
\* to spawn, and the build it spawned ends by storing ready or absent.
LEMMA BuildingStep ==
  ASSUME TypeOK, BuildingHeld, Next
  PROVE  BuildingHeld'
PROOF
  <1> USE DEF BuildingHeld, Making, PublishSteps, SettleSteps, TypeOK, StateTypes, BuildTypes,
      buildVars, Goto
  <1>1. ASSUME NEW w \in Workers, WorkerNext(w) PROVE BuildingHeld'
    <2>1. CASE BeginUpsert(w)
      BY <2>1 DEF BeginUpsert
    <2>2. CASE AppendPoint(w)
      BY <2>2 DEF AppendPoint
    <2>3. CASE RefuseAppend(w)
      BY <2>3 DEF RefuseAppend, LeaveBatch
    <2>4. CASE FinishBatch(w)
      BY <2>4 DEF FinishBatch, LeaveBatch
    <2>5. CASE InvalidateState(w)
      BY <2>5 DEF InvalidateState
    <2>6. CASE LoadTotal(w)
      BY <2>6 DEF LoadTotal
    <2>7. CASE InvalidateDecide(w)
      BY <2>7 DEF InvalidateDecide
    <2>8. CASE InvalidateStore(w)
      BY <2>8 DEF InvalidateStore
    <2>9. CASE MaybeDrain(w)
      BY <2>9 DEF MaybeDrain
    <2>10. CASE StartDrain(w)
      BY <2>10 DEF StartDrain
    <2>11. CASE PollAbsent(w)
      BY <2>11 DEF PollAbsent
    <2>12. CASE Exchange(w)
      BY <2>12 DEF Exchange
    <2>13. CASE JoinAndSpawn(w)
      BY <2>13 DEF JoinAndSpawn
    <2>14. CASE BeginSearch(w)
      BY <2>14 DEF BeginSearch
    <2>15. CASE OpenGraph(w)
      BY <2>15 DEF OpenGraph
    <2>16. CASE OpenStore(w)
      BY <2>16 DEF OpenStore
    <2>17. CASE LoadCovered(w)
      BY <2>17 DEF LoadCovered
    <2>18. CASE Traverse(w)
      BY <2>18 DEF Traverse
    <2>19. CASE ScanTail(w)
      BY <2>19 DEF ScanTail
    <2>20. CASE EndSearch(w)
      BY <2>20 DEF EndSearch
    <2>21. ASSUME NEW r \in Rows, AnnounceInPlace(w, r) PROVE BuildingHeld'
      BY <2>21 DEF AnnounceInPlace
    <2>22. ASSUME NEW r \in Rows, OverwritePoint(w, r) PROVE BuildingHeld'
      BY <2>22 DEF OverwritePoint, LeaveBatch
    <2>23. ASSUME NEW r \in Rows, DeletePoint(w, r) PROVE BuildingHeld'
      BY <2>23 DEF DeletePoint
    <2> QED
      BY <1>1, <2>1, <2>2, <2>3, <2>4, <2>5, <2>6, <2>7, <2>8, <2>9, <2>10, <2>11,
         <2>12, <2>13, <2>14, <2>15, <2>16, <2>17, <2>18, <2>19, <2>20, <2>21,
         <2>22, <2>23 DEF WorkerNext
  <1>2. CASE BuilderNext
    <2>1. CASE BuildBegin
      BY <2>1 DEF BuildBegin
    <2>2. CASE BuildEmpty
      BY <2>2 DEF BuildEmpty
    <2>3. CASE BuildOpenLog
      BY <2>3 DEF BuildOpenLog
    <2>4. CASE BuildExtend
      BY <2>4 DEF BuildExtend
    <2>5. CASE PublishStore
      BY <2>5 DEF PublishStore
    <2>6. CASE ReplayLog
      BY <2>6 DEF ReplayLog
    <2>7. CASE PublishGraph
      BY <2>7 DEF PublishGraph
    <2>8. CASE PublishCount
      BY <2>8 DEF PublishCount
    <2>9. CASE PublishMoved
      BY <2>9 DEF PublishMoved
    <2>10. CASE PublishReady
      BY <2>10 DEF PublishReady
    <2>11. CASE Settle
      BY <2>11 DEF Settle, Unlock
    <2>12. CASE StepAside
      BY <2>12 DEF StepAside, Unlock
    <2>13. CASE Retire
      BY <2>13 DEF Retire
    <2>14. CASE ReclaimCheck
      BY <2>14 DEF ReclaimCheck
    <2>15. CASE ReclaimFree
      BY <2>15 DEF ReclaimFree
    <2>16. CASE BuildFail
      BY <2>16 DEF BuildFail
    <2>17. CASE BuildFailed
      BY <2>17 DEF BuildFailed
    <2>18. ASSUME NEW r \in Rows, BuildEncode(r) PROVE BuildingHeld'
      BY <2>18 DEF BuildEncode
    <2>19. ASSUME NEW r \in Rows, BuildLink(r) PROVE BuildingHeld'
      BY <2>19 DEF BuildLink
    <2> QED
      BY <1>2, <2>1, <2>2, <2>3, <2>4, <2>5, <2>6, <2>7, <2>8, <2>9, <2>10, <2>11,
         <2>12, <2>13, <2>14, <2>15, <2>16, <2>17, <2>18, <2>19 DEF BuilderNext
  <1>3. CASE DrainerNext
    <2>8. UNCHANGED <<bpc, pc, index_state>>
      BY <1>3 DEF DrainerNext, DrainBegin, DrainMark, DrainLink, DrainFail, DrainPublish,
                  DrainCount, DrainStop
    <2> QED BY <2>8
  <1> QED BY <1>1, <1>2, <1>3 DEF Next

\* A collection that says building has a build running, or a worker about to
\* spawn one: the state is never left for nobody to change.
THEOREM BuildingHasBuilderCorrect == Spec => []BuildingHasBuilder
PROOF
  <1>1. Init => BuildingHeld
    BY DEF Init, BuildingHeld
  <1>2. ASSUME TypeOK, BuildingHeld, [Next]_vars PROVE BuildingHeld'
    <2>1. CASE UNCHANGED vars
      BY <1>2, <2>1 DEF BuildingHeld, vars, buildVars
    <2> QED BY <1>2, <2>1, BuildingStep
  <1>3. BuildingHeld => BuildingHasBuilder
    BY DEF BuildingHeld, BuildingHasBuilder, Making, PublishSteps
  <1> QED BY TypeCorrect, <1>1, <1>2, <1>3, PTL DEF Spec

\* What is due with more rows covered is due with fewer.
LEMMA DueLessCovered ==
  ASSUME NEW total \in Nat, NEW over \in Nat, NEW cov \in Nat, NEW more \in Nat,
         cov <= more, more <= total, Due(total, more, over)
  PROVE  Due(total, cov, over)
PROOF
  <1>1. CASE cov = 0
    BY <1>1 DEF Due
  <1>2. CASE cov # 0
    <2>1. (total > more \/ over > 0)
          /\ (total - more + over) * RebuildDen >= more * RebuildNum
      BY <1>2 DEF Due
    <2>2. \A x, y \in Int, k \in Nat : x <= y => x * k <= y * k
      OBVIOUS
    <2>3. (total - more + over) * RebuildDen <= (total - cov + over) * RebuildDen
      BY <2>2, BoundsAssumption
    <2>4. cov * RebuildNum <= more * RebuildNum
      BY <2>2, BoundsAssumption
    <2>5. (total - cov + over) * RebuildDen >= cov * RebuildNum
      <3> DEFINE a == (total - more + over) * RebuildDen
                 b == (total - cov + over) * RebuildDen
                 c == cov * RebuildNum
                 d == more * RebuildNum
      <3>1. a \in Int /\ b \in Int /\ c \in Int /\ d \in Int
        BY BoundsAssumption
      <3>2. a >= d /\ a <= b /\ c <= d
        BY <2>1, <2>3, <2>4
      <3> HIDE DEF a, b, c, d
      <3>3. b >= c
        BY <3>1, <3>2
      <3> QED BY <3>3 DEF b, c
    <2> QED BY <1>2, <2>1, <2>5 DEF Due
  <1> QED BY <1>1, <1>2
\* No step of a worker makes the state ready.
LEMMA WorkersNeverReady ==
  ASSUME NEW w \in Workers, WorkerNext(w), index_state' = "ready"
  PROVE  index_state = "ready"
PROOF
  BY DEF WorkerNext, BeginUpsert, AppendPoint, RefuseAppend, FinishBatch, AnnounceInPlace,
     OverwritePoint, DeletePoint, InvalidateState, LoadTotal, InvalidateDecide,
     InvalidateStore, MaybeDrain, StartDrain, PollAbsent, Exchange, JoinAndSpawn,
     BeginSearch, OpenGraph, OpenStore, LoadCovered, Traverse, ScanTail, EndSearch

\* A worker that is bound to look keeps being, until it has said absent.
LEMMA LookerStep ==
  ASSUME CollectionInv, CountsHeld, NEW w \in Workers, WillLook(w), WorkerNext(w),
         Quiet, NeedsRebuild, index_state' = "ready"
  PROVE  WillLook(w)'
PROOF
  <1> USE DEF WillLook, CollectionInv, TypeOK, UpsertTypes, StateTypes, SearchSteps,
              upsertVars, Quiet, Goto
  <1>1. index_state = "ready"
    BY WorkersNeverReady
  <1>2. pc[w] \notin SearchSteps \cup {"idle", "maybeDrain", "startDrain", "exchange",
                                      "join"}
    OBVIOUS
  <1>3. CASE RefuseAppend(w)
    BY <1>3 DEF RefuseAppend, LeaveBatch
  <1>4. CASE FinishBatch(w)
    BY <1>4 DEF FinishBatch, LeaveBatch
  <1>5. CASE InvalidateState(w)
    BY <1>1, <1>5 DEF InvalidateState
  <1>6. CASE LoadTotal(w)
    BY <1>6 DEF LoadTotal
  <1>7. CASE InvalidateDecide(w)
    <2>1. seen[w] = next
      BY <1>7 DEF InvalidateDecide
    <2>2. graph_count <= next
      BY DEF CountsHeld, CountsAgree, GraphTypes, RowTypes
    <2>3. \A due \in Verdicts(seen[w], graph_count, overwritten_since_build) : due
      <3>1. ~ (graph_count > seen[w])
        BY <2>1, <2>2 DEF GraphTypes, RowTypes
      <3>2. Verdicts(seen[w], graph_count, overwritten_since_build)
              = {Due(seen[w], graph_count, overwritten_since_build)}
        BY ONLY <3>1, Zenon DEF Verdicts
      <3>3. Due(seen[w], graph_count, overwritten_since_build)
        BY <2>1 DEF NeedsRebuild
      <3> QED BY ONLY <3>2, <3>3
    <2>4. pc' = [pc EXCEPT ![w] = "invStore"]
      BY <1>7, <2>3 DEF InvalidateDecide
    <2> QED BY <2>4
  <1>8. CASE InvalidateStore(w)
    BY <1>8 DEF InvalidateStore
  <1>9. ASSUME NEW r \in Rows, AnnounceInPlace(w, r) PROVE WillLook(w)'
    BY <1>9 DEF AnnounceInPlace
  <1>10. CASE AppendPoint(w)
    BY <1>10 DEF AppendPoint, indexVars, RowTypes
  <1>11. ASSUME NEW r \in Rows, OverwritePoint(w, r) PROVE WillLook(w)'
    BY <1>11 DEF OverwritePoint, LeaveBatch
  <1> QED
    BY <1>2, <1>3, <1>4, <1>5, <1>6, <1>7, <1>8, <1>9, <1>10, <1>11
    DEF WorkerNext, BeginUpsert, DeletePoint, MaybeDrain, StartDrain, PollAbsent,
        Exchange, JoinAndSpawn, BeginSearch, OpenGraph, OpenStore, LoadCovered,
        Traverse, ScanTail, EndSearch

\* What makes a rebuild due is a write, whose batch looks before it ends, or a
\* publish, which settles; and what a drainer does makes it less so.
LEMMA DueStep ==
  ASSUME ~ PayloadFaults, CollectionInv, LocksHeld, CountsHeld, DueHeld, Next
  PROVE  DueHeld'
PROOF
  <1> DEFINE Found == \/ bpc \in Publishing
                      \/ \E w \in Workers : WillLook(w)
  <1> SUFFICES ASSUME (index_state = "ready" /\ NeedsRebuild)' PROVE Found'
    BY DEF DueHeld
  <1>1. ASSUME NEW w \in Workers, WorkerNext(w) PROVE Found'
    <2>1. CASE AppendPoint(w)
      BY <2>1 DEF AppendPoint, WillLook, CollectionInv, TypeOK, UpsertTypes, StateTypes
    <2>2. ASSUME NEW r \in Rows, OverwritePoint(w, r) PROVE Found'
      BY <2>2 DEF OverwritePoint, Goto, WillLook, CollectionInv, TypeOK, UpsertTypes,
                  StateTypes
    <2>3. CASE Quiet
      <3>1. index_state = "ready" /\ NeedsRebuild
        BY <1>1, <2>3, WorkersNeverReady
        DEF NeedsRebuild, Quiet, indexVars, graphVars, rowVars, writeVars
      <3>2. CASE bpc \in Publishing
        BY <2>3, <3>2 DEF Quiet, Publishing, SettleSteps
      <3>3. ASSUME NEW v \in Workers \ {w}, WillLook(v) PROVE WillLook(v)'
        BY <1>1, <2>3, <3>3, WorkersApart DEF WillLook, localVars, Quiet, CollectionInv
      <3>4. CASE WillLook(w)
        BY <1>1, <2>3, <3>1, <3>4, LookerStep
      <3> QED BY <3>1, <3>2, <3>3, <3>4 DEF DueHeld
    <2> QED BY <1>1, <2>1, <2>2, <2>3, WorkerMoves
  <1>2. CASE BuilderNext
    <2>1. UNCHANGED <<next, upsertVars, pc>>
      BY <1>2, ThreadsApart DEF rowVars
    <2>2. (\E w \in Workers : WillLook(w)) => (\E w \in Workers : WillLook(w)')
      BY <2>1 DEF WillLook, upsertVars
    <2>3. CASE BuildEmpty \/ PublishCount \/ PublishMoved \/ PublishReady
      BY <2>3 DEF BuildEmpty, PublishCount, PublishMoved, PublishReady, Publishing,
                  SettleSteps
    <2>4. CASE Settle
      <3>1. NeedsRebuild' = NeedsRebuild
        BY <2>4 DEF Settle, NeedsRebuild, rowVars, graphVars, writeVars
      <3> QED BY <2>4, <3>1 DEF Settle, Outrun, Publishing, SettleSteps
    <2>5. CASE StepAside \/ BuildFailed
      BY <2>5 DEF StepAside, BuildFailed
    <2>6. CASE ~ (BuildEmpty \/ PublishCount \/ PublishMoved \/ PublishReady \/ Settle
                  \/ StepAside \/ BuildFailed)
      <3> DEFINE Apart == /\ UNCHANGED <<graph_count, overwritten_since_build, index_state>>
                          /\ bpc \notin Publishing
      <3>1. ASSUME BuildBegin PROVE Apart
        BY <3>1 DEF BuildBegin, graphVars, writeVars, Publishing, SettleSteps
      <3>2. ASSUME \/ BuildOpenLog \/ BuildExtend
                  \/ \E r \in Rows : BuildEncode(r) \/ BuildLink(r)
           PROVE  Apart
        BY <3>2 DEF BuildOpenLog, BuildExtend, BuildEncode, BuildLink, graphVars,
           writeVars, Publishing, SettleSteps
      <3>3. ASSUME PublishStore \/ ReplayLog PROVE Apart
        BY <3>3 DEF PublishStore, ReplayLog, graphVars, writeVars, Publishing, SettleSteps
      <3>4. ASSUME PublishGraph PROVE Apart
        BY <3>4 DEF PublishGraph, graphVars, writeVars, Publishing, SettleSteps
      <3>5. ASSUME Retire \/ ReclaimCheck \/ ReclaimFree PROVE Apart
        BY <3>5 DEF Retire, ReclaimCheck, ReclaimFree, graphVars, writeVars, Publishing,
           SettleSteps
      <3>6. ASSUME BuildFail PROVE Apart
        BY <3>6 DEF BuildFail, graphVars, writeVars, Publishing, SettleSteps
      <3>7. Apart
        BY <1>2, <2>6, <3>1, <3>2, <3>3, <3>4, <3>5, <3>6, Zenon DEF BuilderNext
      <3> QED BY <2>1, <2>2, <3>7 DEF DueHeld, NeedsRebuild
    <2> QED BY <2>3, <2>4, <2>5, <2>6
  <1>3. CASE DrainerNext
    <2>1. UNCHANGED <<next, upsertVars, pc>>
      BY <1>3, ThreadsApart DEF rowVars
    <2>2. (\E w \in Workers : WillLook(w)) => (\E w \in Workers : WillLook(w)')
      BY <2>1 DEF WillLook, upsertVars
    <2>3. UNCHANGED <<overwritten_since_build, index_state, bpc>>
      BY <1>3 DEF DrainerNext, DrainBegin, DrainMark, DrainLink, DrainFail, DrainPublish,
         DrainCount, DrainStop, writeVars, buildVars
    <2>4. graph_count <= graph_count' /\ graph_count' <= next
      <3>1. CASE DrainCount
        BY <3>1 DEF DrainCount, CountsHeld, Draining, CollectionInv, TypeOK, GraphTypes,
                    DrainTypes, RowTypes
      <3>2. CASE ~ DrainCount
        BY <1>3, <3>2 DEF DrainerNext, DrainBegin, DrainMark, DrainLink, DrainFail,
           DrainPublish, DrainStop, graphVars, CountsHeld, CountsAgree, CollectionInv,
           TypeOK, GraphTypes, RowTypes
      <3> QED BY <3>1, <3>2
    <2>5. NeedsRebuild
      <3>1. Due(next, graph_count', overwritten_since_build)
        BY <2>1, <2>3 DEF NeedsRebuild
      <3>2. next \in Nat /\ graph_count \in Nat /\ overwritten_since_build \in Nat
        BY DEF CollectionInv, TypeOK, RowTypes, GraphTypes, WriteTypes
      <3>3. graph_count' \in Nat
        BY <1>3, DrainerTypes DEF CollectionInv, TypeOK, GraphTypes
      <3> QED BY <2>4, <3>1, <3>2, <3>3, DueLessCovered DEF NeedsRebuild
    <2> QED BY <2>2, <2>3, <2>5 DEF DueHeld
  <1> QED BY <1>1, <1>2, <1>3 DEF Next

\* Where payload.set rejects nothing, a rebuild that is due while the state is
\* ready and no build runs is found by a batch that has not yet looked: no
\* client is left polling a collection that no poll can rebuild.  (Where it
\* rejects a point whose row is written already, the batch may not look.)
THEOREM NoStrandedRebuildCorrect ==
  ASSUME ~ PayloadFaults
  PROVE  Spec => []NoStrandedRebuild
PROOF
  <1>1. Init => DueHeld
    BY DEF Init, DueHeld
  <1>2. ASSUME IndexInv, DueHeld, [Next]_vars PROVE DueHeld'
    <2>1. CASE UNCHANGED vars
      BY <1>2, <2>1 DEF DueHeld, NeedsRebuild, WillLook, vars, rowVars, graphVars,
         writeVars, upsertVars, buildVars
    <2> QED BY <1>2, <2>1, DueStep DEF IndexInv
  <1>3. DueHeld => NoStrandedRebuild
    BY DEF DueHeld, NoStrandedRebuild, WillLook, SearchSteps, Publishing, SettleSteps
  <1> QED BY IndexInit, IndexNext, <1>1, <1>2, <1>3, PTL DEF Spec
=============================================================================
