--------------------------- MODULE Collection_proofs ---------------------------
(***************************************************************************)
(* Two theorems of Collection!Spec, for any number of workers, rows,       *)
(* graphs and stores: every variable keeps its type, and no search ever    *)
(* holds a graph or a store that has been freed.                           *)
(*                                                                         *)
(* NoDanglingRead is not inductive.  It rests on where a pointer can be    *)
(* between the moments it is allocated, published, replaced, retired and   *)
(* freed, and above all on NoOldReaders: once the reclaiming build has     *)
(* read active_searches as zero, every search that begins finds the graph  *)
(* and the store that replaced what is about to be freed.                  *)
(***************************************************************************)
EXTENDS Collection, TLAPS, FiniteSetTheorems

\* The published graph is allocated and not retired; the one being built is
\* allocated, known to the build alone, and held only until it is published;
\* the one that was replaced is held by the build until it is retired.
GraphsHeld ==
  /\ graph # NoGraph => graph \in heap /\ graph \notin retired_graphs
  /\ retired_graphs \subseteq heap
  /\ newg # NoGraph =>
       /\ bpc \in {"extend", "encode", "link", "publishStore", "publish", "graph"}
       /\ newg \in heap /\ newg \notin retired_graphs /\ newg # graph
       /\ \A w \in Workers : hgraph[w] # newg
  /\ oldg # NoGraph =>
       /\ bpc \in {"count", "moved", "ready", "settle", "stepAside", "retire"}
       /\ oldg \in heap /\ oldg # graph
  /\ \A w \in Workers : hgraph[w] # NoGraph => hgraph[w] \in heap

\* The same of the stores, which are retired at the swap.
StoresHeld ==
  /\ quant # NoStore => quant \in qheap /\ quant \notin retired_quant
  /\ retired_quant \subseteq qheap
  /\ newq # NoStore =>
       /\ bpc \in {"encode", "link", "publishStore"}
       /\ newq \in qheap /\ newq \notin retired_quant /\ newq # quant
       /\ \A w \in Workers : hstore[w] # newq
  /\ \A w \in Workers : hstore[w] # NoStore => hstore[w] \in qheap

\* Only a search that active_searches counts holds a pointer, and it has its
\* graph from the load to the end.
HandlesInSearch ==
  \A w \in Workers :
    /\ hgraph[w] # NoGraph \/ hstore[w] # NoStore => pc[w] \in SearchSteps
    /\ pc[w] \in {"store", "count", "traverse"} => hgraph[w] # NoGraph

\* Between the look at active_searches and the free, a search holds nothing
\* but what is published.
NoOldReaders ==
  bpc = "free" =>
    \A w \in Workers : hgraph[w] \in {NoGraph, graph} /\ hstore[w] \in {NoStore,
      quant}

Handles == GraphsHeld /\ StoresHeld /\ HandlesInSearch /\ NoOldReaders

\* The inductive invariant.
CollectionInv == TypeOK /\ Handles

----------------------------------------------------------------------------
(* Types. *)

\* No step of a worker breaks a type.
LEMMA WorkerTypes ==
  ASSUME TypeOK, HandlesInSearch, NEW w \in Workers, WorkerNext(w)
  PROVE  TypeOK'
PROOF
  <1> USE HeapAssumption, BoundsAssumption, RolesAssumption
      DEF TypeOK, RowTypes, GraphTypes, StoreTypes, WriteTypes, DrainTypes,
          LockTypes, UpsertTypes, SearchTypes, BuildTypes, StateTypes, rowVars,
          graphVars, storeVars, writeVars, drainVars, lockVars, upsertVars,
          searchVars, buildVars, Goto, Rows, Pos, WorkerSteps, SearchSteps,
          BuildSteps, PublishSteps, SettleSteps, DrainSteps, HandlesInSearch
  <1>1. CASE BeginUpsert(w)
    BY <1>1 DEF BeginUpsert
  <1>2. CASE AppendPoint(w)
    BY <1>2 DEF AppendPoint
  <1>3. CASE RefuseAppend(w)
    BY <1>3 DEF RefuseAppend, LeaveBatch
  <1>4. CASE FinishBatch(w)
    BY <1>4 DEF FinishBatch, LeaveBatch
  <1>5. CASE InvalidateState(w)
    BY <1>5 DEF InvalidateState
  <1>6. CASE LoadTotal(w)
    BY <1>6 DEF LoadTotal
  <1>7. CASE InvalidateDecide(w)
    BY <1>7 DEF InvalidateDecide
  <1>8. CASE InvalidateStore(w)
    BY <1>8 DEF InvalidateStore
  <1>9. CASE MaybeDrain(w)
    BY <1>9 DEF MaybeDrain
  <1>10. CASE StartDrain(w)
    <2>1. DrainTypes'
      BY <1>10 DEF StartDrain
    <2>2. (RowTypes /\ GraphTypes /\ StoreTypes /\ WriteTypes /\ LockTypes
           /\ UpsertTypes /\ SearchTypes /\ BuildTypes)'
      BY <1>10 DEF StartDrain
    <2>3. StateTypes'
      BY <1>10 DEF StartDrain
    <2> QED BY <2>1, <2>2, <2>3
  <1>11. CASE PollAbsent(w)
    BY <1>11 DEF PollAbsent
  <1>12. CASE Exchange(w)
    <2>1. LockTypes'
      BY <1>12 DEF Exchange
    <2>2. (RowTypes /\ GraphTypes /\ StoreTypes /\ WriteTypes /\ DrainTypes
           /\ UpsertTypes /\ SearchTypes /\ BuildTypes)'
      BY <1>12 DEF Exchange
    <2>3. StateTypes'
      BY <1>12 DEF Exchange
    <2> QED BY <2>1, <2>2, <2>3
  <1>13. CASE JoinAndSpawn(w)
    BY <1>13 DEF JoinAndSpawn
  <1>14. CASE BeginSearch(w)
    BY <1>14 DEF BeginSearch
  <1>15. CASE OpenGraph(w)
    <2>1. ASSUME graph = NoGraph PROVE SearchTypes'
      BY <1>15, <2>1 DEF OpenGraph
    <2>2. ASSUME graph # NoGraph PROVE SearchTypes'
      <3>1. hgraph' = [hgraph EXCEPT ![w] = graph]
        BY <1>15, <2>2 DEF OpenGraph
      <3>2. hgraph' \in [Workers -> Graphs \cup {NoGraph}]
        BY <3>1
      <3> QED
        BY <1>15, <3>2 DEF OpenGraph
    <2>3. SearchTypes'
      BY <2>1, <2>2
    <2>4. RowTypes'
      BY <1>15 DEF OpenGraph
    <2>5. GraphTypes'
      BY <1>15 DEF OpenGraph
    <2>6. StoreTypes'
      BY <1>15 DEF OpenGraph
    <2>7. WriteTypes'
      BY <1>15 DEF OpenGraph
    <2>8. DrainTypes'
      BY <1>15 DEF OpenGraph
    <2>9. LockTypes'
      BY <1>15 DEF OpenGraph
    <2>10. UpsertTypes'
      BY <1>15 DEF OpenGraph
    <2>11. BuildTypes'
      BY <1>15 DEF OpenGraph
    <2>12. StateTypes'
      BY <1>15 DEF OpenGraph
    <2> QED BY <2>3, <2>4, <2>5, <2>6, <2>7, <2>8, <2>9, <2>10, <2>11, <2>12
  <1>16. CASE OpenStore(w)
    BY <1>16 DEF OpenStore
  <1>17. CASE LoadCovered(w)
    BY <1>17 DEF LoadCovered
  <1>18. CASE Traverse(w)
    BY <1>18 DEF Traverse, Reachable
  <1>19. CASE ScanTail(w)
    BY <1>19 DEF ScanTail
  <1>20. CASE EndSearch(w)
    BY <1>20 DEF EndSearch
  <1>21. ASSUME NEW r \in Rows, AnnounceInPlace(w, r) PROVE TypeOK'
    BY <1>21 DEF AnnounceInPlace
  <1>22. ASSUME NEW r \in Rows, OverwritePoint(w, r) PROVE TypeOK'
    <2>1. row' \in [Workers -> 0 .. Capacity]
      BY <1>22 DEF OverwritePoint
    <2>2. written' \in [Workers -> BOOLEAN]
      BY <1>22 DEF OverwritePoint, LeaveBatch
    <2>3. UpsertTypes'
      BY <1>22, <2>1, <2>2 DEF OverwritePoint
    <2>4. RowTypes'
      BY <1>22 DEF OverwritePoint, LeaveBatch, NoteOverwrite, Outdate, Counted
    <2>5. GraphTypes'
      BY <1>22 DEF OverwritePoint, LeaveBatch, NoteOverwrite, Outdate, Counted
    <2>6. StoreTypes'
      BY <1>22 DEF OverwritePoint, LeaveBatch, NoteOverwrite, Outdate, Counted
    <2>7. WriteTypes'
      BY <1>22 DEF OverwritePoint, LeaveBatch, NoteOverwrite, Outdate, Counted
    <2>8. DrainTypes'
      BY <1>22 DEF OverwritePoint, LeaveBatch, NoteOverwrite, Outdate, Counted
    <2>9. LockTypes'
      BY <1>22 DEF OverwritePoint, LeaveBatch, NoteOverwrite, Outdate, Counted
    <2>10. SearchTypes'
      BY <1>22 DEF OverwritePoint, LeaveBatch, NoteOverwrite, Outdate, Counted
    <2>11. BuildTypes'
      BY <1>22 DEF OverwritePoint, LeaveBatch, NoteOverwrite, Outdate, Counted
    <2>12. StateTypes'
      BY <1>22 DEF OverwritePoint, LeaveBatch, NoteOverwrite, Outdate, Counted
    <2> QED BY <2>3, <2>4, <2>5, <2>6, <2>7, <2>8, <2>9, <2>10, <2>11, <2>12
  <1>23. ASSUME NEW r \in Rows, DeletePoint(w, r) PROVE TypeOK'
    <2>1. RowTypes'
      BY <1>23 DEF DeletePoint
    <2>2. GraphTypes'
      BY <1>23 DEF DeletePoint
    <2>3. StoreTypes'
      BY <1>23 DEF DeletePoint
    <2>4. WriteTypes'
      BY <1>23 DEF DeletePoint
    <2>5. DrainTypes'
      BY <1>23 DEF DeletePoint
    <2>6. LockTypes'
      BY <1>23 DEF DeletePoint
    <2>7. UpsertTypes'
      BY <1>23 DEF DeletePoint
    <2>8. SearchTypes'
      BY <1>23 DEF DeletePoint
    <2>9. BuildTypes'
      BY <1>23 DEF DeletePoint
    <2>10. StateTypes'
      BY <1>23 DEF DeletePoint
    <2> QED BY <2>1, <2>2, <2>3, <2>4, <2>5, <2>6, <2>7, <2>8, <2>9, <2>10
  <1> QED
    BY <1>1, <1>2, <1>3, <1>4, <1>5, <1>6, <1>7, <1>8, <1>9, <1>10, <1>11, <1>12,
       <1>13, <1>14, <1>15, <1>16, <1>17, <1>18, <1>19, <1>20, <1>21, <1>22, <1>23 DEF
       WorkerNext

\* No step of the build thread breaks a type.
LEMMA BuilderTypes ==
  ASSUME TypeOK, BuilderNext
  PROVE  TypeOK'
PROOF
  <1> USE HeapAssumption, BoundsAssumption, RolesAssumption
      DEF TypeOK, RowTypes, GraphTypes, StoreTypes, WriteTypes, DrainTypes,
          LockTypes, UpsertTypes, SearchTypes, BuildTypes, StateTypes, rowVars,
          graphVars, storeVars, writeVars, drainVars, lockVars, upsertVars,
          searchVars, buildVars, Goto, Rows, Pos, WorkerSteps, SearchSteps,
          BuildSteps, PublishSteps, SettleSteps, DrainSteps
  <1>1. CASE BuildBegin
    BY <1>1 DEF BuildBegin, IndexWriterFree
  <1>2. CASE BuildEmpty
    BY <1>2 DEF BuildEmpty
  <1>3. CASE BuildOpenLog
    BY <1>3 DEF BuildOpenLog
  <1>4. CASE BuildExtend
    <2>1. ExtendFrom \in 0 .. Capacity
      BY DEF ExtendFrom
    <2> DEFINE copied == [r \in Rows |-> IF r < ExtendFrom THEN node[graph][r] ELSE
      "none"]
    <2>2. copied \in [Rows -> Pos]
      <3>1. CASE ExtendFrom = 0
        BY <3>1
      <3>2. CASE ExtendFrom # 0
        BY <3>2 DEF ExtendFrom
      <3> QED BY <3>1, <3>2
    <2>3. GraphTypes'
      BY <1>4, <2>2 DEF BuildExtend
    <2>4. to_link' \subseteq Rows
      BY <1>4, <2>1 DEF BuildExtend
    <2>5. ASSUME Quantized PROVE StoreTypes' /\ BuildTypes'
      <3>1. PICK s \in Stores \ qheap : /\ newq' = s /\ qheap' = qheap \cup {s}
                                        /\ code' = [code EXCEPT ![s] = Blank]
        BY <1>4, <2>5 DEF BuildExtend
      <3>2. Blank \in [Rows -> Pos]
        BY DEF Blank
      <3>3. code' \in [Stores -> [Rows -> Pos]]
        BY <3>1, <3>2
      <3>4. to_encode' \subseteq Rows
        BY <1>4, <2>5 DEF BuildExtend, RowsToEncode
      <3> QED
        BY <1>4, <2>4, <2>5, <3>1, <3>3, <3>4 DEF BuildExtend
    <2>6. ASSUME ~ Quantized PROVE StoreTypes' /\ BuildTypes'
      BY <1>4, <2>4, <2>6 DEF BuildExtend
    <2>7. StoreTypes' /\ BuildTypes'
      BY <2>5, <2>6
    <2>8. RowTypes'
      BY <1>4 DEF BuildExtend, RowsToEncode, ExtendFrom, Blank
    <2>9. WriteTypes'
      BY <1>4 DEF BuildExtend, RowsToEncode, ExtendFrom, Blank
    <2>10. DrainTypes'
      BY <1>4 DEF BuildExtend, RowsToEncode, ExtendFrom, Blank
    <2>11. LockTypes'
      BY <1>4 DEF BuildExtend, RowsToEncode, ExtendFrom, Blank
    <2>12. UpsertTypes'
      BY <1>4 DEF BuildExtend, RowsToEncode, ExtendFrom, Blank
    <2>13. SearchTypes'
      BY <1>4 DEF BuildExtend, RowsToEncode, ExtendFrom, Blank
    <2>14. StateTypes'
      BY <1>4 DEF BuildExtend, RowsToEncode, ExtendFrom, Blank
    <2> QED BY <2>3, <2>7, <2>8, <2>9, <2>10, <2>11, <2>12, <2>13, <2>14
  <1>5. CASE PublishStore
    BY <1>5 DEF PublishStore
  <1>6. CASE ReplayLog
    <2>1. Cardinality(Moved) \in Nat
      <3>1. IsFiniteSet(Rows)
        BY FS_Interval
      <3>2. Moved \subseteq Rows
        BY DEF Moved
      <3> QED BY <3>1, <3>2, FS_Subset, FS_CardinalityType
    <2>2. RowTypes'
      BY <1>6 DEF ReplayLog, Moved
    <2>3. GraphTypes'
      BY <1>6 DEF ReplayLog, Moved
    <2>4. StoreTypes'
      BY <1>6 DEF ReplayLog, Moved
    <2>5. WriteTypes'
      BY <1>6 DEF ReplayLog, Moved
    <2>6. DrainTypes'
      BY <1>6 DEF ReplayLog, Moved
    <2>7. LockTypes'
      BY <1>6 DEF ReplayLog, Moved
    <2>8. UpsertTypes'
      BY <1>6 DEF ReplayLog, Moved
    <2>9. SearchTypes'
      BY <1>6 DEF ReplayLog, Moved
    <2>10. BuildTypes'
      BY <1>6, <2>1 DEF ReplayLog, Moved
    <2>11. StateTypes'
      BY <1>6 DEF ReplayLog, Moved
    <2> QED BY <2>2, <2>3, <2>4, <2>5, <2>6, <2>7, <2>8, <2>9, <2>10, <2>11
  <1>7. CASE PublishGraph
    BY <1>7 DEF PublishGraph
  <1>8. CASE PublishCount
    BY <1>8 DEF PublishCount
  <1>9. CASE PublishMoved
    BY <1>9 DEF PublishMoved
  <1>10. CASE PublishReady
    BY <1>10 DEF PublishReady
  <1>11. CASE Settle
    <2>1. RowTypes'
      BY <1>11 DEF Settle, Unlock
    <2>2. GraphTypes'
      BY <1>11 DEF Settle, Unlock
    <2>3. StoreTypes'
      BY <1>11 DEF Settle, Unlock
    <2>4. WriteTypes'
      BY <1>11 DEF Settle, Unlock
    <2>5. DrainTypes'
      BY <1>11 DEF Settle, Unlock
    <2>6. LockTypes'
      BY <1>11 DEF Settle, Unlock
    <2>7. UpsertTypes'
      BY <1>11 DEF Settle, Unlock
    <2>8. SearchTypes'
      BY <1>11 DEF Settle, Unlock
    <2>9. BuildTypes'
      BY <1>11 DEF Settle, Unlock
    <2>10. StateTypes'
      BY <1>11 DEF Settle, Unlock
    <2> QED BY <2>1, <2>2, <2>3, <2>4, <2>5, <2>6, <2>7, <2>8, <2>9, <2>10
  <1>12. CASE StepAside
    <2>1. RowTypes'
      BY <1>12 DEF StepAside, Unlock
    <2>2. GraphTypes'
      BY <1>12 DEF StepAside, Unlock
    <2>3. StoreTypes'
      BY <1>12 DEF StepAside, Unlock
    <2>4. WriteTypes'
      BY <1>12 DEF StepAside, Unlock
    <2>5. DrainTypes'
      BY <1>12 DEF StepAside, Unlock
    <2>6. LockTypes'
      BY <1>12 DEF StepAside, Unlock
    <2>7. UpsertTypes'
      BY <1>12 DEF StepAside, Unlock
    <2>8. SearchTypes'
      BY <1>12 DEF StepAside, Unlock
    <2>9. BuildTypes'
      BY <1>12 DEF StepAside, Unlock
    <2>10. StateTypes'
      BY <1>12 DEF StepAside, Unlock
    <2> QED BY <2>1, <2>2, <2>3, <2>4, <2>5, <2>6, <2>7, <2>8, <2>9, <2>10
  <1>13. CASE Retire
    BY <1>13 DEF Retire
  <1>14. CASE ReclaimCheck
    BY <1>14 DEF ReclaimCheck, Reclaimable
  <1>15. CASE ReclaimFree
    BY <1>15 DEF ReclaimFree, Blank
  <1>16. CASE BuildFail
    <2>1. RowTypes'
      BY <1>16 DEF BuildFail, NoRoom, Blank
    <2>2. GraphTypes'
      BY <1>16 DEF BuildFail, NoRoom, Blank
    <2>3. StoreTypes'
      BY <1>16 DEF BuildFail, NoRoom, Blank
    <2>4. WriteTypes'
      BY <1>16 DEF BuildFail, NoRoom, Blank
    <2>5. DrainTypes'
      BY <1>16 DEF BuildFail, NoRoom, Blank
    <2>6. LockTypes'
      BY <1>16 DEF BuildFail, NoRoom, Blank
    <2>7. UpsertTypes'
      BY <1>16 DEF BuildFail, NoRoom, Blank
    <2>8. SearchTypes'
      BY <1>16 DEF BuildFail, NoRoom, Blank
    <2>9. BuildTypes'
      BY <1>16 DEF BuildFail, NoRoom, Blank
    <2>10. StateTypes'
      BY <1>16 DEF BuildFail, NoRoom, Blank
    <2> QED BY <2>1, <2>2, <2>3, <2>4, <2>5, <2>6, <2>7, <2>8, <2>9, <2>10
  <1>17. CASE BuildFailed
    BY <1>17 DEF BuildFailed
  <1>18. ASSUME NEW r \in Rows, BuildEncode(r) PROVE TypeOK'
    <2>1. StoreTypes'
      BY <1>18 DEF BuildEncode
    <2>2. (RowTypes /\ GraphTypes /\ WriteTypes /\ DrainTypes /\ LockTypes
           /\ UpsertTypes /\ SearchTypes /\ BuildTypes)'
      BY <1>18 DEF BuildEncode
    <2>3. StateTypes'
      BY <1>18 DEF BuildEncode
    <2> QED BY <2>1, <2>2, <2>3
  <1>19. ASSUME NEW r \in Rows, BuildLink(r) PROVE TypeOK'
    <2>1. GraphTypes'
      BY <1>19 DEF BuildLink
    <2>2. (RowTypes /\ StoreTypes /\ WriteTypes /\ DrainTypes /\ LockTypes
           /\ UpsertTypes /\ SearchTypes /\ BuildTypes)'
      BY <1>19 DEF BuildLink
    <2>3. StateTypes'
      BY <1>19 DEF BuildLink
    <2> QED BY <2>1, <2>2, <2>3
  <1> QED
    BY <1>1, <1>2, <1>3, <1>4, <1>5, <1>6, <1>7, <1>8, <1>9, <1>10, <1>11, <1>12,
       <1>13, <1>14, <1>15, <1>16, <1>17, <1>18, <1>19 DEF BuilderNext

\* No step of the drainer breaks a type.
LEMMA DrainerTypes ==
  ASSUME TypeOK, DrainerNext
  PROVE  TypeOK'
PROOF
  <1> USE HeapAssumption, BoundsAssumption, RolesAssumption
      DEF TypeOK, RowTypes, GraphTypes, StoreTypes, WriteTypes, DrainTypes,
          LockTypes, UpsertTypes, SearchTypes, BuildTypes, StateTypes, rowVars,
          graphVars, storeVars, writeVars, drainVars, lockVars, upsertVars,
          searchVars, buildVars, Goto, Rows, Pos, WorkerSteps, SearchSteps,
          BuildSteps, PublishSteps, SettleSteps, DrainSteps
  <1>1. CASE DrainBegin
    <2>1. ASSUME MayDrain PROVE DrainTypes'
      <3>1. count[graph] \in 0 .. Capacity /\ count[graph] < next
        BY <2>1 DEF MayDrain
      <3>2. ChunkEnd(count[graph]) \in 0 .. Capacity
        BY <3>1 DEF ChunkEnd
      <3> QED
        BY <1>1, <2>1, <3>1, <3>2 DEF DrainBegin
    <2>2. ASSUME ~ MayDrain PROVE DrainTypes'
      BY <1>1, <2>2 DEF DrainBegin
    <2>3. DrainTypes'
      BY <2>1, <2>2
    <2>4. RowTypes'
      BY <1>1 DEF DrainBegin, IndexWriterFree, MayDrain, ChunkEnd
    <2>5. GraphTypes'
      BY <1>1 DEF DrainBegin, IndexWriterFree, MayDrain, ChunkEnd
    <2>6. StoreTypes'
      BY <1>1 DEF DrainBegin, IndexWriterFree, MayDrain, ChunkEnd
    <2>7. WriteTypes'
      BY <1>1 DEF DrainBegin, IndexWriterFree, MayDrain, ChunkEnd
    <2>8. LockTypes'
      BY <1>1 DEF DrainBegin, IndexWriterFree, MayDrain, ChunkEnd
    <2>9. UpsertTypes'
      BY <1>1 DEF DrainBegin, IndexWriterFree, MayDrain, ChunkEnd
    <2>10. SearchTypes'
      BY <1>1 DEF DrainBegin, IndexWriterFree, MayDrain, ChunkEnd
    <2>11. BuildTypes'
      BY <1>1 DEF DrainBegin, IndexWriterFree, MayDrain, ChunkEnd
    <2>12. StateTypes'
      BY <1>1 DEF DrainBegin, IndexWriterFree, MayDrain, ChunkEnd
    <2> QED BY <2>3, <2>4, <2>5, <2>6, <2>7, <2>8, <2>9, <2>10, <2>11, <2>12
  <1>2. CASE DrainMark
    BY <1>2 DEF DrainMark
  <1>3. CASE DrainFail
    BY <1>3 DEF DrainFail
  <1>4. CASE DrainPublish
    <2>1. GraphTypes'
      BY <1>4 DEF DrainPublish
    <2>2. (RowTypes /\ StoreTypes /\ WriteTypes /\ DrainTypes /\ LockTypes
           /\ UpsertTypes /\ SearchTypes /\ BuildTypes)'
      BY <1>4 DEF DrainPublish
    <2>3. StateTypes'
      BY <1>4 DEF DrainPublish
    <2> QED BY <2>1, <2>2, <2>3
  <1>5. CASE DrainCount
    BY <1>5 DEF DrainCount
  <1>6. CASE DrainStop
    <2>1. DrainTypes'
      BY <1>6 DEF DrainStop
    <2>2. (RowTypes /\ GraphTypes /\ StoreTypes /\ WriteTypes /\ LockTypes
           /\ UpsertTypes /\ SearchTypes /\ BuildTypes)'
      BY <1>6 DEF DrainStop
    <2>3. StateTypes'
      BY <1>6 DEF DrainStop
    <2> QED BY <2>1, <2>2, <2>3
  <1>7. ASSUME NEW r \in Rows, DrainLink(r) PROVE TypeOK'
    <2>1. GraphTypes'
      BY <1>7 DEF DrainLink
    <2>2. (RowTypes /\ StoreTypes /\ WriteTypes /\ DrainTypes /\ LockTypes
           /\ UpsertTypes /\ SearchTypes /\ BuildTypes)'
      BY <1>7 DEF DrainLink
    <2>3. StateTypes'
      BY <1>7 DEF DrainLink
    <2> QED BY <2>1, <2>2, <2>3
  <1> QED
    BY <1>1, <1>2, <1>3, <1>4, <1>5, <1>6, <1>7 DEF DrainerNext

----------------------------------------------------------------------------
(* Handles. *)

\* No step of a worker lets a search hold what may be freed.
LEMMA WorkerHandles ==
  ASSUME TypeOK, Handles, NEW w \in Workers, WorkerNext(w)
  PROVE  Handles'
PROOF
  <1> USE HeapAssumption
      DEF TypeOK, GraphTypes, StoreTypes, SearchTypes, BuildTypes, StateTypes,
          WorkerSteps, SearchSteps, rowVars, graphVars, storeVars, writeVars,
          drainVars, lockVars, upsertVars, searchVars, buildVars, Goto, Handles,
          GraphsHeld, StoresHeld, HandlesInSearch, NoOldReaders
  <1>1. CASE BeginUpsert(w)
    BY <1>1 DEF BeginUpsert
  <1>2. CASE AppendPoint(w)
    BY <1>2 DEF AppendPoint
  <1>3. CASE RefuseAppend(w)
    BY <1>3 DEF RefuseAppend, LeaveBatch
  <1>4. CASE FinishBatch(w)
    BY <1>4 DEF FinishBatch, LeaveBatch
  <1>5. CASE InvalidateState(w)
    BY <1>5 DEF InvalidateState
  <1>6. CASE LoadTotal(w)
    BY <1>6 DEF LoadTotal
  <1>7. CASE InvalidateDecide(w)
    BY <1>7 DEF InvalidateDecide
  <1>8. CASE InvalidateStore(w)
    BY <1>8 DEF InvalidateStore
  <1>9. CASE MaybeDrain(w)
    BY <1>9 DEF MaybeDrain
  <1>10. CASE StartDrain(w)
    BY <1>10 DEF StartDrain
  <1>11. CASE PollAbsent(w)
    BY <1>11 DEF PollAbsent
  <1>12. CASE Exchange(w)
    BY <1>12 DEF Exchange
  <1>13. CASE JoinAndSpawn(w)
    BY <1>13 DEF JoinAndSpawn
  <1>14. CASE BeginSearch(w)
    BY <1>14 DEF BeginSearch
  <1>15. CASE OpenGraph(w)
    <2>1. CASE graph = NoGraph
      BY <1>15, <2>1 DEF OpenGraph
    <2>2. CASE graph # NoGraph
      <3>1. hgraph' = [hgraph EXCEPT ![w] = graph]
        BY <1>15, <2>2 DEF OpenGraph
      <3>2. \E step \in {"count", "store"} : pc' = [pc EXCEPT ![w] = step]
        BY <1>15, <2>2 DEF OpenGraph
      <3>3. UNCHANGED <<graphVars, storeVars, hstore, buildVars>>
        BY <1>15 DEF OpenGraph
      <3> QED BY <2>2, <3>1, <3>2, <3>3
    <2> QED BY <2>1, <2>2
  <1>16. CASE OpenStore(w)
    BY <1>16 DEF OpenStore
  <1>17. CASE LoadCovered(w)
    BY <1>17 DEF LoadCovered
  <1>18. CASE Traverse(w)
    BY <1>18 DEF Traverse, Reachable
  <1>19. CASE ScanTail(w)
    BY <1>19 DEF ScanTail
  <1>20. CASE EndSearch(w)
    BY <1>20 DEF EndSearch
  <1>21. ASSUME NEW r \in Rows, AnnounceInPlace(w, r) PROVE Handles'
    BY <1>21 DEF AnnounceInPlace
  <1>22. ASSUME NEW r \in Rows, OverwritePoint(w, r) PROVE Handles'
    BY <1>22 DEF OverwritePoint, LeaveBatch, NoteOverwrite, Outdate, Counted
  <1>23. ASSUME NEW r \in Rows, DeletePoint(w, r) PROVE Handles'
    BY <1>23 DEF DeletePoint
  <1> QED
    BY <1>1, <1>2, <1>3, <1>4, <1>5, <1>6, <1>7, <1>8, <1>9, <1>10, <1>11, <1>12,
       <1>13, <1>14, <1>15, <1>16, <1>17, <1>18, <1>19, <1>20, <1>21, <1>22, <1>23 DEF
       WorkerNext

\* No step of the build thread frees what a search holds.
LEMMA BuilderHandles ==
  ASSUME TypeOK, Handles, BuilderNext
  PROVE  Handles'
PROOF
  <1> USE HeapAssumption
      DEF TypeOK, GraphTypes, StoreTypes, SearchTypes, BuildTypes, StateTypes,
          WorkerSteps, SearchSteps, rowVars, graphVars, storeVars, writeVars,
          drainVars, lockVars, upsertVars, searchVars, buildVars, Goto, Handles,
          GraphsHeld, StoresHeld, HandlesInSearch, NoOldReaders
  <1>1. CASE BuildBegin
    BY <1>1 DEF BuildBegin, IndexWriterFree
  <1>2. CASE BuildEmpty
    BY <1>2 DEF BuildEmpty
  <1>3. CASE BuildOpenLog
    BY <1>3 DEF BuildOpenLog
  <1>4. CASE BuildExtend
    BY <1>4 DEF BuildExtend, RowsToEncode, ExtendFrom, Blank
  <1>5. CASE PublishStore
    BY <1>5 DEF PublishStore
  <1>6. CASE ReplayLog
    BY <1>6 DEF ReplayLog, Moved
  <1>7. CASE PublishGraph
    BY <1>7 DEF PublishGraph
  <1>8. CASE PublishCount
    BY <1>8 DEF PublishCount
  <1>9. CASE PublishMoved
    BY <1>9 DEF PublishMoved
  <1>10. CASE PublishReady
    BY <1>10 DEF PublishReady
  <1>11. CASE Settle
    BY <1>11 DEF Settle, Unlock
  <1>12. CASE StepAside
    BY <1>12 DEF StepAside, Unlock
  <1>13. CASE Retire
    BY <1>13 DEF Retire
  <1>14. CASE ReclaimCheck
    <2>1. GraphsHeld' /\ StoresHeld' /\ HandlesInSearch'
      BY <1>14 DEF ReclaimCheck
    <2>2. NoOldReaders'
      <3>1. CASE Reclaimable
        <4>1. {w \in Workers : pc[w] \in SearchSteps} = {}
          BY <3>1, FS_Subset, FS_EmptySet DEF Reclaimable, ActiveSearches
        <4> QED
          BY <1>14, <4>1 DEF ReclaimCheck
      <3>2. CASE ~ Reclaimable
        BY <1>14, <3>2 DEF ReclaimCheck
      <3> QED BY <3>1, <3>2
    <2> QED BY <2>1, <2>2
  <1>15. CASE ReclaimFree
    BY <1>15 DEF ReclaimFree, Blank
  <1>16. CASE BuildFail
    BY <1>16 DEF BuildFail, NoRoom, Blank
  <1>17. CASE BuildFailed
    BY <1>17 DEF BuildFailed
  <1>18. ASSUME NEW r \in Rows, BuildEncode(r) PROVE Handles'
    BY <1>18 DEF BuildEncode
  <1>19. ASSUME NEW r \in Rows, BuildLink(r) PROVE Handles'
    BY <1>19 DEF BuildLink, Quantized
  <1> QED
    BY <1>1, <1>2, <1>3, <1>4, <1>5, <1>6, <1>7, <1>8, <1>9, <1>10, <1>11, <1>12,
       <1>13, <1>14, <1>15, <1>16, <1>17, <1>18, <1>19 DEF BuilderNext

\* The drainer neither allocates nor frees.
LEMMA DrainerHandles ==
  ASSUME TypeOK, Handles, DrainerNext
  PROVE  Handles'
PROOF
  <1> USE HeapAssumption
      DEF TypeOK, GraphTypes, StoreTypes, SearchTypes, BuildTypes, StateTypes,
          WorkerSteps, SearchSteps, rowVars, graphVars, storeVars, writeVars,
          drainVars, lockVars, upsertVars, searchVars, buildVars, Goto, Handles,
          GraphsHeld, StoresHeld, HandlesInSearch, NoOldReaders
  <1>1. CASE DrainBegin
    BY <1>1 DEF DrainBegin, IndexWriterFree, MayDrain, ChunkEnd
  <1>2. CASE DrainMark
    BY <1>2 DEF DrainMark
  <1>3. CASE DrainFail
    BY <1>3 DEF DrainFail
  <1>4. CASE DrainPublish
    BY <1>4 DEF DrainPublish
  <1>5. CASE DrainCount
    BY <1>5 DEF DrainCount
  <1>6. CASE DrainStop
    BY <1>6 DEF DrainStop
  <1>7. ASSUME NEW r \in Rows, DrainLink(r) PROVE Handles'
    BY <1>7 DEF DrainLink
  <1> QED
    BY <1>1, <1>2, <1>3, <1>4, <1>5, <1>6, <1>7 DEF DrainerNext

----------------------------------------------------------------------------
(* The inductive invariant. *)

\* The collection starts in it, with nothing allocated.
LEMMA InitInv == Init => CollectionInv
PROOF
  <1> SUFFICES ASSUME Init PROVE CollectionInv
    OBVIOUS
  <1>1. TypeOK
    <2> USE BoundsAssumption DEF Init
    <2>1. RowTypes
      BY DEF RowTypes, Rows
    <2>2. GraphTypes
      BY DEF GraphTypes, Pos, Blank
    <2>3. StoreTypes
      BY DEF StoreTypes, Pos, Blank
    <2>4. WriteTypes
      BY DEF WriteTypes, Rows
    <2>5. DrainTypes
      <3>1. drain_to \in 0 .. Capacity /\ drain_end \in 0 .. Capacity
        OBVIOUS
      <3>2. drain_running \in BOOLEAN /\ dpc \in DrainSteps /\ to_drain \subseteq Rows
        BY DEF DrainSteps
      <3> QED BY <3>1, <3>2 DEF DrainTypes
    <2>6. LockTypes
      BY DEF LockTypes
    <2>7. UpsertTypes
      BY DEF UpsertTypes
    <2>8. SearchTypes
      BY DEF SearchTypes, Rows
    <2>9. BuildTypes
      BY DEF BuildTypes, BuildSteps, PublishSteps, SettleSteps, Rows
    <2>10. StateTypes
      BY DEF StateTypes, WorkerSteps
    <2> QED BY <2>1, <2>2, <2>3, <2>4, <2>5, <2>6, <2>7, <2>8, <2>9, <2>10 DEF TypeOK
  <1>2. Handles
    BY DEF Init, Handles, GraphsHeld, StoresHeld, HandlesInSearch, NoOldReaders
  <1> QED BY <1>1, <1>2 DEF CollectionInv

\* Every step keeps it.
LEMMA NextInv == CollectionInv /\ [Next]_vars => CollectionInv'
PROOF
  <1> SUFFICES ASSUME TypeOK, Handles, [Next]_vars PROVE TypeOK' /\ Handles'
    BY DEF CollectionInv
  <1>1. ASSUME NEW w \in Workers, WorkerNext(w) PROVE TypeOK' /\ Handles'
    BY <1>1, WorkerTypes, WorkerHandles DEF Handles
  <1>2. CASE BuilderNext
    BY <1>2, BuilderTypes, BuilderHandles
  <1>3. CASE DrainerNext
    BY <1>3, DrainerTypes, DrainerHandles
  <1>4. CASE UNCHANGED vars
    <2> USE <1>4 DEF vars, rowVars, graphVars, storeVars, writeVars, drainVars,
                     lockVars, upsertVars, searchVars, buildVars
    <2>1. TypeOK'
      BY DEF TypeOK, RowTypes, GraphTypes, StoreTypes, WriteTypes, DrainTypes,
             LockTypes, UpsertTypes, SearchTypes, BuildTypes, StateTypes
    <2>2. Handles'
      BY DEF Handles, GraphsHeld, StoresHeld, HandlesInSearch, NoOldReaders
    <2> QED BY <2>1, <2>2
  <1> QED BY <1>1, <1>2, <1>3, <1>4 DEF Next

\* Every variable keeps its type, the bounds on the counters included: no
\* count passes the capacity, no lock has an owner that does not take it.
THEOREM TypeCorrect == Spec => []TypeOK
PROOF
  <1>1. CollectionInv => TypeOK
    BY DEF CollectionInv
  <1> QED BY InitInv, NextInv, <1>1, PTL DEF Spec

\* SearchGuard and reclaimRetired together keep every graph and store a
\* search holds, and the ones it would load next, allocated: whatever the
\* number of searches, and whenever each begins relative to the publish, the
\* retire, the look at active_searches and the free.
THEOREM ReclamationSafe == Spec => []NoDanglingRead
PROOF
  <1>1. CollectionInv => NoDanglingRead
    BY DEF CollectionInv, Handles, GraphsHeld, StoresHeld, NoDanglingRead
  <1> QED BY InitInv, NextInv, <1>1, PTL DEF Spec
=============================================================================
