-------------------------------- MODULE Plan --------------------------------
(* What the harness derives from the benchmark's table before it runs it     *)
(* (bench/harness/workloads.py, recall.py, fullrun.py): which collections a  *)
(* later phase still reads, which may be dropped and when, and how the rows  *)
(* are cut into the phases of one arm.                                       *)
EXTENDS Naturals, Sequences, FiniteSets

CONSTANTS
    Table,        \* the rows, in the table's order
    SweptNames,   \* recall.COLLECTIONS: what a recall sweep may be asked for
    Encodings     \* ISOLATED_ENCODINGS: <<[search, coll], ...>>, in order

(* A row names one collection; an upload row creates it, a row with a        *)
(* background writer searches it while points are appended to it.            *)
RowShape(r) ==
    /\ {"id", "coll", "upload", "background"} \subseteq DOMAIN r
    /\ r.upload \in BOOLEAN /\ r.background \in BOOLEAN
    /\ ~(r.upload /\ r.background)

ASSUME TableAssumption ==
    /\ Table \in Seq({Table[i] : i \in DOMAIN Table})
    /\ \A i \in DOMAIN Table : RowShape(Table[i])

(* An isolated encoding's collection is swept, is no other row's, and no     *)
(* background writer grows it.                                               *)
ASSUME EncodingsAssumption ==
    /\ Encodings \in Seq({Encodings[g] : g \in DOMAIN Encodings})
    /\ \A g \in DOMAIN Encodings : Encodings[g].coll \in SweptNames
    /\ \A g, h \in DOMAIN Encodings :
          Encodings[g].coll = Encodings[h].coll => g = h
    /\ \A g \in DOMAIN Encodings, i \in DOMAIN Table :
          Table[i].background => Table[i].coll # Encodings[g].coll

Rows == DOMAIN Table
CollOf(i) == Table[i].coll
CollsOf(S) == {CollOf(i) : i \in S}

Searches(i) == ~Table[i].upload
Uploads == {i \in Rows : Table[i].upload}

UploadCollections == CollsOf(Rows)

MutatingRows == {i \in Rows : Table[i].background}

CollectionsReadAfterRows == SweptNames \cup CollsOf(MutatingRows)

DroppableAfterRows == UploadCollections \ CollectionsReadAfterRows

(* Upload rows whose collection nothing reads once the row is done.          *)
RowsWritingDead ==
    {i \in Uploads : /\ CollOf(i) \notin CollectionsReadAfterRows
                     /\ \A j \in Rows : j > i => CollOf(j) # CollOf(i)}

(* The encodings the table has rows for: each an upload and a search row on  *)
(* a collection of its own.                                                  *)
Groups == {g \in DOMAIN Encodings :
             \E i \in Rows : Table[i].id = Encodings[g].search}
GroupRows(g) == {i \in Rows : CollOf(i) = Encodings[g].coll}
IsolatedCollections == {Encodings[g].coll : g \in Groups}
IsolatedRows == UNION {GroupRows(g) : g \in Groups}

\* Mutant: the rows with a writer are forgotten among the readers.
DroppableWhenSwept == CollectionsReadAfterRows \ IsolatedCollections

DroppableAfterSweeps ==
    CollectionsReadAfterRows \ (CollsOf(MutatingRows) \cup IsolatedCollections)

\* Mutant: the rows with a writer run with the others, before the sweeps.
RowsBeforeSweeps == Rows \ IsolatedRows

StableRows == Rows \ (MutatingRows \cup IsolatedRows)

(* split_after_dead_writers: the stable rows up to the last dead writer, the *)
(* rest, and the collections dropped in between.                             *)
EarlyWriters == RowsWritingDead \cap StableRows
FirstRows == IF EarlyWriters = {} THEN StableRows
             ELSE {i \in StableRows : \E w \in EarlyWriters : i <= w}
RestRows == StableRows \ FirstRows
Early == CollsOf(EarlyWriters)

(* recall.default_collections: the table's sweep, without the collections    *)
(* that are swept in a phase of their own.                                   *)
DefaultSweep ==
    (SweptNames \cap {CollOf(i) : i \in {j \in Rows : Searches(j)}})
        \ IsolatedCollections

Dead == DroppableAfterRows \ Early
Survivors ==
    UploadCollections
        \ (Early \cup Dead \cup DroppableAfterSweeps \cup IsolatedCollections)

(* What capture_collections asks for: an empty list asks for every one.      *)
Asked(names) == IF names = {} THEN UploadCollections ELSE names

(* How often workloads.py is run for one arm (invocations_per_arm).          *)
InvocationsPerArm ==
    1 + (IF RestRows # {} THEN 1 ELSE 0) + Cardinality(Groups)
      + (IF MutatingRows # {} THEN 1 ELSE 0)
=============================================================================
