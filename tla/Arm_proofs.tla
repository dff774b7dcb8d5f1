----------------------------- MODULE Arm_proofs ------------------------------
(* For every benchmark table, every set of swept collections and every list  *)
(* of isolated encodings that Plan's assumptions allow: an arm reads no      *)
(* collection it dropped, measures each as it was uploaded, keeps a record   *)
(* of each, and never holds two isolated encodings in memory at once.        *)
EXTENDS Arm, TLAPS

-----------------------------------------------------------------------------
(* What the assumptions say of the two sequences.                            *)
LEMMA RowsAreNumbers == Rows \subseteq Nat
  BY TableAssumption DEF TableAssumption, Rows

LEMMA GroupsAreNumbers == Groups \subseteq DOMAIN Encodings /\ DOMAIN Encodings \subseteq Nat
  BY EncodingsAssumption DEF EncodingsAssumption, Groups

(* A row that runs after the early drops is on none of the dropped           *)
(* collections: each of their writers is the last row of its collection.     *)
LEMMA RestRowsAfterEarly == \A i \in RestRows : CollOf(i) \notin Early
  <1>1. SUFFICES ASSUME NEW i \in RestRows, NEW w \in EarlyWriters, CollOf(i) = CollOf(w)
                 PROVE  FALSE
    BY DEF Early, CollsOf
  <1>2. i \in Rows /\ w \in Rows
    BY <1>1 DEF RestRows, StableRows, EarlyWriters, RowsWritingDead, Uploads
  <1>3. ~ (i <= w)
    BY <1>1, <1>2 DEF RestRows, FirstRows
  <1>4. i > w
    BY <1>2, <1>3, RowsAreNumbers
  <1> QED
    BY <1>1, <1>2, <1>4 DEF EarlyWriters, RowsWritingDead

(* What a later phase reads is never among the dead.                         *)
LEMMA DeadAreUnread == (Early \cup Dead) \cap CollectionsReadAfterRows = {}
  BY DEF Early, Dead, DroppableAfterRows, CollsOf, EarlyWriters, RowsWritingDead

LEMMA SweptAreRead == SweptNames \subseteq CollectionsReadAfterRows
  BY DEF CollectionsReadAfterRows

LEMMA DefaultSweepIsSwept ==
    DefaultSweep \subseteq SweptNames /\ DefaultSweep \cap IsolatedCollections = {}
  BY DEF DefaultSweep

(* An isolated encoding's collection is swept, and nobody grows it.          *)
LEMMA IsolatedAreSwept ==
    \A g \in Groups : /\ Encodings[g].coll \in SweptNames
                      /\ Encodings[g].coll \in IsolatedCollections
                      /\ Encodings[g].coll \notin CollsOf(MutatingRows)
  BY EncodingsAssumption, GroupsAreNumbers
     DEF EncodingsAssumption, IsolatedCollections, CollsOf, CollOf, MutatingRows, Rows

LEMMA IsolatedApart ==
    \A g, h \in Groups : Encodings[g].coll = Encodings[h].coll => g = h
  BY EncodingsAssumption, GroupsAreNumbers DEF EncodingsAssumption

(* Only MeasureMutating runs a row with a writer.                            *)
LEMMA WritersApart ==
    /\ FirstRows \cap MutatingRows = {} /\ RestRows \cap MutatingRows = {}
    /\ \A g \in Groups : GroupRows(g) \cap MutatingRows = {}
    /\ FirstRows \subseteq Rows /\ RestRows \subseteq Rows /\ MutatingRows \subseteq Rows
    /\ \A g \in Groups : GroupRows(g) \subseteq Rows
  <1>1. \A g \in Groups : GroupRows(g) \cap MutatingRows = {}
    BY IsolatedAreSwept DEF GroupRows, CollsOf, MutatingRows
  <1> QED
    BY <1>1 DEF FirstRows, RestRows, StableRows, GroupRows, MutatingRows

(* A collection after some rows is what it was, or what they made of it.     *)
LEMMA StateAtCases ==
    ASSUME NEW c, NEW i, NEW ran, NEW failed, NEW wrote
    PROVE  /\ StateAt(c, i, ran, failed, wrote) \in {colls[c], "partial", "loaded", "grown"}
           /\ StateAt(c, i, ran, failed, wrote) = "grown" => colls[c] = "grown" \/ ran \cap wrote # {}
           /\ (\A j \in ran : CollOf(j) # c) => StateAt(c, i, ran, failed, wrote) = colls[c]
           /\ ran \cap Uploads = {} /\ colls[c] \notin Present
                 => StateAt(c, i, ran, failed, wrote) = colls[c]
  <1> DEFINE before == {j \in ran : j < i /\ CollOf(j) = c}
             uploads == before \cap Uploads
             last == CHOOSE j \in uploads : \A k \in uploads : k <= j
             loaded == IF uploads = {} THEN colls[c]
                       ELSE IF last \in failed THEN "partial" ELSE "loaded"
             since == {j \in before \cap wrote : \A k \in uploads : k < j}
  <1>1. StateAt(c, i, ran, failed, wrote) =
            IF since # {} /\ loaded \in Present THEN "grown" ELSE loaded
    BY DEF StateAt
  <1>2. loaded \in {colls[c], "partial", "loaded"}
    <2> HIDE DEF uploads, last
    <2> QED OBVIOUS
  <1>3. since # {} => ran \cap wrote # {}
    <2> HIDE DEF uploads
    <2> QED OBVIOUS
  <1>4. (\A j \in ran : CollOf(j) # c) => since = {} /\ loaded = colls[c]
    <2>1. SUFFICES ASSUME \A j \in ran : CollOf(j) # c PROVE since = {} /\ loaded = colls[c]
      OBVIOUS
    <2>2. before = {}
      BY <2>1
    <2>3. uploads = {} /\ since = {}
      BY <2>2
    <2> HIDE DEF uploads, last
    <2> QED BY <2>3
  <1>5. ran \cap Uploads = {} => loaded = colls[c]
    <2>1. ran \cap Uploads = {} => uploads = {}
      OBVIOUS
    <2> HIDE DEF uploads, last
    <2> QED BY <2>1
  <1> HIDE DEF loaded, since
  <1> QED
    BY <1>1, <1>2, <1>3, <1>4, <1>5

LEMMA RowsAreOnColls == \A i \in Rows : CollOf(i) \in Colls
  BY DEF Colls, UploadCollections, CollsOf

LEMMA WritersUploadNothing == MutatingRows \cap Uploads = {}
  BY TableAssumption DEF TableAssumption, MutatingRows, Uploads, Rows, RowShape

(* What one workloads.py invocation over the rows S does.                    *)
LEMMA Invocation ==
    ASSUME TypeOK, NEW S, S \subseteq Rows, RunWorkloads(S)
    PROVE  /\ colls' \in [Colls -> CollStates]
           /\ rowSaw' \in [Rows -> CollStates \cup {"unrun"}]
           /\ status' \in {0, 1}
           /\ UNCHANGED <<sweepSaw, record, later, captureFailed, dropFailed>>
           /\ \A c \in Colls :
                 /\ colls'[c] = "dropped" => colls[c] = "dropped"
                 /\ colls'[c] = "grown" => colls[c] = "grown" \/ S \cap MutatingRows # {}
                 /\ (\A j \in S : CollOf(j) # c) => colls'[c] = colls[c]
                 /\ S \cap Uploads = {} /\ colls[c] \notin Present => colls'[c] = colls[c]
           /\ \A i \in Rows :
                 /\ rowSaw'[i] = "dropped" =>
                       rowSaw[i] = "dropped" \/ (i \in S /\ colls[CollOf(i)] = "dropped")
                 /\ rowSaw'[i] = "grown" =>
                       \/ rowSaw[i] = "grown"
                       \/ i \in S /\ (colls[CollOf(i)] = "grown" \/ S \cap MutatingRows # {})
  <1>1. PICK ran \in {{i \in S : i < upTo} : upTo \in 1..(Len(Table) + 1)} :
        \E failed \in SUBSET (Uploads \cap ran), wrote \in SUBSET (MutatingRows \cap ran) :
        /\ rowSaw' = [i \in Rows |-> IF i \in ran
                        THEN StateAt(CollOf(i), i, ran, failed, wrote)
                        ELSE rowSaw[i]]
        /\ colls' = [c \in Colls |-> StateAt(c, Len(Table) + 1, ran, failed, wrote)]
        /\ status' = IF ran # S \/ failed # {} THEN 1 ELSE status
        /\ UNCHANGED <<sweepSaw, record, later, captureFailed, dropFailed>>
    BY DEF RunWorkloads
  <1>2. PICK failed \in SUBSET (Uploads \cap ran), wrote \in SUBSET (MutatingRows \cap ran) :
        /\ rowSaw' = [i \in Rows |-> IF i \in ran
                        THEN StateAt(CollOf(i), i, ran, failed, wrote)
                        ELSE rowSaw[i]]
        /\ colls' = [c \in Colls |-> StateAt(c, Len(Table) + 1, ran, failed, wrote)]
        /\ status' = IF ran # S \/ failed # {} THEN 1 ELSE status
        /\ UNCHANGED <<sweepSaw, record, later, captureFailed, dropFailed>>
    BY <1>1
  <1>3. ran \subseteq S /\ (ran \cap wrote # {} => S \cap MutatingRows # {})
    OBVIOUS
  <1>4. \A c \in Colls :
            /\ colls'[c] \in CollStates
            /\ colls'[c] = "dropped" => colls[c] = "dropped"
            /\ colls'[c] = "grown" => colls[c] = "grown" \/ S \cap MutatingRows # {}
            /\ (\A j \in S : CollOf(j) # c) => colls'[c] = colls[c]
            /\ S \cap Uploads = {} /\ colls[c] \notin Present => colls'[c] = colls[c]
    <2>1. TAKE c \in Colls
    <2>2. colls'[c] = StateAt(c, Len(Table) + 1, ran, failed, wrote) /\ colls[c] \in CollStates
      BY <1>2 DEF TypeOK
    <2> QED
      BY <2>2, <1>3, StateAtCases DEF CollStates
  <1>5. \A i \in Rows :
            /\ rowSaw'[i] \in CollStates \cup {"unrun"}
            /\ rowSaw'[i] = "dropped" =>
                  rowSaw[i] = "dropped" \/ (i \in S /\ colls[CollOf(i)] = "dropped")
            /\ rowSaw'[i] = "grown" =>
                  \/ rowSaw[i] = "grown"
                  \/ i \in S /\ (colls[CollOf(i)] = "grown" \/ S \cap MutatingRows # {})
    <2>1. TAKE i \in Rows
    <2>2. CASE i \in ran
      <3>1. /\ rowSaw'[i] = StateAt(CollOf(i), i, ran, failed, wrote)
            /\ colls[CollOf(i)] \in CollStates
        BY <1>2, <2>2, RowsAreOnColls DEF TypeOK
      <3> QED
        BY <3>1, <2>2, <1>3, StateAtCases DEF CollStates
    <2>3. CASE i \notin ran
      BY <1>2, <2>3 DEF TypeOK
    <2> QED
      BY <2>2, <2>3
  <1>6. colls' = [c \in Colls |-> colls'[c]] /\ rowSaw' = [i \in Rows |-> rowSaw'[i]]
    BY <1>2
  <1>7. status' \in {0, 1}
    BY <1>2 DEF TypeOK
  <1> QED
    BY <1>2, <1>4, <1>5, <1>6, <1>7

-----------------------------------------------------------------------------
(* What the other tools do, each in the facts the proofs below need.         *)
LEMMA CaptureEffect ==
    ASSUME TypeOK, NEW names, Capture(names)
    PROVE  /\ record' \in [Colls -> {"never"} \cup Present]
           /\ captureFailed' \in BOOLEAN
           /\ captureFailed => captureFailed'
           /\ UNCHANGED <<colls, rowSaw, sweepSaw, later, dropFailed, status>>
           /\ \A c \in Colls :
                 /\ record'[c] # "grown" \/ record[c] = "grown" \/ colls[c] = "grown"
                 /\ record[c] \in Present => record'[c] \in Present
                 /\ ~captureFailed' /\ c \in Asked(names) /\ colls[c] \in Present
                       => record'[c] \in Present
  <1>1. CASE record' = [c \in Colls |-> IF c \in Asked(names) /\ colls[c] \in Present
                                           THEN colls[c] ELSE record[c]]
              /\ UNCHANGED captureFailed
    <2>1. \A c \in Colls : record'[c] = IF c \in Asked(names) /\ colls[c] \in Present
                                         THEN colls[c] ELSE record[c]
      BY <1>1
    <2> QED
      BY <1>1, <2>1 DEF Capture, TypeOK, Present
  <1>2. CASE captureFailed' = TRUE /\ UNCHANGED record
    BY <1>2 DEF Capture, TypeOK
  <1> QED
    BY <1>1, <1>2 DEF Capture

LEMMA RecaptureEffect ==
    ASSUME TypeOK, NEW names, Recapture(names)
    PROVE  /\ record' \in [Colls -> {"never"} \cup Present]
           /\ later' \in [Colls -> {"never"} \cup Present]
           /\ captureFailed' \in BOOLEAN
           /\ captureFailed => captureFailed'
           /\ UNCHANGED <<colls, rowSaw, sweepSaw, dropFailed, status>>
           /\ \A c \in Colls :
                 /\ record'[c] = record[c] \/ (/\ c \in Asked(names)
                                              /\ colls[c] \in Present
                                              /\ record[c] = "never")
                 /\ record[c] \in Present => record'[c] \in Present
  <1>1. CASE /\ later' = [c \in Colls |-> IF c \in Asked(names) /\ colls[c] \in Present
                                             THEN colls[c] ELSE later[c]]
             /\ record' = [c \in Colls |-> IF /\ c \in Asked(names) /\ colls[c] \in Present
                                                /\ record[c] = "never"
                                             THEN colls[c] ELSE record[c]]
             /\ UNCHANGED captureFailed
    BY <1>1 DEF Recapture, TypeOK, Present
  <1>2. CASE captureFailed' = TRUE /\ UNCHANGED <<record, later>>
    BY <1>2 DEF Recapture, TypeOK
  <1> QED
    BY <1>1, <1>2 DEF Recapture

LEMMA DropEffect ==
    ASSUME TypeOK, NEW names, Drop(names)
    PROVE  /\ colls' \in [Colls -> CollStates]
           /\ dropFailed' \in BOOLEAN
           /\ dropFailed => dropFailed'
           /\ UNCHANGED <<rowSaw, sweepSaw, record, later, captureFailed, status>>
           /\ \A c \in Colls :
                 /\ colls'[c] = colls[c] \/ (c \in names /\ colls[c] \in Present
                                               /\ colls'[c] = "dropped")
                 /\ ~dropFailed' /\ c \in names => colls'[c] \notin Present
  <1>1. PICK gone \in SUBSET names :
          /\ colls' = [c \in Colls |-> IF c \in gone /\ colls[c] \in Present
                                          THEN "dropped" ELSE colls[c]]
          /\ dropFailed' = (dropFailed \/ gone # names)
    BY DEF Drop
  <1>2. \A c \in Colls : colls'[c] = IF c \in gone /\ colls[c] \in Present
                                       THEN "dropped" ELSE colls[c]
    BY <1>1
  <1>3. dropFailed \in BOOLEAN
    BY DEF TypeOK
  <1>4. dropFailed' \in BOOLEAN /\ (dropFailed => dropFailed')
    BY <1>1, <1>3
  <1>5. ~dropFailed' => gone = names
    BY <1>1
  <1>6. colls' \in [Colls -> CollStates]
    BY <1>1 DEF TypeOK, CollStates
  <1>7. UNCHANGED <<rowSaw, sweepSaw, record, later, captureFailed, status>>
    BY DEF Drop
  <1> QED
    BY <1>2, <1>4, <1>5, <1>6, <1>7 DEF Present

LEMMA SweepEffect ==
    ASSUME TypeOK, NEW names, Sweep(names)
    PROVE  /\ sweepSaw' \in [Colls -> CollStates \cup {"unrun"}]
           /\ status' \in {0, 1}
           /\ UNCHANGED <<colls, rowSaw, record, later, captureFailed, dropFailed>>
           /\ \A c \in Colls : sweepSaw'[c] = IF c \in names THEN colls[c] ELSE sweepSaw[c]
  <1>1. \A c \in Colls : sweepSaw'[c] = IF c \in names THEN colls[c] ELSE sweepSaw[c]
    BY DEF Sweep
  <1>2. sweepSaw' = [c \in Colls |-> sweepSaw'[c]]
    BY DEF Sweep
  <1>3. sweepSaw' \in [Colls -> CollStates \cup {"unrun"}]
    BY <1>1, <1>2 DEF TypeOK
  <1>4. status' \in {0, 1}
    BY DEF Sweep, TypeOK
  <1> QED
    BY <1>1, <1>3, <1>4 DEF Sweep

-----------------------------------------------------------------------------
(* Every value an arm's run can give the model's variables is of its type.   *)
LEMMA TypeStep == TypeOK /\ [Next]_vars => TypeOK'
  <1> SUFFICES ASSUME TypeOK, [Next]_vars PROVE TypeOK'
    OBVIOUS
  <1>1. CASE MeasureFirst
    BY <1>1, Invocation, WritersApart DEF MeasureFirst, Goto, TypeOK, Phases
  <1>2. CASE CaptureEarly
    BY <1>2, CaptureEffect DEF CaptureEarly, Goto, TypeOK, Phases
  <1>3. CASE DropEarly
    BY <1>3, DropEffect DEF DropEarly, Goto, TypeOK, Phases
  <1>4. CASE MeasureRest
    BY <1>4, Invocation, WritersApart DEF MeasureRest, Goto, TypeOK, Phases, Idle
  <1>5. CASE CaptureDead
    BY <1>5, CaptureEffect DEF CaptureDead, Goto, TypeOK, Phases
  <1>6. CASE DropDead
    BY <1>6, DropEffect DEF DropDead, Goto, TypeOK, Phases
  <1>7. CASE SweepAll
    BY <1>7, SweepEffect DEF SweepAll, Goto, TypeOK, Phases
  <1>8. CASE CaptureSwept
    BY <1>8, CaptureEffect DEF CaptureSwept, Goto, TypeOK, Phases
  <1>9. CASE DropSwept
    BY <1>9, DropEffect DEF DropSwept, Goto, TypeOK, Phases
  <1>10. CASE MeasureGroup
    <2>1. PICK g \in NextGroup : /\ at' = "groupSweep" /\ group' = g
                                 /\ RunWorkloads(GroupRows(g))
      BY <1>10 DEF MeasureGroup
    <2>2. g \in Groups /\ g \in Nat
      BY <2>1, GroupsAreNumbers DEF NextGroup
    <2> QED
      BY <2>1, <2>2, Invocation, WritersApart DEF TypeOK, Phases
  <1>11. CASE SweepGroup
    BY <1>11, SweepEffect DEF SweepGroup, Goto, TypeOK, Phases
  <1>12. CASE CaptureGroup
    BY <1>12, CaptureEffect DEF CaptureGroup, Goto, TypeOK, Phases
  <1>13. CASE DropGroup
    BY <1>13, DropEffect DEF DropGroup, Goto, TypeOK, Phases
  <1>14. CASE GroupsDone
    BY <1>14 DEF GroupsDone, Goto, TypeOK, Phases, Idle
  <1>15. CASE CaptureSurvivors
    BY <1>15, CaptureEffect DEF CaptureSurvivors, Goto, TypeOK, Phases
  <1>16. CASE MeasureMutating
    BY <1>16, Invocation, WritersApart DEF MeasureMutating, Goto, TypeOK, Phases
  <1>17. CASE RecaptureSurvivors
    BY <1>17, RecaptureEffect DEF RecaptureSurvivors, Goto, TypeOK, Phases
  <1>18. CASE UNCHANGED vars
    BY <1>18 DEF vars, TypeOK
  <1> QED
    BY <1>1, <1>2, <1>3, <1>4, <1>5, <1>6, <1>7, <1>8, <1>9, <1>10, <1>11, <1>12, <1>13, <1>14, <1>15, <1>16, <1>17, <1>18 DEF Next

LEMMA TypeInit == Init => TypeOK
  <1> SUFFICES ASSUME Init PROVE TypeOK
    OBVIOUS
  <1>1. at \in Phases /\ group \in Nat /\ status \in {0, 1}
    BY DEF Init, Phases
  <1>2. captureFailed \in BOOLEAN /\ dropFailed \in BOOLEAN
    BY DEF Init
  <1>3. /\ colls \in [Colls -> CollStates]
        /\ rowSaw \in [Rows -> CollStates \cup {"unrun"}]
        /\ sweepSaw \in [Colls -> CollStates \cup {"unrun"}]
    BY DEF Init, CollStates
  <1>4. /\ record \in [Colls -> {"never"} \cup Present]
        /\ later \in [Colls -> {"never"} \cup Present]
    BY DEF Init
  <1> QED
    BY <1>1, <1>2, <1>3, <1>4 DEF TypeOK

(* The arm's variables always have their types, whatever fails.              *)
THEOREM TypeCorrect == Spec => []TypeOK
  BY TypeInit, TypeStep, PTL DEF Spec


-----------------------------------------------------------------------------
(* What has been dropped so far, by the phase the arm is in: why a later     *)
(* phase never searches it.                                                  *)
Dropped == {c \in Colls : colls[c] = "dropped"}
InGroup == at \in {"groupSweep", "groupCapture", "groupDrop"}

DropsSoFar ==
    /\ at \in {"first", "captureEarly", "dropEarly"} => Dropped = {}
    /\ at \in {"rest", "captureDead", "dropDead"} => Dropped \subseteq Early
    /\ at \in {"sweep", "captureSwept", "dropSwept"} => Dropped \subseteq Early \cup Dead
    /\ Dropped \subseteq Early \cup Dead \cup DroppableAfterSweeps \cup IsolatedCollections
    /\ at \in Phases \ {"group", "groupSweep", "groupCapture", "groupDrop",
                        "captureSurvivors", "mutating", "recapture", "done"}
         => Dropped \cap IsolatedCollections = {}
    /\ InGroup => group \in Groups /\ Encodings[group].coll \notin Dropped
    /\ \A g \in Groups : Encodings[g].coll \in Dropped => g <= group

(* Where the collections stand among the sets the drops are made of.         *)
LEMMA Standing ==
    /\ DefaultSweep \cap (Early \cup Dead) = {}
    /\ IsolatedCollections \cap (Early \cup Dead \cup DroppableAfterSweeps) = {}
    /\ CollsOf(MutatingRows) \cap
         (Early \cup Dead \cup DroppableAfterSweeps \cup IsolatedCollections) = {}
  <1>1. DefaultSweep \cap (Early \cup Dead) = {}
    BY DefaultSweepIsSwept, SweptAreRead, DeadAreUnread
  <1>2. IsolatedCollections \cap (Early \cup Dead \cup DroppableAfterSweeps) = {}
    BY IsolatedAreSwept, SweptAreRead, DeadAreUnread
       DEF IsolatedCollections, DroppableAfterSweeps
  <1>3. CollsOf(MutatingRows) \cap (Early \cup Dead) = {}
    BY DeadAreUnread DEF CollectionsReadAfterRows
  <1>4. CollsOf(MutatingRows) \cap (DroppableAfterSweeps \cup IsolatedCollections) = {}
    BY IsolatedAreSwept DEF DroppableAfterSweeps, IsolatedCollections
  <1> QED
    BY <1>1, <1>2, <1>3, <1>4

(* A step that drops nothing and searches nothing keeps it all.              *)
LEMMA RowsDropNothing ==
    ASSUME TypeOK, NEW S, S \subseteq Rows, RunWorkloads(S)
    PROVE  Dropped' \subseteq Dropped
  BY Invocation DEF Dropped

LEMMA DropsOnlyNamed ==
    ASSUME TypeOK, NEW names, Drop(names)
    PROVE  Dropped' \subseteq Dropped \cup names
  BY DropEffect DEF Dropped, Present

LEMMA IdleDropsNothing == UNCHANGED colls => Dropped' = Dropped
  BY DEF Dropped

LEMMA DropsStep == TypeOK /\ DropsSoFar /\ [Next]_vars => DropsSoFar'
  <1> SUFFICES ASSUME TypeOK, DropsSoFar, [Next]_vars PROVE DropsSoFar'
    OBVIOUS
  <1>a. group \in Nat
    BY DEF TypeOK
  <1>1. CASE MeasureFirst
    <2>1. Dropped' \subseteq Dropped
      BY <1>1, RowsDropNothing, WritersApart DEF MeasureFirst
    <2> QED
      BY <1>1, <2>1 DEF MeasureFirst, DropsSoFar, InGroup, Goto, Phases
  <1>2. CASE CaptureEarly
    <2>1. Dropped' \subseteq Dropped
      BY <1>2, CaptureEffect, IdleDropsNothing DEF CaptureEarly
    <2> QED
      BY <1>2, <2>1 DEF CaptureEarly, DropsSoFar, InGroup, Goto, Phases
  <1>3. CASE DropEarly
    <2>1. Dropped' \subseteq Dropped \cup Early /\ group' = group
      BY <1>3, DropsOnlyNamed DEF DropEarly, Goto
    <2>2. \A g \in Groups : Encodings[g].coll \in Dropped' => Encodings[g].coll \in Dropped
      BY <2>1, Standing, IsolatedAreSwept
    <2> QED
      BY <1>3, <2>1, <2>2, Standing DEF DropEarly, DropsSoFar, InGroup, Goto, Phases
  <1>4. CASE MeasureRest
    <2>1. Dropped' \subseteq Dropped
      BY <1>4, RowsDropNothing, WritersApart, IdleDropsNothing DEF MeasureRest, Idle
    <2> QED
      BY <1>4, <2>1 DEF MeasureRest, DropsSoFar, InGroup, Goto, Phases
  <1>5. CASE CaptureDead
    <2>1. Dropped' \subseteq Dropped
      BY <1>5, CaptureEffect, IdleDropsNothing DEF CaptureDead
    <2> QED
      BY <1>5, <2>1 DEF CaptureDead, DropsSoFar, InGroup, Goto, Phases
  <1>6. CASE DropDead
    <2>1. Dropped' \subseteq Dropped \cup Dead /\ group' = group
      BY <1>6, DropsOnlyNamed DEF DropDead, Goto
    <2>2. \A g \in Groups : Encodings[g].coll \in Dropped' => Encodings[g].coll \in Dropped
      BY <2>1, Standing, IsolatedAreSwept
    <2> QED
      BY <1>6, <2>1, <2>2, Standing DEF DropDead, DropsSoFar, InGroup, Goto, Phases
  <1>7. CASE SweepAll
    <2>1. Dropped' \subseteq Dropped
      BY <1>7, SweepEffect, IdleDropsNothing DEF SweepAll
    <2> QED
      BY <1>7, <2>1 DEF SweepAll, DropsSoFar, InGroup, Goto, Phases
  <1>8. CASE CaptureSwept
    <2>1. Dropped' \subseteq Dropped
      BY <1>8, CaptureEffect, IdleDropsNothing DEF CaptureSwept
    <2> QED
      BY <1>8, <2>1 DEF CaptureSwept, DropsSoFar, InGroup, Goto, Phases
  <1>9. CASE DropSwept
    <2>1. Dropped' \subseteq Dropped \cup DroppableAfterSweeps /\ group' = group
      BY <1>9, DropsOnlyNamed DEF DropSwept, Goto
    <2>2. \A g \in Groups : Encodings[g].coll \in Dropped' => Encodings[g].coll \in Dropped
      BY <2>1, Standing, IsolatedAreSwept
    <2> QED
      BY <1>9, <2>1, <2>2, Standing DEF DropSwept, DropsSoFar, InGroup, Goto, Phases
  <1>10. CASE MeasureGroup
    <2>1. PICK g \in NextGroup : /\ at = "group" /\ at' = "groupSweep" /\ group' = g
                                 /\ RunWorkloads(GroupRows(g))
      BY <1>10 DEF MeasureGroup
    <2>2. g \in Groups /\ g \in Nat /\ g > group
      BY <2>1, GroupsAreNumbers DEF NextGroup
    <2>3. Dropped' \subseteq Dropped
      BY <2>1, <2>2, RowsDropNothing, WritersApart
    <2>4. Encodings[g].coll \notin Dropped
      BY <2>2, <1>a DEF DropsSoFar
    <2>5. \A h \in Groups : Encodings[h].coll \in Dropped' => h <= g
      BY <2>2, <2>3, <1>a, GroupsAreNumbers DEF DropsSoFar
    <2> QED
      BY <2>1, <2>2, <2>3, <2>4, <2>5 DEF DropsSoFar, InGroup, Goto, Phases
  <1>11. CASE SweepGroup
    <2>1. Dropped' \subseteq Dropped
      BY <1>11, SweepEffect, IdleDropsNothing DEF SweepGroup
    <2> QED
      BY <1>11, <2>1 DEF SweepGroup, DropsSoFar, InGroup, Goto, Phases
  <1>12. CASE CaptureGroup
    <2>1. Dropped' \subseteq Dropped
      BY <1>12, CaptureEffect, IdleDropsNothing DEF CaptureGroup
    <2> QED
      BY <1>12, <2>1 DEF CaptureGroup, DropsSoFar, InGroup, Goto, Phases
  <1>13. CASE DropGroup
    <2>1. group' = group /\ group \in Groups /\ at' = "group"
      BY <1>13 DEF DropGroup, DropsSoFar, InGroup, Goto, Phases
    <2>2. Dropped' \subseteq Dropped \cup {Encodings[group].coll}
      BY <1>13, DropsOnlyNamed DEF DropGroup
    <2>3. \A g \in Groups : Encodings[g].coll \in Dropped' => g <= group
      BY <2>1, <2>2, IsolatedApart, <1>a DEF DropsSoFar
    <2>4. Encodings[group].coll \in IsolatedCollections
      BY <2>1, IsolatedAreSwept
    <2> QED
      BY <2>1, <2>2, <2>3, <2>4 DEF DropsSoFar, InGroup, Goto, Phases
  <1>14. CASE GroupsDone
    <2>1. Dropped' \subseteq Dropped
      BY <1>14, IdleDropsNothing DEF GroupsDone, Idle
    <2> QED
      BY <1>14, <2>1 DEF GroupsDone, DropsSoFar, InGroup, Goto, Phases
  <1>15. CASE CaptureSurvivors
    <2>1. Dropped' \subseteq Dropped
      BY <1>15, CaptureEffect, IdleDropsNothing DEF CaptureSurvivors
    <2> QED
      BY <1>15, <2>1 DEF CaptureSurvivors, DropsSoFar, InGroup, Goto, Phases
  <1>16. CASE MeasureMutating
    <2>1. Dropped' \subseteq Dropped
      BY <1>16, RowsDropNothing, WritersApart DEF MeasureMutating
    <2> QED
      BY <1>16, <2>1 DEF MeasureMutating, DropsSoFar, InGroup, Goto, Phases
  <1>17. CASE RecaptureSurvivors
    <2>1. Dropped' \subseteq Dropped
      BY <1>17, RecaptureEffect, IdleDropsNothing DEF RecaptureSurvivors
    <2> QED
      BY <1>17, <2>1 DEF RecaptureSurvivors, DropsSoFar, InGroup, Goto, Phases
  <1>18. CASE UNCHANGED vars
    BY <1>18, IdleDropsNothing DEF vars, DropsSoFar, InGroup
  <1> QED
    BY <1>1, <1>2, <1>3, <1>4, <1>5, <1>6, <1>7, <1>8, <1>9, <1>10, <1>11, <1>12, <1>13, <1>14, <1>15, <1>16, <1>17, <1>18 DEF Next
-----------------------------------------------------------------------------
(* The actions that search a collection, and those that leave what was seen. *)
Searching == \/ MeasureFirst \/ MeasureRest \/ MeasureGroup \/ MeasureMutating
             \/ SweepAll \/ SweepGroup

LEMMA SeenUnlessSearching ==
    TypeOK /\ [Next]_vars /\ ~Searching => UNCHANGED <<rowSaw, sweepSaw>>
  <1> SUFFICES ASSUME TypeOK, [Next]_vars, ~Searching PROVE UNCHANGED <<rowSaw, sweepSaw>>
    OBVIOUS
  <1>1. CASE CaptureEarly \/ CaptureDead \/ CaptureSwept \/ CaptureGroup \/ CaptureSurvivors
    BY <1>1, CaptureEffect
       DEF CaptureEarly, CaptureDead, CaptureSwept, CaptureGroup, CaptureSurvivors
  <1>2. CASE DropEarly \/ DropDead \/ DropSwept \/ DropGroup
    BY <1>2, DropEffect DEF DropEarly, DropDead, DropSwept, DropGroup
  <1>3. CASE RecaptureSurvivors
    BY <1>3, RecaptureEffect DEF RecaptureSurvivors
  <1>4. CASE GroupsDone
    BY <1>4 DEF GroupsDone, Idle
  <1>5. CASE UNCHANGED vars
    BY <1>5 DEF vars
  <1> QED
    BY <1>1, <1>2, <1>3, <1>4, <1>5 DEF Next, Searching

(* A row or a sweep that runs finds none of the collections dropped so far.  *)
LEMMA ReadsStep ==
    TypeOK /\ DropsSoFar /\ NothingReadAfterDrop /\ [Next]_vars => NothingReadAfterDrop'
  <1> SUFFICES ASSUME TypeOK, DropsSoFar, NothingReadAfterDrop, [Next]_vars
               PROVE  NothingReadAfterDrop'
    OBVIOUS
  <1>a. ASSUME NEW S, S \subseteq Rows, RunWorkloads(S), CollsOf(S) \cap Dropped = {}
        PROVE  NothingReadAfterDrop'
    <2>1. \A i \in S : colls[CollOf(i)] # "dropped"
      BY <1>a, RowsAreOnColls DEF CollsOf, Dropped
    <2> QED
      BY <1>a, <2>1, Invocation DEF NothingReadAfterDrop
  <1>b. ASSUME NEW names, Sweep(names), names \cap Dropped = {}
        PROVE  NothingReadAfterDrop'
    BY <1>b, SweepEffect DEF NothingReadAfterDrop, Dropped
  <1>1. CASE MeasureFirst
    BY <1>1, <1>a, WritersApart DEF MeasureFirst, Goto, DropsSoFar
  <1>2. CASE MeasureRest
    <2>1. CASE RestRows = {}
      BY <1>2, <2>1 DEF MeasureRest, Idle, NothingReadAfterDrop
    <2>2. CASE RestRows # {}
      <3>1. Dropped \subseteq Early /\ RunWorkloads(RestRows)
        BY <1>2, <2>2 DEF MeasureRest, Goto, DropsSoFar
      <3>2. CollsOf(RestRows) \cap Dropped = {}
        BY <3>1, RestRowsAfterEarly DEF CollsOf
      <3> QED
        BY <3>1, <3>2, <1>a, WritersApart
    <2> QED
      BY <2>1, <2>2
  <1>3. CASE MeasureGroup
    <2>1. PICK g \in NextGroup : RunWorkloads(GroupRows(g))
      BY <1>3 DEF MeasureGroup
    <2>2. g \in Groups /\ g \in Nat /\ g > group /\ group \in Nat
      BY <2>1, GroupsAreNumbers DEF NextGroup, TypeOK
    <2>3. Encodings[g].coll \notin Dropped
      BY <2>2 DEF DropsSoFar
    <2>4. CollsOf(GroupRows(g)) \cap Dropped = {}
      BY <2>3 DEF CollsOf, GroupRows
    <2> QED
      BY <2>1, <2>2, <2>4, <1>a, WritersApart
  <1>4. CASE MeasureMutating
    BY <1>4, <1>a, WritersApart, Standing DEF MeasureMutating, DropsSoFar
  <1>5. CASE SweepAll
    BY <1>5, <1>b, Standing DEF SweepAll, Goto, DropsSoFar
  <1>6. CASE SweepGroup
    BY <1>6, <1>b DEF SweepGroup, Goto, DropsSoFar, InGroup
  <1>7. CASE ~Searching
    BY <1>7, SeenUnlessSearching DEF NothingReadAfterDrop
  <1> QED
    BY <1>1, <1>2, <1>3, <1>4, <1>5, <1>6, <1>7 DEF Searching

(* Whatever the table, the swept collections and the isolated encodings are, *)
(* the drops the harness computes from them never take a collection that a   *)
(* later row or a later recall sweep of the arm searches.                    *)
THEOREM DropsAreSafe == Spec => []NothingReadAfterDrop
  <1>1. Init => TypeOK /\ DropsSoFar /\ NothingReadAfterDrop
    <2>1. Init => DropsSoFar
      BY DEF Init, DropsSoFar, Dropped, InGroup
    <2>2. Init => NothingReadAfterDrop
      BY DEF Init, NothingReadAfterDrop
    <2> QED
      BY <2>1, <2>2, TypeInit
  <1> QED
    BY <1>1, TypeStep, DropsStep, ReadsStep, PTL DEF Spec

-----------------------------------------------------------------------------
(* Nothing has grown before the rows with a writer of their own run.         *)
NotGrownYet ==
    at \notin {"recapture", "done"} => \A c \in Colls : colls[c] # "grown"

LEMMA NotGrownStep == TypeOK /\ NotGrownYet /\ [Next]_vars => NotGrownYet'
  <1> SUFFICES ASSUME TypeOK, NotGrownYet, [Next]_vars,
                      at' \notin {"recapture", "done"}
               PROVE  \A c \in Colls : colls'[c] # "grown"
    BY DEF NotGrownYet
  <1>a. ASSUME NEW S, S \subseteq Rows, RunWorkloads(S), S \cap MutatingRows = {},
               at \notin {"recapture", "done"}
        PROVE  \A c \in Colls : colls'[c] # "grown"
    BY <1>a, Invocation DEF NotGrownYet
  <1>b. ASSUME UNCHANGED colls, at \notin {"recapture", "done"}
        PROVE  \A c \in Colls : colls'[c] # "grown"
    BY <1>b DEF NotGrownYet
  <1>1. CASE MeasureFirst
    BY <1>1, <1>a, WritersApart DEF MeasureFirst, Goto
  <1>2. CASE MeasureRest
    BY <1>2, <1>a, <1>b, WritersApart DEF MeasureRest, Goto, Idle
  <1>3. CASE MeasureGroup
    <2>1. PICK g \in NextGroup : at = "group" /\ RunWorkloads(GroupRows(g))
      BY <1>3 DEF MeasureGroup
    <2> QED
      BY <2>1, <1>a, WritersApart DEF NextGroup
  <1>4. CASE MeasureMutating
    BY <1>4 DEF MeasureMutating, Goto
  <1>5. CASE SweepAll \/ SweepGroup
    BY <1>5, <1>b, SweepEffect DEF SweepAll, SweepGroup, Goto
  <1>6. CASE CaptureEarly \/ CaptureDead \/ CaptureSwept \/ CaptureGroup \/ CaptureSurvivors
    BY <1>6, <1>b, CaptureEffect
       DEF CaptureEarly, CaptureDead, CaptureSwept, CaptureGroup, CaptureSurvivors, Goto
  <1>7. CASE DropEarly \/ DropDead \/ DropSwept \/ DropGroup
    <2>1. at \notin {"recapture", "done"}
      BY <1>7 DEF DropEarly, DropDead, DropSwept, DropGroup, Goto
    <2>2. \A c \in Colls : colls'[c] \in {colls[c], "dropped"}
      BY <1>7, DropEffect DEF DropEarly, DropDead, DropSwept, DropGroup
    <2> QED
      BY <2>1, <2>2 DEF NotGrownYet
  <1>8. CASE GroupsDone
    BY <1>8, <1>b DEF GroupsDone, Goto, Idle
  <1>9. CASE RecaptureSurvivors
    BY <1>9 DEF RecaptureSurvivors, Goto
  <1>10. CASE UNCHANGED vars
    BY <1>10, <1>b DEF vars
  <1> QED
    BY <1>1, <1>2, <1>3, <1>4, <1>5, <1>6, <1>7, <1>8, <1>9, <1>10 DEF Next

(* So only those rows ever search a collection that has grown.               *)
LEMMA MeasuredStep ==
    TypeOK /\ NotGrownYet /\ MeasuredAsUploaded /\ [Next]_vars => MeasuredAsUploaded'
  <1> SUFFICES ASSUME TypeOK, NotGrownYet, MeasuredAsUploaded, [Next]_vars
               PROVE  MeasuredAsUploaded'
    OBVIOUS
  <1>a. ASSUME NEW S, S \subseteq Rows, RunWorkloads(S), at \notin {"recapture", "done"},
               S \cap MutatingRows = {} \/ S = MutatingRows
        PROVE  MeasuredAsUploaded'
    <2>1. \A i \in S : colls[CollOf(i)] # "grown"
      BY <1>a, RowsAreOnColls DEF NotGrownYet
    <2>2. \A i \in Rows : rowSaw'[i] = "grown" =>
             rowSaw[i] = "grown" \/ (i \in S /\ S \cap MutatingRows # {})
      BY <1>a, <2>1, Invocation
    <2>3. sweepSaw' = sweepSaw
      BY <1>a, Invocation
    <2> QED
      BY <1>a, <2>2, <2>3 DEF MeasuredAsUploaded, MutatingRows
  <1>b. ASSUME NEW names, Sweep(names), at \notin {"recapture", "done"}
        PROVE  MeasuredAsUploaded'
    BY <1>b, SweepEffect DEF MeasuredAsUploaded, NotGrownYet
  <1>1. CASE MeasureFirst
    BY <1>1, <1>a, WritersApart DEF MeasureFirst, Goto
  <1>2. CASE MeasureRest
    BY <1>2, <1>a, WritersApart DEF MeasureRest, Goto, Idle, MeasuredAsUploaded
  <1>3. CASE MeasureGroup
    <2>1. PICK g \in NextGroup : at = "group" /\ RunWorkloads(GroupRows(g))
      BY <1>3 DEF MeasureGroup
    <2> QED
      BY <2>1, <1>a, WritersApart DEF NextGroup
  <1>4. CASE MeasureMutating
    BY <1>4, <1>a, WritersApart DEF MeasureMutating, Goto
  <1>5. CASE SweepAll \/ SweepGroup
    BY <1>5, <1>b DEF SweepAll, SweepGroup, Goto
  <1>6. CASE ~Searching
    BY <1>6, SeenUnlessSearching DEF MeasuredAsUploaded
  <1> QED
    BY <1>1, <1>2, <1>3, <1>4, <1>5, <1>6 DEF Searching

(* Every row that has no writer of its own, and every recall sweep, searches *)
(* the collection as its upload left it: the appends come last.              *)
THEOREM UploadsAreMeasured == Spec => []MeasuredAsUploaded
  <1>1. Init => NotGrownYet /\ MeasuredAsUploaded
    BY DEF Init, NotGrownYet, MeasuredAsUploaded
  <1> QED
    BY <1>1, TypeInit, TypeStep, NotGrownStep, MeasuredStep, PTL DEF Spec
-----------------------------------------------------------------------------
(* As long as no read-back failed: what a drop is about to take has its      *)
(* record, and so has each survivor that rows with a writer will grow.       *)
HasRecord(names) == \A c \in Colls \cap names : colls[c] \in Present => record[c] \in Present

RecordsSoFar ==
    ~captureFailed =>
        /\ RecordedAsSearched
        /\ at = "dropEarly" => HasRecord(Early)
        /\ at = "dropDead" => HasRecord(Dead)
        /\ at = "dropSwept" => HasRecord(DroppableAfterSweeps)
        /\ at = "groupDrop" => HasRecord({Encodings[group].coll})
        /\ at \in {"mutating", "recapture"} => HasRecord(Asked(Survivors))

LEMMA AskedCovers == \A names : names \subseteq Asked(names)
  BY DEF Asked

LEMMA RecordsStep == TypeOK /\ NotGrownYet /\ RecordsSoFar /\ [Next]_vars => RecordsSoFar'
  <1> SUFFICES ASSUME TypeOK, NotGrownYet, RecordsSoFar, [Next]_vars PROVE RecordsSoFar'
    OBVIOUS
  <1>a. ASSUME NEW names, Capture(names), at \notin {"recapture", "done"}, ~captureFailed'
        PROVE  RecordedAsSearched' /\ HasRecord(names)' /\ HasRecord(Asked(names))'
    <2>1. ~captureFailed /\ RecordedAsSearched
      BY <1>a, CaptureEffect DEF RecordsSoFar
    <2>2. RecordedAsSearched'
      BY <1>a, <2>1, CaptureEffect DEF RecordedAsSearched, NotGrownYet
    <2> QED
      BY <1>a, <2>2, CaptureEffect, AskedCovers DEF HasRecord
  <1>b. ASSUME NEW names, Drop(names), ~captureFailed', HasRecord(names)
        PROVE  RecordedAsSearched'
    <2>1. ~captureFailed /\ RecordedAsSearched
      BY <1>b, DropEffect DEF RecordsSoFar
    <2> QED
      BY <1>b, <2>1, DropEffect DEF RecordedAsSearched, HasRecord
  <1>c. ASSUME NEW S, S \subseteq Rows, RunWorkloads(S), ~captureFailed'
        PROVE  RecordedAsSearched'
    <2>1. ~captureFailed /\ RecordedAsSearched
      BY <1>c, Invocation DEF RecordsSoFar
    <2> QED
      BY <1>c, <2>1, Invocation DEF RecordedAsSearched
  <1>d. ASSUME UNCHANGED <<colls, record, captureFailed>>, ~captureFailed'
        PROVE  RecordedAsSearched'
    BY <1>d DEF RecordsSoFar, RecordedAsSearched
  <1>1. CASE MeasureFirst
    BY <1>1, <1>c, WritersApart DEF MeasureFirst, Goto, RecordsSoFar
  <1>2. CASE CaptureEarly
    BY <1>2, <1>a DEF CaptureEarly, Goto, RecordsSoFar
  <1>3. CASE DropEarly
    BY <1>3, <1>b, DropEffect DEF DropEarly, Goto, RecordsSoFar
  <1>4. CASE MeasureRest
    BY <1>4, <1>c, <1>d, WritersApart DEF MeasureRest, Goto, Idle, RecordsSoFar
  <1>5. CASE CaptureDead
    BY <1>5, <1>a DEF CaptureDead, Goto, RecordsSoFar
  <1>6. CASE DropDead
    BY <1>6, <1>b, DropEffect DEF DropDead, Goto, RecordsSoFar
  <1>7. CASE SweepAll
    BY <1>7, <1>d, SweepEffect DEF SweepAll, Goto, RecordsSoFar
  <1>8. CASE CaptureSwept
    BY <1>8, <1>a DEF CaptureSwept, Goto, RecordsSoFar
  <1>9. CASE DropSwept
    BY <1>9, <1>b, DropEffect DEF DropSwept, Goto, RecordsSoFar
  <1>10. CASE MeasureGroup
    <2>1. PICK g \in NextGroup : at' = "groupSweep" /\ RunWorkloads(GroupRows(g))
      BY <1>10 DEF MeasureGroup
    <2> QED
      BY <2>1, <1>c, WritersApart DEF NextGroup, RecordsSoFar
  <1>11. CASE SweepGroup
    BY <1>11, <1>d, SweepEffect DEF SweepGroup, Goto, RecordsSoFar
  <1>12. CASE CaptureGroup
    <2>1. group' = group /\ at' = "groupDrop"
      BY <1>12 DEF CaptureGroup, Goto
    <2>2. ~captureFailed' => RecordedAsSearched' /\ HasRecord({Encodings[group].coll})'
      BY <1>12, <1>a DEF CaptureGroup, Goto
    <2> QED
      BY <2>1, <2>2 DEF RecordsSoFar, HasRecord
  <1>13. CASE DropGroup
    BY <1>13, <1>b, DropEffect DEF DropGroup, Goto, RecordsSoFar
  <1>14. CASE GroupsDone
    BY <1>14, <1>d DEF GroupsDone, Goto, Idle, RecordsSoFar
  <1>15. CASE CaptureSurvivors
    BY <1>15, <1>a DEF CaptureSurvivors, Goto, RecordsSoFar
  <1>16. CASE MeasureMutating
    <2>1. \A c \in Colls : colls'[c] \in Present => colls[c] \in Present
      BY <1>16, Invocation, WritersApart, WritersUploadNothing DEF MeasureMutating
    <2>2. ~captureFailed' => RecordedAsSearched' /\ HasRecord(Asked(Survivors))'
      BY <1>16, <2>1, <1>c, Invocation, WritersApart
         DEF MeasureMutating, Goto, RecordsSoFar, HasRecord
    <2> QED
      BY <1>16, <2>2 DEF MeasureMutating, Goto, RecordsSoFar
  <1>17. CASE RecaptureSurvivors
    <2>1. SUFFICES ASSUME ~captureFailed' PROVE RecordedAsSearched'
      BY <1>17 DEF RecaptureSurvivors, Goto, RecordsSoFar
    <2>2. ~captureFailed /\ RecordedAsSearched /\ HasRecord(Asked(Survivors))
      BY <1>17, <2>1, RecaptureEffect DEF RecaptureSurvivors, Goto, RecordsSoFar
    <2>3. \A c \in Colls : record'[c] = record[c]
      BY <1>17, <2>2, RecaptureEffect DEF RecaptureSurvivors, HasRecord, Present
    <2> QED
      BY <1>17, <2>2, <2>3, RecaptureEffect DEF RecaptureSurvivors, RecordedAsSearched
  <1>18. CASE UNCHANGED vars
    BY <1>18 DEF vars, RecordsSoFar, RecordedAsSearched, HasRecord
  <1> QED
    BY <1>1, <1>2, <1>3, <1>4, <1>5, <1>6, <1>7, <1>8, <1>9, <1>10, <1>11, <1>12, <1>13, <1>14, <1>15, <1>16, <1>17, <1>18 DEF Next

(* Unless a read-back failed, whatever the arm drops was read back before,   *)
(* and no record describes a collection after the appends.                   *)
THEOREM RecordsAreOfTheMeasured == Spec => []RecordedAsSearched
  <1>1. Init => NotGrownYet /\ RecordsSoFar
    BY DEF Init, NotGrownYet, RecordsSoFar, RecordedAsSearched
  <1>2. RecordsSoFar => RecordedAsSearched
    BY DEF RecordsSoFar, RecordedAsSearched
  <1> QED
    BY <1>1, <1>2, TypeInit, TypeStep, NotGrownStep, RecordsStep, PTL DEF Spec
-----------------------------------------------------------------------------
(* As long as no drop failed: no isolated encoding is loaded before the      *)
(* table's own swept collections are gone, nor beside another one.           *)
Gone(names) == \A c \in Colls \cap names : colls[c] \notin Present
BeforeGroups == {"first", "captureEarly", "dropEarly", "rest", "captureDead", "dropDead",
                 "sweep", "captureSwept", "dropSwept"}

LoadedSoFar ==
    ~dropFailed =>
        /\ at \in BeforeGroups => Gone(IsolatedCollections)
        /\ at \notin BeforeGroups => Gone(DroppableAfterSweeps)
        /\ IF InGroup THEN Gone(IsolatedCollections \ {Encodings[group].coll})
           ELSE Gone(IsolatedCollections)

(* Rows on other collections, and every tool but an upload, load none.       *)
LEMMA RowsElsewhere ==
    ASSUME TypeOK, NEW S, S \subseteq Rows, RunWorkloads(S), NEW names,
           CollsOf(S) \cap names = {}, Gone(names)
    PROVE  Gone(names)'
  <1>1. \A c \in Colls \cap names : colls'[c] = colls[c]
    BY Invocation DEF CollsOf
  <1>2. colls' \in [Colls -> CollStates]
    BY Invocation
  <1> QED
    BY <1>1 DEF Gone

LEMMA IsolatedRowsApart ==
    /\ CollsOf(FirstRows) \cap IsolatedCollections = {}
    /\ CollsOf(RestRows) \cap IsolatedCollections = {}
    /\ \A g \in Groups : CollsOf(GroupRows(g)) \subseteq {Encodings[g].coll}
  <1>1. CollsOf(StableRows) \cap IsolatedCollections = {}
    BY DEF StableRows, IsolatedRows, GroupRows, CollsOf, IsolatedCollections
  <1>2. FirstRows \subseteq StableRows /\ RestRows \subseteq StableRows
    BY DEF FirstRows, RestRows
  <1>3. \A g \in Groups : CollsOf(GroupRows(g)) \subseteq {Encodings[g].coll}
    BY DEF GroupRows, CollsOf
  <1> QED
    BY <1>1, <1>2, <1>3 DEF CollsOf

LEMMA LoadedStep == TypeOK /\ LoadedSoFar /\ [Next]_vars => LoadedSoFar'
  <1> SUFFICES ASSUME TypeOK, LoadedSoFar, [Next]_vars PROVE LoadedSoFar'
    OBVIOUS
  <1>a. ASSUME UNCHANGED <<colls, dropFailed>>, NEW names, Gone(names) PROVE Gone(names)'
    BY <1>a DEF Gone
  <1>b. ASSUME NEW names, NEW gone, Drop(names), Gone(gone) PROVE Gone(gone)'
    BY <1>b, DropEffect DEF Gone, Present
  <1>c. ASSUME NEW names, Drop(names), ~dropFailed' PROVE Gone(names)'
    BY <1>c, DropEffect DEF Gone
  <1>1. CASE MeasureFirst
    <2>1. dropFailed' = dropFailed
      BY <1>1, Invocation, WritersApart DEF MeasureFirst
    <2>2. ~dropFailed => Gone(IsolatedCollections)'
      BY <1>1, RowsElsewhere, WritersApart, IsolatedRowsApart DEF MeasureFirst, LoadedSoFar, BeforeGroups, InGroup, Goto
    <2> QED
      BY <1>1, <2>1, <2>2 DEF MeasureFirst, LoadedSoFar, BeforeGroups, InGroup, Goto
  <1>2. CASE CaptureEarly
    <2>1. UNCHANGED <<colls, dropFailed>>
      BY <1>2, CaptureEffect DEF CaptureEarly
    <2> QED
      BY <1>2, <2>1 DEF CaptureEarly, LoadedSoFar, BeforeGroups, InGroup, Goto, Gone
  <1>3. CASE DropEarly
    <2>1. ~dropFailed' => ~dropFailed /\ Gone(IsolatedCollections)
      BY <1>3, DropEffect DEF DropEarly, LoadedSoFar, BeforeGroups, InGroup, Goto
    <2>2. ~dropFailed' => Gone(IsolatedCollections)'
      BY <1>3, <2>1, <1>b DEF DropEarly
    <2> QED
      BY <1>3, <2>2 DEF DropEarly, LoadedSoFar, BeforeGroups, InGroup, Goto
  <1>4. CASE MeasureRest
    <2>1. dropFailed' = dropFailed
      BY <1>4, Invocation, WritersApart DEF MeasureRest, Idle
    <2>2. ~dropFailed => Gone(IsolatedCollections)
      BY <1>4 DEF MeasureRest, LoadedSoFar, BeforeGroups, InGroup, Goto
    <2>3. ~dropFailed => Gone(IsolatedCollections)'
      BY <1>4, <2>1, <2>2, <1>a, RowsElsewhere, WritersApart, IsolatedRowsApart
         DEF MeasureRest, Idle
    <2> QED
      BY <1>4, <2>1, <2>3 DEF MeasureRest, LoadedSoFar, BeforeGroups, InGroup, Goto
  <1>5. CASE CaptureDead
    <2>1. UNCHANGED <<colls, dropFailed>>
      BY <1>5, CaptureEffect DEF CaptureDead
    <2> QED
      BY <1>5, <2>1 DEF CaptureDead, LoadedSoFar, BeforeGroups, InGroup, Goto, Gone
  <1>6. CASE DropDead
    <2>1. ~dropFailed' => ~dropFailed /\ Gone(IsolatedCollections)
      BY <1>6, DropEffect DEF DropDead, LoadedSoFar, BeforeGroups, InGroup, Goto
    <2>2. ~dropFailed' => Gone(IsolatedCollections)'
      BY <1>6, <2>1, <1>b DEF DropDead
    <2> QED
      BY <1>6, <2>2 DEF DropDead, LoadedSoFar, BeforeGroups, InGroup, Goto
  <1>7. CASE SweepAll
    <2>1. UNCHANGED <<colls, dropFailed>>
      BY <1>7, SweepEffect DEF SweepAll
    <2> QED
      BY <1>7, <2>1 DEF SweepAll, LoadedSoFar, BeforeGroups, InGroup, Goto, Gone
  <1>8. CASE CaptureSwept
    <2>1. UNCHANGED <<colls, dropFailed>>
      BY <1>8, CaptureEffect DEF CaptureSwept
    <2> QED
      BY <1>8, <2>1 DEF CaptureSwept, LoadedSoFar, BeforeGroups, InGroup, Goto, Gone
  <1>9. CASE DropSwept
    <2>1. ~dropFailed' => ~dropFailed /\ Gone(IsolatedCollections)
      BY <1>9, DropEffect DEF DropSwept, LoadedSoFar, BeforeGroups, InGroup, Goto
    <2>2. ~dropFailed' => Gone(IsolatedCollections)' /\ Gone(DroppableAfterSweeps)'
      BY <1>9, <2>1, <1>b, <1>c DEF DropSwept
    <2> QED
      BY <1>9, <2>2 DEF DropSwept, LoadedSoFar, BeforeGroups, InGroup, Goto
  <1>10. CASE MeasureGroup
    <2>1. PICK g \in NextGroup : /\ at = "group" /\ at' = "groupSweep" /\ group' = g
                                 /\ RunWorkloads(GroupRows(g))
      BY <1>10 DEF MeasureGroup
    <2>2. g \in Groups /\ GroupRows(g) \subseteq Rows
      BY <2>1, WritersApart DEF NextGroup
    <2>3. dropFailed' = dropFailed
      BY <2>1, <2>2, Invocation
    <2>4. ~dropFailed => Gone(IsolatedCollections) /\ Gone(DroppableAfterSweeps)
      BY <2>1 DEF LoadedSoFar, BeforeGroups, InGroup, Goto
    <2>5. ~dropFailed => Gone(IsolatedCollections \ {Encodings[g].coll})
      BY <2>4 DEF Gone
    <2>6. CollsOf(GroupRows(g)) \cap DroppableAfterSweeps = {}
      BY <2>2, IsolatedRowsApart, IsolatedAreSwept, Standing
    <2>7. ~dropFailed => Gone(DroppableAfterSweeps)'
      BY <2>1, <2>2, <2>4, <2>6, RowsElsewhere
    <2>8. ~dropFailed => Gone(IsolatedCollections \ {Encodings[g].coll})'
      BY <2>1, <2>2, <2>5, IsolatedRowsApart, RowsElsewhere
    <2>9. ~dropFailed => Gone(IsolatedCollections \ {Encodings[group].coll})'
      BY <2>1, <2>8 DEF Gone
    <2> QED
      BY <2>1, <2>3, <2>7, <2>9 DEF LoadedSoFar, BeforeGroups, InGroup, Goto
  <1>11. CASE SweepGroup
    <2>1. UNCHANGED <<colls, dropFailed>>
      BY <1>11, SweepEffect DEF SweepGroup
    <2> QED
      BY <1>11, <2>1 DEF SweepGroup, LoadedSoFar, BeforeGroups, InGroup, Goto, Gone
  <1>12. CASE CaptureGroup
    <2>1. UNCHANGED <<colls, dropFailed>>
      BY <1>12, CaptureEffect DEF CaptureGroup
    <2> QED
      BY <1>12, <2>1 DEF CaptureGroup, LoadedSoFar, BeforeGroups, InGroup, Goto, Gone
  <1>13. CASE DropGroup
    <2>1. group' = group /\ at = "groupDrop" /\ at' = "group"
      BY <1>13 DEF DropGroup, Goto
    <2>2. ~dropFailed' => /\ Gone(IsolatedCollections \ {Encodings[group].coll})
                         /\ Gone(DroppableAfterSweeps)
      BY <1>13, <2>1, DropEffect DEF DropGroup, LoadedSoFar, BeforeGroups, InGroup, Goto
    <2>3. ~dropFailed' => Gone(DroppableAfterSweeps)'
      BY <1>13, <2>2, <1>b DEF DropGroup
    <2>4. ~dropFailed' => Gone(IsolatedCollections)'
      BY <1>13, <2>2, DropEffect DEF DropGroup, Gone, Present
    <2> QED
      BY <2>1, <2>3, <2>4 DEF LoadedSoFar, BeforeGroups, InGroup, Goto
  <1>14. CASE GroupsDone
    <2>1. UNCHANGED <<colls, dropFailed>>
      BY <1>14 DEF GroupsDone, Idle
    <2> QED
      BY <1>14, <2>1 DEF GroupsDone, LoadedSoFar, BeforeGroups, InGroup, Goto, Gone
  <1>15. CASE CaptureSurvivors
    <2>1. UNCHANGED <<colls, dropFailed>>
      BY <1>15, CaptureEffect DEF CaptureSurvivors
    <2> QED
      BY <1>15, <2>1 DEF CaptureSurvivors, LoadedSoFar, BeforeGroups, InGroup, Goto, Gone
  <1>16. CASE MeasureMutating
    <2>1. dropFailed' = dropFailed
      BY <1>16, Invocation, WritersApart DEF MeasureMutating
    <2>2. ~dropFailed => Gone(IsolatedCollections) /\ Gone(DroppableAfterSweeps)
      BY <1>16 DEF MeasureMutating, LoadedSoFar, BeforeGroups, InGroup, Goto
    <2>3. ~dropFailed => Gone(IsolatedCollections)' /\ Gone(DroppableAfterSweeps)'
      BY <1>16, <2>2, RowsElsewhere, WritersApart, Standing DEF MeasureMutating
    <2> QED
      BY <1>16, <2>1, <2>3 DEF MeasureMutating, LoadedSoFar, BeforeGroups, InGroup, Goto
  <1>17. CASE RecaptureSurvivors
    <2>1. UNCHANGED <<colls, dropFailed>>
      BY <1>17, RecaptureEffect DEF RecaptureSurvivors
    <2> QED
      BY <1>17, <2>1 DEF RecaptureSurvivors, LoadedSoFar, BeforeGroups, InGroup, Goto, Gone
  <1>18. CASE UNCHANGED vars
    BY <1>18 DEF vars, LoadedSoFar, BeforeGroups, InGroup, Gone
  <1> QED
    BY <1>1, <1>2, <1>3, <1>4, <1>5, <1>6, <1>7, <1>8, <1>9, <1>10, <1>11, <1>12, <1>13, <1>14, <1>15, <1>16, <1>17, <1>18 DEF Next

(* Unless a drop failed, two isolated encodings are never in memory at once, *)
(* nor one beside the table's own swept collections.                         *)
THEOREM IsolatedAreAlone == Spec => []OneIsolatedAtATime
  <1>1. Init => LoadedSoFar
    BY DEF Init, InGroup, LoadedSoFar, BeforeGroups, Gone, Present
  <1>2. LoadedSoFar => OneIsolatedAtATime
    <2>1. SUFFICES ASSUME LoadedSoFar, ~dropFailed, NEW c \in Colls, NEW d \in Colls,
                          c \in IsolatedCollections, colls[c] \in Present,
                          d \in IsolatedCollections \cup DroppableAfterSweeps,
                          colls[d] \in Present
                   PROVE  c = d
      BY DEF OneIsolatedAtATime
    <2>2. InGroup /\ c = Encodings[group].coll
      BY <2>1 DEF LoadedSoFar, Gone
    <2>3. d \notin DroppableAfterSweeps
      BY <2>1, <2>2 DEF LoadedSoFar, Gone, InGroup, BeforeGroups
    <2>4. d = Encodings[group].coll
      BY <2>1, <2>2, <2>3 DEF LoadedSoFar, Gone
    <2> QED
      BY <2>2, <2>4
  <1> QED
    BY <1>1, <1>2, TypeInit, TypeStep, LoadedStep, PTL DEF Spec
(* Both at once: what the read-backs and the drops of an arm are for.        *)
THEOREM ReadBacksAndDropsInOrder == Spec => []ArmKeepsOrder
  BY RecordsAreOfTheMeasured, IsolatedAreAlone, PTL DEF ArmKeepsOrder
=============================================================================
