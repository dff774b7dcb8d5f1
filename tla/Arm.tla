--------------------------------- MODULE Arm ---------------------------------
(* One arm of a run (bench/harness/fullrun.py, measure): every row of the    *)
(* table, the recall sweeps, the read-backs and the drops, in the order the  *)
(* collections' lifetimes ask for.  Any tool it spawns may refuse or fail;   *)
(* measure goes on and adds to its status.                                   *)
EXTENDS Plan

VARIABLES
    at,          \* the phase measure is in
    group,       \* the isolated encoding being measured
    colls,       \* the engine's collections
    rowSaw,      \* what each row found in the collection it searches
    sweepSaw,    \* what each recall sweep found
    record,      \* collections.json: each collection's own record
    later,       \* and the second look nested in it
    captureFailed, \* a read-back failed: the file stays as it was
    dropFailed,  \* a drop failed: its memory stays held
    status       \* measure's return code

vars == <<at, group, colls, rowSaw, sweepSaw, record, later, captureFailed,
          dropFailed, status>>

Colls == UploadCollections \cup SweptNames
CollStates == {"none", "partial", "loaded", "grown", "dropped"}
Present == {"partial", "loaded", "grown"}

Phases == {"first", "captureEarly", "dropEarly", "rest", "captureDead",
           "dropDead", "sweep", "captureSwept", "dropSwept", "group",
           "groupSweep", "groupCapture", "groupDrop", "captureSurvivors",
           "mutating", "recapture", "done"}

Init ==
    /\ at = "first"
    /\ group = 0
    /\ colls = [c \in Colls |-> "none"]
    /\ rowSaw = [i \in Rows |-> "unrun"]
    /\ sweepSaw = [c \in Colls |-> "unrun"]
    /\ record = [c \in Colls |-> "never"]
    /\ later = [c \in Colls |-> "never"]
    /\ captureFailed = FALSE
    /\ dropFailed = FALSE
    /\ status = 0

-----------------------------------------------------------------------------
(* A collection after the rows of ran before row i: as the last upload left  *)
(* it, a failed one in part, and grown if a background writer wrote since.   *)
StateAt(c, i, ran, failed, wrote) ==
    LET before == {j \in ran : j < i /\ CollOf(j) = c}
        uploads == before \cap Uploads
        last == CHOOSE j \in uploads : \A k \in uploads : k <= j
        loaded == IF uploads = {} THEN colls[c]
                  ELSE IF last \in failed THEN "partial" ELSE "loaded"
        since == {j \in before \cap wrote : \A k \in uploads : k < j}
    IN  IF since # {} /\ loaded \in Present THEN "grown" ELSE loaded

(* One workloads.py invocation over the rows S.  The host gate or the load   *)
(* generator's pin may refuse all of it, and it may die before any of its    *)
(* rows; an upload may fail; a background writer may have written or not.    *)
RunWorkloads(S) ==
    \E ran \in {{i \in S : i < upTo} : upTo \in 1..(Len(Table) + 1)} :
    \E failed \in SUBSET (Uploads \cap ran), wrote \in SUBSET (MutatingRows \cap ran) :
        /\ rowSaw' = [i \in Rows |-> IF i \in ran
                        THEN StateAt(CollOf(i), i, ran, failed, wrote)
                        ELSE rowSaw[i]]
        /\ colls' = [c \in Colls |->
                        StateAt(c, Len(Table) + 1, ran, failed, wrote)]
        /\ status' = IF ran # S \/ failed # {} THEN 1 ELSE status
        /\ UNCHANGED <<sweepSaw, record, later, captureFailed, dropFailed>>

\* Mutant: a collection that is not there is recorded as what it is.
CaptureUnseen(names) ==
    /\ \/ /\ record' = [c \in Colls |-> IF c \in Asked(names) THEN colls[c] ELSE record[c]]
          /\ UNCHANGED captureFailed
       \/ captureFailed' = TRUE /\ UNCHANGED record
    /\ UNCHANGED <<colls, rowSaw, sweepSaw, later, dropFailed, status>>

(* capture_collections: a collection the engine does not hold is left as the *)
(* file has it, and a failed tool leaves the whole file.                     *)
Capture(names) ==
    /\ \/ /\ record' = [c \in Colls |-> IF c \in Asked(names) /\ colls[c] \in Present
                                           THEN colls[c] ELSE record[c]]
          /\ UNCHANGED captureFailed
       \/ /\ captureFailed' = TRUE
          /\ UNCHANGED record
    /\ UNCHANGED <<colls, rowSaw, sweepSaw, later, dropFailed, status>>

(* With a key to nest under, a collection without a record yet gets the look *)
(* as its own record too.                                                    *)
Recapture(names) ==
    /\ \/ /\ later' = [c \in Colls |-> IF c \in Asked(names) /\ colls[c] \in Present
                                          THEN colls[c] ELSE later[c]]
          /\ record' = [c \in Colls |-> IF /\ c \in Asked(names) /\ colls[c] \in Present
                                            /\ record[c] = "never"
                                         THEN colls[c] ELSE record[c]]
          /\ UNCHANGED captureFailed
       \/ /\ captureFailed' = TRUE
          /\ UNCHANGED <<record, later>>
    /\ UNCHANGED <<colls, rowSaw, sweepSaw, dropFailed, status>>

(* drop_collections: one by one, and any may stay.  It never fails the run.  *)
Drop(names) ==
    /\ \E gone \in SUBSET names :
          /\ colls' = [c \in Colls |-> IF c \in gone /\ colls[c] \in Present
                                          THEN "dropped" ELSE colls[c]]
          /\ dropFailed' = (dropFailed \/ gone # names)
    /\ UNCHANGED <<rowSaw, sweepSaw, record, later, captureFailed, status>>

(* run_recall: a sweep of a collection that is not as it was uploaded is     *)
(* refused (recall.py), and the arm's status says so.                        *)
Sweep(names) ==
    /\ sweepSaw' = [c \in Colls |-> IF c \in names THEN colls[c] ELSE sweepSaw[c]]
    /\ \E st \in {0, 1} :
          /\ (\E c \in names : c \in Colls /\ colls[c] # "loaded") => st = 1
          /\ status' = IF st = 1 THEN 1 ELSE status
    /\ UNCHANGED <<colls, rowSaw, record, later, captureFailed, dropFailed>>

Idle == UNCHANGED <<colls, rowSaw, sweepSaw, record, later, captureFailed,
                    dropFailed, status>>
Goto(from, to) == at = from /\ at' = to /\ UNCHANGED group

-----------------------------------------------------------------------------
MeasureFirst == Goto("first", IF Early # {} THEN "captureEarly" ELSE "rest")
                /\ RunWorkloads(FirstRows)
CaptureEarly == Goto("captureEarly", "dropEarly") /\ Capture(Early)
DropEarly    == Goto("dropEarly", "rest") /\ Drop(Early)
MeasureRest  ==
    /\ Goto("rest", "captureDead")
    /\ IF RestRows # {} THEN RunWorkloads(RestRows)
       ELSE Idle
CaptureDead  == Goto("captureDead", "dropDead") /\ Capture(Dead)
DropDead     == Goto("dropDead", "sweep") /\ Drop(Dead)
SweepAll     == Goto("sweep", "captureSwept") /\ Sweep(DefaultSweep)
CaptureSwept == Goto("captureSwept", "dropSwept") /\ Capture(DroppableAfterSweeps)
DropSwept    == Goto("dropSwept", "group") /\ Drop(DroppableAfterSweeps)

\* Mutant: an isolated encoding is dropped without a read-back.
SweepThenDrop == Goto("groupSweep", "groupDrop") /\ Sweep({Encodings[group].coll})

(* The isolated encodings, one at a time.                                    *)
NextGroup == {g \in Groups : g > group /\ \A h \in Groups : h > group => g <= h}

MeasureGroup ==
    \E g \in NextGroup :
        /\ at = "group" /\ at' = "groupSweep" /\ group' = g
        /\ RunWorkloads(GroupRows(g))
SweepGroup   == Goto("groupSweep", "groupCapture") /\ Sweep({Encodings[group].coll})
CaptureGroup == Goto("groupCapture", "groupDrop") /\ Capture({Encodings[group].coll})
DropGroup    == Goto("groupDrop", "group") /\ Drop({Encodings[group].coll})
GroupsDone   ==
    /\ NextGroup = {}
    /\ Goto("group", "captureSurvivors")
    /\ Idle

CaptureSurvivors ==
    /\ Goto("captureSurvivors", IF MutatingRows # {} THEN "mutating" ELSE "done")
    /\ Capture(Survivors)
MeasureMutating  == Goto("mutating", "recapture") /\ RunWorkloads(MutatingRows)
RecaptureSurvivors == Goto("recapture", "done") /\ Recapture(Survivors)

Next ==
    \/ MeasureFirst \/ CaptureEarly \/ DropEarly \/ MeasureRest
    \/ CaptureDead \/ DropDead \/ SweepAll \/ CaptureSwept \/ DropSwept
    \/ MeasureGroup \/ SweepGroup \/ CaptureGroup \/ DropGroup \/ GroupsDone
    \/ CaptureSurvivors \/ MeasureMutating \/ RecaptureSurvivors

Spec == Init /\ [][Next]_vars

-----------------------------------------------------------------------------
TypeOK ==
    /\ at \in Phases
    /\ group \in Nat
    /\ colls \in [Colls -> CollStates]
    /\ rowSaw \in [Rows -> CollStates \cup {"unrun"}]
    /\ sweepSaw \in [Colls -> CollStates \cup {"unrun"}]
    /\ record \in [Colls -> {"never"} \cup Present]
    /\ later \in [Colls -> {"never"} \cup Present]
    /\ captureFailed \in BOOLEAN /\ dropFailed \in BOOLEAN
    /\ status \in {0, 1}

(* No row and no recall sweep of the arm ever searches a collection the arm  *)
(* itself dropped: the drops are computed from the table, and a reader they  *)
(* forgot would measure an absent collection.                                *)
NothingReadAfterDrop ==
    /\ \A i \in Rows : rowSaw[i] # "dropped"
    /\ \A c \in Colls : sweepSaw[c] # "dropped"

(* Only the rows with a writer of their own search a collection that has     *)
(* grown: every other row, and every sweep scored against the ground truth,  *)
(* reads its collection before the first append.                             *)
MeasuredAsUploaded ==
    /\ \A i \in Rows : rowSaw[i] = "grown" => Table[i].background
    /\ \A c \in Colls : sweepSaw[c] # "grown"

(* A collection is read back before it is dropped, and a survivor before it  *)
(* grows: the record describes the collection the rows searched, unless the  *)
(* read-back itself failed.                                                  *)
RecordedAsSearched ==
    ~captureFailed =>
        \A c \in Colls : /\ colls[c] = "dropped" => record[c] \in Present
                         /\ record[c] # "grown"

(* At most one isolated encoding's collection is alive, and none beside the  *)
(* table's own swept collections, unless a drop failed: together they would  *)
(* not fit the host.                                                         *)
OneIsolatedAtATime ==
    ~dropFailed =>
        \A c, d \in Colls :
            /\ c \in IsolatedCollections /\ colls[c] \in Present
            /\ d \in IsolatedCollections \cup DroppableAfterSweeps /\ colls[d] \in Present
            => c = d

(* What an arm's read-backs and drops are for: the record is of what the     *)
(* rows searched, and what a drop was to free is free before the next        *)
(* encoding is loaded.                                                       *)
ArmKeepsOrder == RecordedAsSearched /\ OneIsolatedAtATime
=============================================================================
