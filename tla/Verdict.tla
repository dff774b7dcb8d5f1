------------------------------- MODULE Verdict -------------------------------
(* bench/harness/compare.py: what one row of a comparison may say.  A row of *)
(* each arm is joined with what its label's files record, and the first of   *)
(* the refusals that applies is the row's answer.                            *)
EXTENDS Integers, Sequences, FiniteSets, FiniteSetsExt

CONSTANTS
    MaxOddities, \* bound: how many things differ from a healthy pair
    Band,        \* the noise floor's half width, in percent; 0 without one
    RecallTol,   \* RECALL_TOL and RECALL_FLOOR, in percent
    RecallFloor

VARIABLES
    kind,        \* what the table says of the row
    arm,         \* the two arms' rows
    label,       \* the two labels' files
    oddities

vvars == <<kind, arm, label, oddities>>

Pair == {1, 2}

(* A healthy search row of a healthy label.                                  *)
HealthyRow == [status |-> "ok", qps |-> 100, foreign |-> FALSE, index |-> "built",
               served |-> "yes", basis |-> "whole", hash |-> "h1", lowOverlap |-> FALSE,
               recall |-> 97, drift |-> FALSE, outlier |-> FALSE]
HealthyLabel == [stamp |-> "h1", dataset |-> "d1", builds |-> {<<"c1", "b1">>},
                 orphaned |-> FALSE, conf |-> "r1"]

Kinds0 == [openLoop : BOOLEAN, needsIndex : BOOLEAN, policy : BOOLEAN,
           recallRequired : BOOLEAN]

RowOddities ==
    [status : {"na", "failed", "no_output"}] \cup [foreign : {TRUE}]
    \cup [qps : {91, 110}] \cup [index : {"suppressed", "unread", "none"}]
    \cup [served : {"short", "queued"}] \cup [basis : {"window"}]
    \cup [hash : {"h2", "none"}] \cup [lowOverlap : {TRUE}]
    \cup [recall : {-1, 10, 96, 90}] \cup [drift : {TRUE}] \cup [outlier : {TRUE}]
LabelOddities ==
    [stamp : {"h2", "none"}] \cup [dataset : {"d2"}]
    \cup [builds : {{<<"c1", "b1">>, <<"c2", "b1">>}, {<<"c1", "b1">>, <<"c2", "b2">>}}]
    \cup [orphaned : {TRUE}] \cup [conf : {"none", "r2"}]

Changed(r, o) == [k \in DOMAIN r |-> IF k \in DOMAIN o THEN o[k] ELSE r[k]]

VerdictInit ==
    /\ kind = [openLoop |-> FALSE, needsIndex |-> FALSE, policy |-> FALSE,
               recallRequired |-> TRUE]
    /\ arm = [a \in Pair |-> HealthyRow]
    /\ label = [a \in Pair |-> HealthyLabel]
    /\ oddities = 0

ChooseKind == oddities = 0 /\ kind' \in Kinds0 /\ UNCHANGED <<arm, label, oddities>>
OddRow ==
    /\ oddities < MaxOddities /\ oddities' = oddities + 1
    /\ \E a \in Pair, o \in RowOddities : arm' = [arm EXCEPT ![a] = Changed(arm[a], o)]
    /\ UNCHANGED <<kind, label>>
OddLabel ==
    /\ oddities < MaxOddities /\ oddities' = oddities + 1
    /\ \E a \in Pair, o \in LabelOddities : label' = [label EXCEPT ![a] = Changed(label[a], o)]
    /\ UNCHANGED <<kind, arm>>

VerdictNext == ChooseKind \/ OddRow \/ OddLabel

-----------------------------------------------------------------------------
(* mixed_build_reasons: more than one build served the label's rows; commits *)
(* of one binary are one build.                                              *)
Commits(b) == {x[1] : x \in b}
Binaries(b) == {x[2] : x \in b}
MixedBuild(b) == Cardinality(b) > 1 /\ Cardinality(Binaries(b)) > 1
CommitDrift(b) == Cardinality(Commits(b)) > 1 /\ ~MixedBuild(b)

\* Mutant: only the first arm is looked at for a mixed build and orphans.
StaleFirst(l) ==
    \/ \E a \in Pair : l[a].stamp = "none"
    \/ l[1].stamp # l[2].stamp
    \/ l[1].dataset # l[2].dataset
    \/ MixedBuild(l[1].builds) \/ l[1].orphaned

(* stale_reasons: a missing stamp is a reason, not a pass.                   *)
Stale(l) ==
    \/ \E a \in Pair : l[a].stamp = "none"
    \/ l[1].stamp # l[2].stamp
    \/ l[1].dataset # l[2].dataset
    \/ \E a \in Pair : MixedBuild(l[a].builds) \/ l[a].orphaned

(* licence: one conformance row for the pair.                                *)
Licensed(l) ==
    /\ \E a \in Pair : l[a].conf # "none"
    /\ Cardinality({l[a].conf : a \in Pair} \ {"none"}) = 1

Qps(r) == IF r.status = "ok" THEN r.qps ELSE 0

(* _unindexed_filter: a row the engine declined has nothing to disqualify.   *)
Unindexed(k, r) ==
    k.needsIndex /\ \E a \in Pair : r[a].status = "ok" /\ r[a].index # "built"

(* _rows_stamped: the stamp of the row's own run, and the other arm's.       *)
RowsStamped(l, r) ==
    /\ \A a \in Pair : r[a].hash # "none" /\ r[a].hash = l[a].stamp
    /\ r[1].hash = r[2].hash

Abs(x) == IF x < 0 THEN -x ELSE x
RecallMissing(r) == \E a \in Pair : r[a].recall = -1
RecallUseless(r) == \A a \in Pair : r[a].recall < RecallFloor
RecallUnequal(r) == Abs(r[1].recall - r[2].recall) > RecallTol

(* The answers of _ratio in the order it asks; refuses says whether the row  *)
(* is also kept out of every other figure made from it.                      *)
Answer(cell, why, refuses, when) ==
    [cell |-> cell, why |-> why, refuses |-> refuses, when |-> when]

Answers(k, l, r) == <<
    Answer("-", "stale", TRUE, Stale(l)),
    Answer("-", "contaminated", TRUE, \E a \in Pair : r[a].foreign),
    Answer("-", "unindexed", TRUE, Unindexed(k, r)),
    Answer("saturated", "open loop", FALSE,
           k.openLoop /\ \E a \in Pair : r[a].status = "ok" /\ r[a].served = "queued"),
    Answer("short of offer", "open loop", FALSE,
           k.openLoop /\ \E a \in Pair : r[a].status = "ok" /\ r[a].served = "short"),
    Answer("offered", "open loop", FALSE, k.openLoop),
    Answer("-", "unmeasured", FALSE, \E a \in Pair : Qps(r[a]) = 0),
    Answer("-", "basis", TRUE, r[1].basis # r[2].basis),
    Answer("-", "policy", TRUE, k.policy),
    Answer("-", "unstamped", TRUE, ~RowsStamped(l, r)),
    Answer("-", "overlap", TRUE, \E a \in Pair : r[a].lowOverlap),
    Answer("-", "no recall", FALSE, k.recallRequired /\ RecallMissing(r)),
    Answer("-", "useless recall", TRUE, k.recallRequired /\ RecallUseless(r)),
    Answer("-", "unequal recall", FALSE, k.recallRequired /\ RecallUnequal(r)),
    Answer("-", "drift", TRUE, \E a \in Pair : r[a].drift),
    Answer("-", "outlier", TRUE, \E a \in Pair : r[a].outlier),
    Answer("parity", "number", FALSE,
           Band > 0 /\ 100 * Abs(Qps(r[1]) - Qps(r[2])) <= Band * Qps(r[2])),
    Answer("ratio", "number", FALSE, TRUE) >>

RowAnswer(k, l, r) ==
    LET all == Answers(k, l, r)
    IN  all[Min({i \in DOMAIN all : all[i].when})]

-----------------------------------------------------------------------------
VerdictTypeOK ==
    /\ kind \in Kinds0
    /\ oddities \in 0..MaxOddities
    /\ \A a \in Pair : DOMAIN arm[a] = DOMAIN HealthyRow

Swapped(f) == [a \in Pair |-> f[3 - a]]

(* Which arm is named first decides only whether a difference is within the  *)
(* band, never whether there may be a number: what refuses a row of one      *)
(* engine refuses it of the other.  And a row that is not refused, whatever  *)
(* its cell says, is of one harness and of a quiet host, as every figure     *)
(* made from it assumes; with a number it is of engines equal in recall      *)
(* where recall is defined.                                                  *)
RefusalsAreFair ==
    LET got == RowAnswer(kind, label, arm)
    IN  /\ RowAnswer(kind, Swapped(label), Swapped(arm)).why = got.why
        /\ ~got.refuses =>
              /\ \A a \in Pair : ~arm[a].foreign /\ ~label[a].orphaned
              /\ label[1].stamp = label[2].stamp /\ label[1].stamp # "none"
              /\ Cardinality(Binaries(label[1].builds)) = 1
        /\ got.why = "number" =>
              /\ \A a \in Pair : arm[a].status = "ok"
              /\ kind.recallRequired => ~RecallUnequal(arm) /\ ~RecallMissing(arm)
              /\ kind.needsIndex => \A a \in Pair : arm[a].index = "built"

(* Why it holds: a label always has a build, whatever its rows were taken of, *)
(* and a recall is a number, whatever is odd about it.                       *)
BuildsNamed ==
    /\ DOMAIN label = Pair
    /\ \A a \in Pair : /\ DOMAIN label[a] = DOMAIN HealthyLabel
                       /\ label[a].builds # {} /\ IsFiniteSet(label[a].builds)
RecallsRead ==
    /\ DOMAIN arm = Pair
    /\ \A a \in Pair : DOMAIN arm[a] = DOMAIN HealthyRow /\ arm[a].recall \in Int
VerdictInv == BuildsNamed /\ RecallsRead
=============================================================================
