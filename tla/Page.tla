-------------------------------- MODULE Page ---------------------------------
(* What report.py and compare.py say of a pair of labels from the files that *)
(* are in them: alternated or one engine after the other, offered one load   *)
(* or two, licensed or not; whatever sessions left those files.              *)
EXTENDS Naturals, FiniteSets, FiniteSetsExt

CONSTANTS
    MaxTimes          \* bound: passes, rows taken again, differ runs

Label == {"sm", "qd"}
RowIds == {"W4", "W4-sat50"}               \* SATURATION_ROW, and one offered half of it
None == 0

VARIABLES
    rows,             \* label -> its rows.json
    reps,             \* label -> run.json's reps: passes folded, 1 for none
    perfSet,          \* label -> run.json's perf_set
    conf,             \* label -> conformance.json, as a set of at most one
    clock

pagevars == <<rows, reps, perfSet, conf, clock>>

PageInit ==
    /\ rows = [l \in Label |-> {}] /\ reps = [l \in Label |-> None]
    /\ perfSet = [l \in Label |-> FALSE] /\ conf = [l \in Label |-> {}] /\ clock = 0

(* resolve_rps_reference: the slower label's last saturation, if both have   *)
(* one and both run.json say this run's instrument.                          *)
Saturations(perf) == {r \in UNION {rows[l] : l \in {m \in Label : perfSet[m] = perf}} : r.id = "W4"}
Reference(perf) ==
    LET seen == Saturations(perf)
    IN  IF Cardinality({r.of : r \in seen}) < Cardinality(Label) THEN None
        ELSE Min({r.qps : r \in seen})

(* A pass's rows, or the fold's: stamped with the first pass's time.  made,  *)
(* session and refPerf are what the files do not say.                        *)
PassRows(l, made, qps, perf, ref, session) ==
    {[id |-> id, of |-> l, when |-> Min(made), made |-> made, qps |-> qps, perf |-> perf,
      session |-> session,
      source |-> IF id = "W4" THEN "closed" ELSE IF ref = None THEN "own" ELSE "pinned",
      rate |-> IF id = "W4" THEN None ELSE IF ref = None THEN qps ELSE ref,
      refPerf |-> IF ref = None THEN {} ELSE {r.perf : r \in Saturations(perf)}] : id \in RowIds}

(* A fullrun: n passes, of both arms in turn or of one of them.              *)
FullRun ==
    \E n \in 1..2, ls \in (SUBSET Label) \ {{}}, perf \in BOOLEAN, sat \in [Label -> {4, 6}] :
        LET ref == Reference(perf)
            At(l) == {clock + (k - 1) * Cardinality(ls)
                        + (IF l = "qd" /\ ls = Label THEN 2 ELSE 1) : k \in 1..n}
        IN  /\ clock + n * Cardinality(ls) <= MaxTimes
            /\ clock' = clock + n * Cardinality(ls)
            /\ rows' = [l \in Label |-> IF l \in ls THEN PassRows(l, At(l), sat[l], perf, ref, clock')
                                        ELSE rows[l]]
            /\ reps' = [l \in Label |-> IF l \in ls THEN n ELSE reps[l]]
            /\ perfSet' = [l \in Label |-> IF l \in ls THEN perf ELSE perfSet[l]]
            /\ UNCHANGED conf

(* workloads.py run ... --only: the row over the label's own, run.json       *)
(* rewritten; under the label's own instrument here.                         *)
Retake(l) ==
    /\ rows[l] # {} /\ clock < MaxTimes /\ clock' = clock + 1
    /\ \E id \in RowIds, qps \in {4, 6} :
          LET sat == IF id = "W4" THEN qps ELSE (CHOOSE r \in rows[l] : r.id = "W4").qps
              new == {r \in PassRows(l, {clock'}, sat, perfSet[l], None, clock') : r.id = id}
          IN  rows' = [rows EXCEPT ![l] = {r \in @ : r.id # id} \cup new]
    /\ reps' = [reps EXCEPT ![l] = 1]
    /\ UNCHANGED <<perfSet, conf>>

(* A differ run licenses the labels it is given, which may be another pair's *)
(* with one of these.                                                        *)
Differ ==
    /\ clock < MaxTimes /\ clock' = clock + 1
    /\ \E ls \in (SUBSET Label) \ {{}}, t3 \in BOOLEAN, scores \in BOOLEAN :
          /\ t3 => scores
          /\ conf' = [l \in Label |-> IF l \in ls THEN {[hash |-> clock', t3 |-> t3, scores |-> scores]}
                                      ELSE conf[l]]
    /\ UNCHANGED <<rows, reps, perfSet>>

PageNext == FullRun \/ Differ \/ \E l \in Label : Retake(l)

-----------------------------------------------------------------------------
(* interleaving: folds by what they say, single runs by their stamps.        *)
Blocks(points) ==
    1 + Cardinality({p \in points : \E q \in points :
            /\ p.t < q.t /\ p.l # q.l
            /\ ~\E r \in points : p.t < r.t /\ r.t < q.t})
Stamped == UNION {{[t |-> r.when, l |-> l] : r \in rows[l]} : l \in Label}
\* Mutant: one folded arm is enough to be called alternated.
InterleavedIfFolded ==
    IF \E l \in Label : reps[l] > 1 THEN "alternated"
    ELSE IF Blocks(Stamped) <= 2 THEN "sequential" ELSE "alternated"

Interleaving ==
    IF \A l \in Label : reps[l] > 1 THEN "alternated"
    ELSE IF Blocks(Stamped) <= 2 THEN "sequential" ELSE "alternated"

(* open_loop_mismatch.                                                       *)
OpenLoop == {r \in UNION {rows[l] : l \in Label} : r.source # "closed"}
OpenLoopMismatch ==
    /\ {r.source : r \in OpenLoop} # {"pinned"}
    /\ Cardinality({r.rate : r \in OpenLoop}) > 1

(* compare.licence, and the card report.licence_of draws under its banner.   *)
Carried == UNION {conf[l] : l \in Label}
Mismatched == \A l \in Label : conf[l] # {} /\ conf["sm"] # conf["qd"]
LicenceRow == IF conf["sm"] # {} THEN conf["sm"] ELSE conf["qd"]
Comparative == ~Mismatched /\ \E c \in LicenceRow : c.t3
ScoresAgree == ~Mismatched /\ \E c \in LicenceRow : c.scores
CardComparative == Cardinality({c.hash : c \in Carried}) = 1 /\ \E c \in Carried : c.t3

(* matched_recall_refusal and matched_recall_caveat, on the licence.         *)
MatchedRecallShown == Comparative \/ ScoresAgree
MatchedRecallCaveat == ~Comparative /\ ScoresAgree

-----------------------------------------------------------------------------
PageTypeOK ==
    /\ clock \in 0..MaxTimes
    /\ \A l \in Label : Cardinality(rows[l]) \in {0, 2} /\ Cardinality(conf[l]) <= 1

MadeAt == UNION {UNION {{[t |-> t, l |-> l] : t \in r.made} : r \in rows[l]} : l \in Label}
Sessions == {r.session : r \in UNION {rows[l] : l \in Label}}

(* Both arms pinned, but by two sessions: to what each found as a reference. *)
PinnedApart ==
    /\ {r.source : r \in OpenLoop} = {"pinned"}
    /\ Cardinality({r.session : r \in OpenLoop}) > 1

(* A page calls two arms alternated only if their passes were, when folds of *)
(* both are of one session; two columns of one row with no sentence above    *)
(* them were offered one load, unless two sessions pinned them apart, and a  *)
(* pinned load was read off this run's own instrument; and the licence card  *)
(* says what the banner over it says, with no matched-recall ratio shown     *)
(* unlicensed without a caveat, or on engines whose scores differ.           *)
PageSaysWhatWasMeasured ==
    (\A l \in Label : rows[l] # {}) =>
        /\ Interleaving = "alternated" /\ ((\A l \in Label : reps[l] > 1) => Cardinality(Sessions) = 1)
              => Blocks(MadeAt) > 2
        /\ ~OpenLoopMismatch /\ ~PinnedApart => Cardinality({r.rate : r \in OpenLoop}) = 1
        /\ \A r \in OpenLoop : r.source = "pinned" => r.refPerf = {r.perf}
        /\ CardComparative = Comparative
        /\ MatchedRecallShown => /\ CardComparative \/ MatchedRecallCaveat
                                 /\ Cardinality({c.hash : c \in Carried}) = 1
                                 /\ \A c \in Carried : c.scores

(* Why it holds: what was made of one label was made at other times than what *)
(* was made of the other; a session pins its rows to one load of its own      *)
(* instrument; two arms of one session with several passes took turns; and a  *)
(* licence of one hash is one licence.                                        *)
TimesHeld ==
    /\ clock \in Nat /\ DOMAIN rows = Label /\ DOMAIN reps = Label
    /\ \A l \in Label : \A r \in rows[l] :
          r.of = l /\ r.made \subseteq 1..clock /\ r.when \in r.made /\ r.session \in 1..clock
    /\ \A r \in rows["sm"], s \in rows["qd"] : r.made \cap s.made = {}
LoadsHeld ==
    /\ \A l \in Label : \A r \in rows[l] :
          /\ (r.source = "closed" <=> r.id = "W4") /\ r.perf = perfSet[l]
          /\ r.qps \in {4, 6} /\ r.rate \in {None, 4, 6}
          /\ r.source = "pinned" => r.refPerf = {r.perf}
    /\ \A l \in Label : rows[l] # {} => \A id \in RowIds : \E r \in rows[l] : r.id = id
    /\ \A r, s \in OpenLoop :
          r.source = "pinned" /\ s.source = "pinned" /\ r.session = s.session => r.rate = s.rate
TurnsHeld ==
    \A r \in rows["sm"], s \in rows["qd"] : reps["sm"] > 1 /\ r.session = s.session =>
        \E t, v \in r.made, u \in s.made : t < u /\ u < v
LicencesHeld ==
    /\ \A l \in Label : \A c \in conf[l] :
          conf[l] = {c} /\ c.hash \in 1..clock /\ (c.t3 => c.scores)
    /\ \A c \in conf["sm"], d \in conf["qd"] : c.hash = d.hash => c = d
PageInv == TimesHeld /\ LoadsHeld /\ TurnsHeld /\ LicencesHeld
=============================================================================
