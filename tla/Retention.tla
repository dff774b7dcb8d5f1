------------------------------ MODULE Retention ------------------------------
(* Which of bench/results/'s label directories fullrun.py removes: none a    *)
(* document cites, none somebody wrote in, none touched lately, none of the  *)
(* run doing the pruning; and a measurement is kept or removed whole.        *)
EXTENDS Naturals

CONSTANTS
    Stems,            \* what is left of a label without its arm and pass
    MaxPass,          \* bound: -repN passes
    MaxDay,           \* bound: days
    MaxEdits,         \* bound: notes written, documents edited
    RetainDays        \* RETAIN_DAYS

(* sm-<stem>, qd-<stem> and their -repN; pass 0 is the fold or the only one. *)
Directory == [arm : {"sm", "qd"}, stem : Stems, pass : 0..MaxPass]

VARIABLES
    day,
    present,          \* the directories there are
    touched,          \* directory -> the day of its newest file
    noted,            \* those holding a *.md or a report page
    cited,            \* labels README.md, docs/ or a page's filename names
    running,          \* the labels of the run under way
    edits,
    torn              \* ghost: a measurement was removed in part, or was worth keeping

tvars == <<day, present, touched, noted, cited, running, edits, torn>>

RetentionInit ==
    /\ day = 0 /\ present = {} /\ touched = [d \in Directory |-> 0]
    /\ noted = {} /\ cited = {} /\ running = {} /\ edits = 0 /\ torn = FALSE

NextDay ==
    /\ day < MaxDay /\ day' = day + 1
    /\ UNCHANGED <<present, touched, noted, cited, running, edits, torn>>

(* A run names its labels, of one arm with --only, and writes them pass by   *)
(* pass, the fold last; a stem may be used again.                            *)
StartRun ==
    /\ running = {}
    /\ \E s \in Stems, arms \in {{"sm"}, {"sm", "qd"}}, last \in 0..MaxPass :
          running' = {d \in Directory : d.stem = s /\ d.arm \in arms /\ d.pass <= last}
    /\ UNCHANGED <<day, present, touched, noted, cited, edits, torn>>

WriteLabel ==
    /\ \E k \in {d.pass : d \in running} :
          LET these == {d \in running : d.pass = k}
          IN  /\ k = 0 => {d \in running : d.pass > 0} \subseteq present
              /\ present' = present \cup these
              /\ touched' = [d \in Directory |-> IF d \in these THEN day ELSE touched[d]]
    /\ UNCHANGED <<day, noted, cited, running, edits, torn>>

Edit == edits < MaxEdits /\ edits' = edits + 1

Note ==
    /\ Edit
    /\ \E d \in present : noted' = noted \cup {d} /\ touched' = [touched EXCEPT ![d] = day]
    /\ UNCHANGED <<day, present, cited, running, torn>>

(* A document comes to name a label that is there, or stops naming it.       *)
Cite ==
    /\ Edit
    /\ \E d \in present : cited' = IF d \in cited THEN cited \ {d} ELSE cited \cup {d}
    /\ UNCHANGED <<day, present, touched, noted, running, torn>>

-----------------------------------------------------------------------------
(* cited_labels: an engine pair is one measurement.                          *)
OtherArm(d, e) == d.stem = e.stem /\ d.pass = e.pass
CitedLabels == {d \in present : \E c \in cited \cap present : OtherArm(c, d)}

Retained(d, keep) ==
    \/ d \in keep \cup CitedLabels
    \/ d \in noted
    \/ touched[d] + RetainDays > day

\* Mutant: a pass is pruned apart from its fold.
LabelOfPass(d) == <<d.stem, d.pass>>

LabelStem(d) == d.stem

Prunable(keep) ==
    {d \in present : ~\E e \in present : LabelStem(e) = LabelStem(d) /\ Retained(e, keep)}

(* The promise, said of a directory without the code's own tests.            *)
Worth(e) == e \in noted \cup cited \cup running \/ touched[e] + RetainDays > day

(* The end of a run.                                                         *)
EndRun ==
    /\ running # {}
    /\ LET dead == Prunable(running)
       IN  /\ present' = present \ dead
           /\ noted' = noted \ dead
           /\ torn' = (torn \/ \E d \in dead, e \in present :
                          d.stem = e.stem /\ (e \notin dead \/ Worth(e)))
    /\ running' = {}
    /\ UNCHANGED <<day, touched, cited, edits>>

(* A run that died prunes nothing.                                           *)
Die ==
    /\ running # {} /\ running' = {}
    /\ UNCHANGED <<day, present, touched, noted, cited, edits, torn>>

RetentionNext == NextDay \/ StartRun \/ WriteLabel \/ Note \/ Cite \/ EndRun \/ Die

-----------------------------------------------------------------------------
RetentionTypeOK ==
    /\ day \in 0..MaxDay /\ present \subseteq Directory
    /\ touched \in [Directory -> 0..MaxDay] /\ running \subseteq Directory
    /\ noted \subseteq present

(* A measurement leaves whole or not at all, and none that was cited on      *)
(* either arm, written in, or touched in RETAIN_DAYS on any of its passes:   *)
(* the fold, its -repN passes and the other engine's arm stand together,     *)
(* whoever runs under whatever name meanwhile.                               *)
PruneKeeps == ~torn
=============================================================================
