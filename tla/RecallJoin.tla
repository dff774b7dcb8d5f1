------------------------------ MODULE RecallJoin -----------------------------
(* bench/harness/recall.py: which sweep may speak for a search row.  A sweep *)
(* is written by the conformance binary, then stamped by the harness, under  *)
(* a name made of what it was asked; a row looks under several names, old    *)
(* ones included, and believes only what the file says of itself.            *)
EXTENDS Naturals, FiniteSets

CONSTANTS
    ParamSets,        \* the quantization parameters the rows send; "none" is one
    Grades,           \* FILTER_GRADES, with "none"
    MaxSweeps         \* bound: sweeps in a behaviour

None == "none"
Default == 10                              \* DEFAULT_LIMIT
Limits == {Default, 100}
Dataset == "sift1m"                        \* of the rows looked at
Datasets == {Dataset, "laion"}             \* the label was, or is, also swept on another
Collections == {"bench2", "bench12"}

(* What was searched: the truth about a row or a sweep.                      *)
Searches == [dataset : Datasets, coll : Collections, params : ParamSets, grade : Grades,
             limit : Limits, acorn : BOOLEAN]
Sane(s) == /\ s.acorn => s.grade # None
           /\ s.grade # None => s.coll = "bench12" /\ s.params = None

VARIABLES
    takesAcorn,       \* the engine reads params.acorn: "unknown" before it is
    acorn,            \* w12_acorn of run.json
    rows,             \* the label's rows: what each searched, and whether it says its acorn
    files,            \* file name -> what it holds
    sweeping,         \* the sweep the binary has written and nobody has stamped
    sweeps

jvars == <<takesAcorn, acorn, rows, files, sweeping, sweeps>>

(* recall_path: the name of a sweep, made of all it was asked but its walk;  *)
(* the oldest form has the collection alone.                                 *)
RecallPath(dataset, coll, limit, params, grade) ==
    [dataset |-> dataset, coll |-> coll, limit |-> limit, params |-> params, grade |-> grade]
LegacyPath(coll) == RecallPath(None, coll, 0, None, None)
PathOf(s) == RecallPath(s.dataset, s.coll, s.limit, s.params, s.grade)

JoinInit ==
    /\ takesAcorn = "unknown" /\ acorn = FALSE
    /\ rows = {} /\ files = {}
    /\ sweeping = {} /\ sweeps = 0

Put(name, doc) == {f \in files : f.name # name} \cup {[name |-> name, doc |-> doc]}

-----------------------------------------------------------------------------
Engine ==
    /\ takesAcorn = "unknown" /\ takesAcorn' \in {"yes", "no"}
    /\ UNCHANGED <<acorn, rows, files, sweeping, sweeps>>

(* The label's rows, of every search at the default width, recorded before   *)
(* rows said their acorn or since; and an invocation after it that took      *)
(* other rows of the label at another setting.  acorn is w12_acorn, a        *)
(* run.json without it standing for "off".                                   *)
Recorded(setting) ==
    {r \in [of : Searches, says : BOOLEAN] :
        /\ Sane(r.of) /\ r.of.dataset = Dataset /\ r.of.limit = Default
        /\ r.of.grade # None => r.of.acorn = setting}
RunRow ==
    /\ takesAcorn # "unknown" /\ rows = {}
    /\ acorn' \in BOOLEAN /\ rows' = Recorded(acorn')
    /\ UNCHANGED <<takesAcorn, files, sweeping, sweeps>>
Restamp ==
    /\ rows # {} /\ acorn' = ~acorn
    /\ UNCHANGED <<takesAcorn, rows, files, sweeping, sweeps>>

(* The binary: it records what it swept but not of which dataset, the        *)
(* parameters it sent since it learnt to, and whether its ground truth and   *)
(* the collection disagree.                                                  *)
BinaryWrites ==
    /\ rows # {} /\ sweeping = {} /\ sweeps < MaxSweeps
    /\ \E s \in Searches, records, clash, other \in BOOLEAN :
          /\ Sane(s) /\ (s.grade # None => s.acorn = acorn)
          /\ LET doc == [of |-> s, old |-> FALSE, dataset |-> "silent",
                         collection |-> IF other THEN "else" ELSE s.coll,
                         own |-> IF records THEN s.params ELSE "silent",
                         stamped |-> "silent", grade |-> None, acorn |-> s.acorn,
                         clash |-> clash]
             IN  /\ files' = Put(PathOf(s), doc)
                 /\ sweeping' = {s}
    /\ sweeps' = sweeps + 1
    /\ UNCHANGED <<takesAcorn, acorn, rows>>

(* stamp: a contradiction moves the file aside.                              *)
Stamped(s, doc) ==
    [doc EXCEPT !.dataset = s.dataset, !.stamped = s.params, !.grade = s.grade]
Contradicts(s, doc) == doc.collection # s.coll \/ doc.clash

Stamp ==
    /\ \E s \in sweeping, f \in files :
          /\ f.name = PathOf(s)
          /\ files' = IF Contradicts(s, f.doc) THEN files \ {f}
                      ELSE Put(f.name, Stamped(s, f.doc))
    /\ sweeping' = {}
    /\ UNCHANGED <<takesAcorn, acorn, rows, sweeps>>

(* The harness dies between the two.                                         *)
DieUnstamped ==
    /\ sweeping # {} /\ sweeping' = {}
    /\ UNCHANGED <<takesAcorn, acorn, rows, files, sweeps>>

(* A file from before the names had these parts, of any width: under its old *)
(* name, another collection's included, or one that was moved here by hand   *)
(* from its newer name.  It need not say of which dataset it is.             *)
Legacy ==
    /\ rows # {} /\ sweeping = {} /\ sweeps < MaxSweeps
    /\ \E s \in Searches, coll \in Collections, says, clash \in BOOLEAN :
          /\ Sane(s)
          /\ LET doc == [of |-> s, old |-> TRUE,
                         dataset |-> IF says THEN s.dataset ELSE "silent",
                         collection |-> s.coll, own |-> "silent",
                         stamped |-> s.params, grade |-> s.grade, acorn |-> s.acorn,
                         clash |-> clash]
             IN  \E name \in {LegacyPath(coll), RecallPath(Dataset, coll, Default, None, None)} :
                    files' = Put(name, doc)
    /\ sweeps' = sweeps + 1
    /\ UNCHANGED <<takesAcorn, acorn, rows, sweeping>>

JoinNext == Engine \/ RunRow \/ Restamp \/ BinaryWrites \/ Stamp \/ DieUnstamped \/ Legacy

-----------------------------------------------------------------------------
(* load_recall_json.                                                         *)
Candidates(r) ==
    LET Path(params, grade) == RecallPath(r.of.dataset, r.of.coll, Default, params, grade)
    IN  IF r.of.grade # None THEN {Path(r.of.params, r.of.grade)}
        ELSE {Path(r.of.params, None), Path(None, None), LegacyPath(r.of.coll)}

(* sweep_quant_params: what the binary sent, and no disagreement; silence    *)
(* on both sides is "none sent".                                             *)
SweepParams(doc) ==
    IF doc.own = "silent"
    THEN IF doc.stamped = "silent" THEN None ELSE doc.stamped
    ELSE IF doc.stamped \in {"silent", doc.own} THEN doc.own ELSE "refused"

(* acorn_matches: the row's own word, or its label's stamp as it is now.     *)
AcornMatches(r, doc) ==
    takesAcorn = "no" \/ doc.acorn = IF r.says THEN r.of.acorn ELSE acorn

\* Mutant: either walk speaks for a filtered row.
SpeaksForEitherWalk(r, doc) ==
    /\ doc.collection = r.of.coll
    /\ doc.dataset \in {"silent", r.of.dataset}
    /\ doc.grade = r.of.grade
    /\ SweepParams(doc) = r.of.params
    /\ ~doc.clash

(* What the file says of itself is what the row searched.  A file that does  *)
(* not say its dataset is taken for the row's, and its width is not asked.   *)
Speaks(r, doc) ==
    /\ doc.collection = r.of.coll
    /\ doc.dataset \in {"silent", r.of.dataset}
    /\ doc.grade = r.of.grade
    /\ r.of.grade # None => AcornMatches(r, doc)
    /\ SweepParams(doc) = r.of.params
    /\ ~doc.clash

Joinable(r) == {f.doc : f \in {g \in files : g.name \in Candidates(r) /\ Speaks(r, g.doc)}}

-----------------------------------------------------------------------------
JoinTypeOK ==
    /\ takesAcorn \in {"unknown", "yes", "no"} /\ acorn \in BOOLEAN
    /\ rows \subseteq [of : Searches, says : BOOLEAN] /\ sweeps \in 0..MaxSweeps
    /\ \A f, g \in files : f.name = g.name => f = g
    /\ \A f \in files : f.doc.of \in Searches

(* No file speaks for a row that searched differently: whichever sweeps ran  *)
(* or were cut off before their stamp, whatever an older harness left under  *)
(* its names, and whatever setting the label was taken at again, the recall  *)
(* a row is joined to is of its collection, its parameters and its filter;   *)
(* of the walk its filter took, if the row says that walk or its label still *)
(* is at that setting; and of its dataset and its width if it is a sweep of  *)
(* this harness.  An older file is held to the dataset it says, if it says   *)
(* one, and to no width.                                                     *)
JoinedSweepIsTheRows ==
    \A r \in rows : \A doc \in Joinable(r) :
        /\ doc.of.coll = r.of.coll /\ doc.of.params = r.of.params
        /\ doc.of.grade = r.of.grade /\ ~doc.clash
        /\ takesAcorn = "yes" /\ (r.says \/ r.of.acorn = acorn) => doc.of.acorn = r.of.acorn
        /\ ~doc.old \/ doc.dataset # "silent" => doc.of.dataset = r.of.dataset
        /\ ~doc.old => doc.of.limit = r.of.limit

(* Why it holds: a file is either a sweep's, under a name made of what was   *)
(* asked and saying nothing else of itself, or an older harness's, which     *)
(* says all of it but the dataset and the width; and the stamp that is still *)
(* to come is of its own sweep.                                              *)
RowsSane == \A r \in rows : /\ r \in [of : Searches, says : BOOLEAN]
                            /\ Sane(r.of) /\ r.of.limit = Default
OfSweep(f) ==
    /\ ~f.doc.old /\ f.name = PathOf(f.doc.of)
    /\ f.doc.own \in {f.doc.of.params, "silent"}
    /\ f.doc.stamped \in {f.doc.of.params, "silent"}
    /\ f.doc.grade \in {f.doc.of.grade, None}
OfOldHarness(f) ==
    /\ f.doc.old /\ f.doc.own = "silent" /\ f.doc.stamped = f.doc.of.params
    /\ f.doc.grade = f.doc.of.grade
Fields == {"of", "old", "dataset", "collection", "own", "stamped", "grade", "acorn", "clash"}
FileTells(f) ==
    /\ DOMAIN f.doc = Fields
    /\ f.doc.of \in Searches /\ Sane(f.doc.of)
    /\ f.doc.acorn = f.doc.of.acorn /\ f.doc.collection \in {f.doc.of.coll, "else"}
    /\ f.doc.dataset \in {f.doc.of.dataset, "silent"}
    /\ OfSweep(f) \/ OfOldHarness(f)
FilesTell == \A f \in files : FileTells(f)
StampsOwn == \A s \in sweeping, f \in files : f.name = PathOf(s) => f.doc.of = s
JoinInv == RowsSane /\ FilesTell /\ StampsOwn
=============================================================================
