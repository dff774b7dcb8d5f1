-------------------------------- MODULE Gate ---------------------------------
(* scripts/check.py: the gate a tree passes before it is pushed, step by     *)
(* step, while its sources go on being edited.  A defect stands for all that *)
(* one step looks for.                                                       *)
EXTENDS Naturals, Sequences, FiniteSets

CONSTANTS
    MaxEdits          \* bound: edits of the tree, the tools and the workflow

(* steps(), those that differ in how they can be fooled.                     *)
Steps == <<"zlint", "zlint-not-vacuous", "ruff", "zig-build", "kernel-align",
           "harness-unit", "regression-null", "report-tooling", "ci-covers-gate">>
Labels == {Steps[i] : i \in DOMAIN Steps}
Defects == {"unused", "style", "compile", "inlined", "test", "verdict", "template"}

VARIABLES
    tree,             \* the defects in the sources
    canary,           \* the deliberate unused decl is in src/dist/common.zig
    silent,           \* a zlint.json or a zlint under which unused-decls says nothing
    uv,               \* uv is installed
    triggers, ciOnly, \* the workflow: its events; the steps its commands name
    binary,           \* zig-out/bin/strawmann: its defects, as a set of at most one set
    todo, failed,     \* a run: the steps left; whether one failed
    only,             \* --only
    canaryRead,       \* common.zig as the canary step read it, while it runs
    throughout,       \* ghost: the defects that were there at every moment of the run
    code, edits

gatevars == <<tree, canary, silent, uv, triggers, ciOnly, binary, todo, failed,
              only, canaryRead, throughout, code, edits>>
Outside == <<tree, canary, silent, uv, triggers, ciOnly, binary>>

GateInit ==
    /\ tree = {} /\ canary = FALSE /\ silent = FALSE /\ uv = TRUE
    /\ triggers = {"push", "workflow_dispatch"} /\ ciOnly = Labels
    /\ binary = {} /\ todo = <<>> /\ failed = FALSE /\ only = FALSE
    /\ canaryRead = {} /\ throughout = {} /\ code = "none" /\ edits = 0

(* A verdict is of the tree as it was.                                       *)
Outdate == code' = IF todo = <<>> /\ code # "running" THEN "none" ELSE code

EditTree ==
    /\ edits < MaxEdits /\ edits' = edits + 1
    /\ \/ \E d \in Defects : tree' = IF d \in tree THEN tree \ {d} ELSE tree \cup {d}
       \/ canaryRead = {} /\ canary /\ UNCHANGED tree          \* somebody takes it out
    /\ canary' = (canary /\ (tree' # tree))
    /\ throughout' = throughout \cap tree' /\ Outdate
    /\ UNCHANGED <<silent, uv, triggers, ciOnly, binary, todo, failed, only, canaryRead>>

EditTools ==
    /\ todo = <<>> /\ code # "running" /\ edits < MaxEdits /\ edits' = edits + 1
    /\ \/ silent' = ~silent /\ UNCHANGED <<uv, triggers, ciOnly>>
       \/ uv' = ~uv /\ UNCHANGED <<silent, triggers, ciOnly>>
       \/ triggers' \in {{"schedule", "workflow_dispatch"}, {"workflow_dispatch"}}
          /\ UNCHANGED <<silent, uv, ciOnly>>
       \/ \E l \in {"kernel-align", "ci-covers-gate"} : ciOnly' = ciOnly \ {l} /\ UNCHANGED <<silent, uv, triggers>>
       \/ ciOnly' = ciOnly \cup {"renamed"} /\ UNCHANGED <<silent, uv, triggers>>
    /\ Outdate
    /\ UNCHANGED <<tree, canary, binary, todo, failed, only, canaryRead, throughout>>

(* main, for everything or for one step.                                     *)
StartGate ==
    /\ todo = <<>> /\ code # "running"
    /\ \/ only' = FALSE /\ todo' = Steps
       \/ only' = TRUE /\ \E l \in {"zlint", "kernel-align", "report-tooling"} : todo' = <<l>>
    /\ failed' = FALSE /\ throughout' = tree /\ code' = "running"
    /\ UNCHANGED <<Outside, canaryRead, edits>>

-----------------------------------------------------------------------------
ZlintPasses == silent \/ ("unused" \notin tree /\ ~canary)

(* check_ci: CI fires without being asked, on a push or on anything else.    *)
FiresByItself == triggers \ {"workflow_dispatch"} # {}
CiPasses == FiresByItself /\ Labels \subseteq ciOnly /\ ciOnly \subseteq Labels

(* A missing uv skips the report's check and fails the unit tests, whose     *)
(* report half skips itself.                                                 *)
Passes(l) ==
    CASE l = "zlint"           -> ZlintPasses
      [] l = "ruff"            -> "style" \notin tree
      [] l = "zig-build"       -> "compile" \notin tree
      [] l = "kernel-align"    -> \E b \in binary : "inlined" \notin b
      [] l = "harness-unit"    -> uv /\ "test" \notin tree
      [] l = "regression-null" -> "verdict" \notin tree
      [] l = "report-tooling"  -> ~uv \/ "template" \notin tree
      [] l = "ci-covers-gate"  -> CiPasses

RunStep ==
    /\ todo # <<>> /\ LET l == Head(todo) IN
          /\ l # "zlint-not-vacuous" /\ (l = "ruff" => uv)
          /\ failed' = (failed \/ ~Passes(l))
          /\ binary' = IF l = "zig-build" /\ Passes(l) THEN {tree} ELSE binary
    /\ todo' = Tail(todo)
    /\ UNCHANGED <<tree, canary, silent, uv, triggers, ciOnly, only, canaryRead, throughout, code, edits>>

(* canary: common.zig with one decl more, then as it was read.               *)
WriteCanary ==
    /\ todo # <<>> /\ Head(todo) = "zlint-not-vacuous" /\ canaryRead = {}
    /\ canaryRead' = {canary} /\ canary' = TRUE
    /\ UNCHANGED <<tree, silent, uv, triggers, ciOnly, binary, todo, failed, only,
                   throughout, code, edits>>
PutBack ==
    /\ canaryRead # {}
    /\ failed' = (failed \/ ZlintPasses)
    /\ canary' = (TRUE \in canaryRead) /\ canaryRead' = {} /\ todo' = Tail(todo)
    /\ UNCHANGED <<tree, silent, uv, triggers, ciOnly, binary, only, throughout, code, edits>>

EndGate ==
    /\ todo = <<>> /\ code = "running" /\ code' = IF failed THEN "failed" ELSE "passed"
    /\ UNCHANGED <<Outside, todo, failed, only, canaryRead, throughout, edits>>

(* ruff is started through uv: without it, and on Ctrl-C or a kill, the run  *)
(* ends; only a kill leaves the canary in the file.                          *)
Abort ==
    /\ todo # <<>>
    /\ todo' = <<>> /\ code' = "died" /\ canaryRead' = {}
    /\ canary' \in {canary} \cup canaryRead
    /\ UNCHANGED <<tree, silent, uv, triggers, ciOnly, binary, failed, only, throughout, edits>>

GateNext == EditTree \/ EditTools \/ StartGate \/ RunStep \/ WriteCanary \/ PutBack \/ EndGate \/ Abort

-----------------------------------------------------------------------------
GateTypeOK ==
    /\ tree \subseteq Defects /\ throughout \subseteq tree /\ edits \in 0..MaxEdits
    /\ code \in {"none", "running", "passed", "failed", "died"} /\ Cardinality(binary) <= 1

(* "all steps passed" of a whole run means that no defect was in the tree    *)
(* from its start to its end, whatever was edited meanwhile; that the linter *)
(* would have said so, every test ran and CI runs every step, by itself; and *)
(* that no canary is left in the tree by this run or by a killed one.        *)
GreenMeansChecked ==
    code = "passed" /\ ~only =>
        /\ throughout = {} /\ ~canary /\ ~silent /\ uv
        /\ FiresByItself /\ Labels \subseteq ciOnly

(* Why it holds: a whole run has a tail of the steps left, and what each step *)
(* before looks for was missing at some moment of the run, so that it was not *)
(* there throughout.                                                         *)
Left(k) == [i \in 1..(Len(Steps) + 1 - k) |-> Steps[i + k - 1]]
RuledOut(k) ==
    /\ k > 1 => \/ silent
                \/ /\ "unused" \notin throughout /\ canaryRead \subseteq {FALSE}
                   /\ canaryRead = {} => ~canary
    /\ k > 2 => ~silent
    /\ k > 3 => uv /\ "style" \notin throughout
    /\ k > 4 => "compile" \notin throughout /\ \A b \in binary : throughout \subseteq b
    /\ k > 5 => "inlined" \notin throughout
    /\ k > 6 => "test" \notin throughout
    /\ k > 7 => "verdict" \notin throughout
    /\ k > 8 => "template" \notin throughout
    /\ k > 9 => FiresByItself /\ Labels \subseteq ciOnly
TreeHeld ==
    /\ tree \subseteq Defects /\ throughout \subseteq tree
    /\ canary \in BOOLEAN /\ canaryRead \subseteq BOOLEAN
RunHeld ==
    /\ code # "running" => todo = <<>> /\ canaryRead = {}
    /\ canaryRead # {} => ~only /\ todo = Left(2)
    /\ code = "running" /\ ~only =>
          \E k \in 1..(Len(Steps) + 1) : todo = Left(k) /\ (~failed => RuledOut(k))
    /\ only => todo = <<>> \/ \E l \in Labels \ {"zlint-not-vacuous"} : todo = <<l>>
GateInv == TreeHeld /\ RunHeld /\ GreenMeansChecked
=============================================================================
