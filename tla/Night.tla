-------------------------------- MODULE Night --------------------------------
(* The unattended drivers: nightrun.py runs fullrun.py for a date and a      *)
(* dataset, keeps the report and asks for an analysis, in a directory of its *)
(* own; phase1_chain.py and planner_ab.py run one driver after another.      *)
EXTENDS Naturals, Sequences

CONSTANTS
    MaxRuns,          \* bound: launches, renders by somebody else
    ChainSteps        \* of phase1_chain; planner_ab's datasets

NoRun == 0

VARIABLES
    run, at,          \* the launch under way and how far it is
    launches,
    log,              \* the night directory: the launch each line is of
    pages,            \* report page of the pair: the launch that wrote it, in bench/results
    fromRows,         \* the launch whose rows the two labels hold; both arms or not
    kept,             \* what the night directory holds as the run's report
    analysis,
    code,             \* launch -> its exit code, or what fullrun.py's was
    chain             \* chain.json: [step, rc]

gvars == <<run, at, launches, log, pages, fromRows, kept, analysis, code, chain>>

NightInit ==
    /\ run = NoRun /\ at = "idle" /\ launches = 0
    /\ log = <<>> /\ pages = NoRun /\ fromRows = [of |-> NoRun, both |-> FALSE]
    /\ kept = NoRun /\ analysis = NoRun /\ code = <<>> /\ chain = <<>>

Say(who, n) == log' = log \o [i \in 1..n |-> who]

(* main: one launch of a dataset per date; the log is what says so.          *)
Launch ==
    /\ at = "idle" /\ launches < MaxRuns
    /\ launches' = launches + 1
    /\ IF log # <<>>
       THEN /\ code' = Append(code, "log_exists")
            /\ UNCHANGED <<run, at, log>>
       ELSE /\ Say(launches', 1)
            /\ \/ at' = "measure" /\ run' = launches' /\ code' = Append(code, "running")
               \/ at' = "idle" /\ run' = NoRun /\ code' = Append(code, "no_qdrant")
    /\ UNCHANGED <<pages, fromRows, kept, analysis, chain>>

(* fullrun.py returned: refused before anything, died with one arm's rows,   *)
(* measured and rendered, or measured and did not render.                    *)
Measured ==
    /\ at = "measure" /\ at' = "report"
    /\ \E outcome \in {"refused", "one_arm", "no_page", "rendered"} :
          /\ fromRows' = IF outcome = "refused" THEN fromRows
                         ELSE [of |-> run, both |-> outcome # "one_arm" \/ fromRows.both]
          /\ pages' = IF outcome = "rendered" THEN run ELSE pages
          /\ code' = [code EXCEPT ![run] = IF outcome = "rendered" THEN "ok" ELSE "failed"]
    /\ Say(run, 2)
    /\ UNCHANGED <<run, launches, kept, analysis, chain>>

(* keep_report: the pair's newest page, or one rendered here when both arms  *)
(* have rows; a copy beside the log, since the next render writes the same   *)
(* file.                                                                     *)
KeepReport ==
    /\ at = "report" /\ at' = "analyse"
    /\ \E renders \in BOOLEAN :
          pages' = IF pages = NoRun /\ fromRows.both /\ renders THEN fromRows.of ELSE pages
    /\ kept' = IF pages' # NoRun THEN pages' ELSE kept
    /\ Say(run, 2)
    /\ UNCHANGED <<run, launches, fromRows, analysis, code, chain>>

(* analyse: skipped without the tool; its file is the session's longest text.*)
Analyse ==
    /\ at = "analyse" /\ at' = "idle" /\ run' = NoRun
    /\ analysis' \in {run, analysis}
    /\ Say(run, 1)
    /\ UNCHANGED <<launches, pages, fromRows, kept, code, chain>>

(* The unit is killed; or the log is moved aside between two runs.           *)
Killed ==
    /\ at \in {"measure", "report", "analyse"} /\ at' = "idle" /\ run' = NoRun
    /\ UNCHANGED <<launches, log, pages, fromRows, kept, analysis, code, chain>>
MoveAside ==
    /\ at = "idle" /\ log # <<>> /\ launches < MaxRuns
    /\ log' = <<>> /\ kept' = NoRun /\ analysis' = NoRun
    /\ UNCHANGED <<run, at, launches, pages, fromRows, code, chain>>

(* Somebody renders the pair again: the page's name comes from its rows.     *)
Rerender ==
    /\ at \in {"idle", "analyse"} /\ fromRows.both /\ pages' = fromRows.of
    /\ UNCHANGED <<run, at, launches, log, fromRows, kept, analysis, code, chain>>

(* The chain goes on after a failed step, and records each as it ends; it    *)
(* checks first for what would make one fail an hour in.                     *)
Step ==
    /\ Len(chain) < Len(ChainSteps)
    /\ \E rc \in {0, 1} : chain' = Append(chain, [step |-> ChainSteps[Len(chain) + 1], rc |-> rc])
    /\ UNCHANGED <<run, at, launches, log, pages, fromRows, kept, analysis, code>>
ChainExit == IF \A i \in DOMAIN chain : chain[i].rc = 0 THEN 0 ELSE 1

NightNext ==
    \/ Launch \/ Measured \/ KeepReport \/ Analyse \/ Killed \/ MoveAside \/ Rerender \/ Step

-----------------------------------------------------------------------------
NightTypeOK ==
    /\ run \in 0..MaxRuns /\ Len(code) = launches
    /\ at \in {"idle", "measure", "report", "analyse"}
    /\ Len(chain) <= Len(ChainSteps) /\ ChainExit \in {0, 1}

(* A night's log is of one launch; and one whose measurement ended well      *)
(* keeps its own report beside it, whatever page an earlier launch of the    *)
(* same labels left and whoever renders the pair meanwhile or afterwards.    *)
NightIsOneRun ==
    /\ \A i, j \in DOMAIN log : log[i] = log[j]
    /\ log # <<>> /\ code[log[1]] = "ok" => kept \in {NoRun, log[1]}

(* Why it holds: the log's one launch is the one under way, if any is; and a *)
(* measurement that ended well left its own page, which nobody renders       *)
(* between that and the copy.                                                *)
LogHeld ==
    /\ launches \in Nat /\ log \in Seq(1..launches)
    /\ \A i, j \in DOMAIN log : log[i] = log[j]
    /\ at # "idle" => log # <<>> /\ run = log[1]
Codes == {"running", "ok", "failed", "log_exists", "no_qdrant"}
CodesHeld == code \in Seq(Codes) /\ Len(code) = launches
PageHeld ==
    /\ log = <<>> \/ at \in {"measure", "report"} => kept = NoRun
    /\ at = "measure" => code[run] # "ok"
    /\ at = "report" /\ code[run] = "ok" => pages = run
NightInv == LogHeld /\ CodesHeld /\ PageHeld /\ NightIsOneRun
=============================================================================
