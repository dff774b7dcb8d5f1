------------------------------- MODULE FullRun -------------------------------
(* Runs of bench/harness/fullrun.py, one after another on one machine: each  *)
(* is admitted, builds, measures both arms, folds its passes, licenses them  *)
(* with the differ, and decides whether README.md may change.  A run may be  *)
(* interrupted anywhere; the next one meets what it left.  An arm's inside   *)
(* is module Arm; here each of its calls of workloads.py leaves rows that    *)
(* are fit or not, in one file with the rows of the others and of earlier    *)
(* runs of the label.                                                        *)
EXTENDS Engines

CONSTANTS
    MaxRuns,     \* bound: runs in a behaviour
    MaxFaults,   \* bound: things that go wrong in a behaviour
    MaxAsks,     \* bound: admissions asked again under --wait-for-gate
    MaxReps,     \* bound: passes of an arm (--reps)
    Invocations, \* workloads.py calls of an arm (invocations_per_arm)
    Options      \* the command lines: [skip, reps, qdrant, lax]

ASSUME BoundsAssumption ==
    /\ MaxRuns \in Nat /\ MaxFaults \in Nat /\ MaxAsks \in Nat /\ MaxReps \in Nat
    /\ Invocations \in Nat \ {0}
ASSUME OptionsAssumption ==
    Options \subseteq [skip : SUBSET {"strawmann", "qdrant", "conformance"},
                       reps : 1..MaxReps, qdrant : {"native", "container"}, lax : BOOLEAN]

VARIABLES
    run,         \* the run's number: its --session
    opt,         \* its command line
    at,          \* where main is
    rep,         \* the pass
    call,        \* the arm's call of workloads.py
    asks,        \* admissions asked
    head, bin,   \* the tree's commit; the commit zig-out was built from
    rows,        \* the rows in every label's rows.json, those of each call together;
                 \* a label is <<arm, pass>>, 0 the fold
    written,     \* the labels that have a rows.json, be it an empty one
    meta,        \* its run.json: rewritten before the rows are measured
    back,        \* its collections.json: of the collections each call's rows read
    conf,        \* conformance.json of the two folded labels
    readme,      \* what README.md's table was written from
    gateFailed,  \* the run proceeds on a failed gate (--lax)
    rc,          \* main's return code
    stopping,    \* Ctrl-C inside a try: the finally runs, then main is over
    interrupted, \* some run did not get to its end
    unwiped,     \* some wipe failed
    faults

vars == <<run, opt, at, rep, call, asks, head, bin, rows, written, meta, back, conf,
          readme, live, disk, gateFailed, rc, stopping, interrupted, unwiped, faults>>

Arms == {"sm", "qd"}
Labels == Arms \X (0..MaxReps)
Calls == 1..Invocations
None == [session |-> 0]
Readbacks == {"none", "asked", "elsewhere", "remainder"}

Phases == {"idle", "admission", "build", "startSm", "measureSm", "finishSm",
           "startQd", "measureQd", "finishQd", "fold", "confSm", "confQd",
           "differ", "finishConf", "placement", "render", "prune"}

NoOption == [skip |-> {}, reps |-> 0, qdrant |-> "native", lax |-> FALSE]

Init ==
    /\ EnginesInit
    /\ run = 0 /\ opt = NoOption /\ at = "idle" /\ rep = 0 /\ call = 1 /\ asks = 0
    /\ head = 1 /\ bin = 0
    /\ rows = [l \in Labels |-> [c \in Calls |-> None]] /\ written = {}
    /\ meta = [l \in Labels |-> None]
    /\ back = [l \in Labels |-> [c \in Calls |-> "none"]]
    /\ conf = [a \in Arms |-> None]
    /\ readme = None
    /\ gateFailed = FALSE /\ rc = 0
    /\ stopping = FALSE /\ interrupted = FALSE /\ unwiped = FALSE
    /\ faults = 0

-----------------------------------------------------------------------------
Files == <<rows, written, meta, back, conf, readme>>
Tree == <<head, bin>>
Run == <<run, opt>>

(* What goes wrong in a step uses up some of the faults.                     *)
Faults(n) == faults' = faults + n /\ faults' <= MaxFaults
Fault(bad) == Faults(IF bad THEN 1 ELSE 0)

Skips(phase) == phase \in opt.skip
LabelOf(arm) == <<arm, IF opt.reps > 1 THEN rep ELSE 0>>

(* The phases the command line leaves.                                       *)
PassStart == IF ~Skips("strawmann") THEN "startSm"
             ELSE IF ~Skips("qdrant") THEN "startQd" ELSE "fold"

\* Mutant: one pass more than asked for.
EndPassLate ==
    IF rep <= opt.reps THEN at' = PassStart /\ rep' = rep + 1
                       ELSE at' = "fold" /\ UNCHANGED rep

(* The passes alternate the arms: A, B, A, B.                                *)
EndPass ==
    IF rep < opt.reps THEN at' = PassStart /\ rep' = rep + 1
                      ELSE at' = "fold" /\ UNCHANGED rep

(* Main returns.                                                             *)
Return(code) == at' = "idle" /\ rc' = code /\ stopping' = FALSE

-----------------------------------------------------------------------------
(* A command line, and what main checks before anything is spent: files,     *)
(* the load generator's pin, the labels' dataset, the placement.             *)
StartRun ==
    /\ at = "idle" /\ run < MaxRuns
    /\ run' = run + 1
    /\ opt' \in Options
    /\ rep' = 1 /\ asks' = 0 /\ rc' = 0 /\ gateFailed' = FALSE
    /\ at' = "admission"
    /\ UNCHANGED <<call, Tree, Files, live, disk, stopping, interrupted, unwiped, faults>>

(* wait_until_admitted: a leftover container is removed; a held port or a    *)
(* gate that fails is asked again while the wait lasts, and --lax goes on    *)
(* without the gate, never without the ports.                                *)
Admit ==
    /\ at = "admission"
    /\ PortsInUse = {}
    /\ live' = WithoutContainer
    /\ \E pass \in BOOLEAN :
          /\ pass \/ opt.lax
          /\ Fault(~pass)
          /\ gateFailed' = ~pass
    /\ at' = "build"
    /\ UNCHANGED <<Run, rep, call, asks, Tree, Files, disk, rc, stopping, interrupted, unwiped>>

\* Mutant: the wait has no deadline.
AskForever ==
    /\ at = "admission" /\ asks < MaxAsks
    /\ live' = WithoutContainer
    /\ Fault(PortsInUse = {})
    /\ UNCHANGED <<Run, at, rep, call, asks, Tree, Files, disk, gateFailed, rc, stopping,
                   interrupted, unwiped>>

AskAgain ==
    /\ at = "admission" /\ asks < MaxAsks
    /\ asks' = asks + 1
    /\ live' = WithoutContainer
    /\ Fault(PortsInUse = {})        \* the gate's refusal, were the ports free
    /\ UNCHANGED <<Run, at, rep, call, Tree, Files, disk, gateFailed, rc, stopping,
                   interrupted, unwiped>>

Refuse ==
    /\ at = "admission" /\ (asks = MaxAsks \/ PortsInUse = {})
    /\ live' = WithoutContainer
    /\ Fault(PortsInUse = {})
    /\ Return(1)
    /\ UNCHANGED <<Run, rep, call, asks, Tree, Files, disk, gateFailed, interrupted, unwiped>>

Build ==
    /\ at = "build"
    /\ \E ok \in BOOLEAN :
          /\ Fault(~ok)
          /\ IF ok THEN bin' = head /\ at' = PassStart /\ UNCHANGED <<rc, stopping>>
                   ELSE Return(1) /\ UNCHANGED bin
    /\ UNCHANGED <<Run, rep, call, asks, head, Files, live, disk, gateFailed, interrupted, unwiped>>

-----------------------------------------------------------------------------
(* One engine's start: without it main returns 1 and nothing of it is left.  *)
StartSm ==
    /\ at = "startSm"
    /\ \E up \in BOOLEAN :
          /\ Fault(~up)
          /\ StartStrawmann(ArmPort, run, bin, up)
          /\ IF up THEN at' = "measureSm" /\ UNCHANGED <<rc, stopping>> ELSE Return(1)
    /\ UNCHANGED <<Run, rep, call, asks, Tree, Files, gateFailed, interrupted, unwiped>>

StartQd ==
    /\ at = "startQd"
    /\ \E works \in BOOLEAN, answers \in BOOLEAN :
          /\ ~(~works /\ ~answers)
          /\ Fault(~works \/ ~answers)
          /\ StartQdrant(opt.qdrant, run, works, answers)
          /\ IF answers /\ QdrantMayStart(opt.qdrant, run, works)
             THEN at' = "measureQd" /\ UNCHANGED <<rc, stopping>> ELSE Return(1)
          /\ unwiped' = (unwiped \/ ~works)
    /\ UNCHANGED <<Run, rep, call, asks, Tree, Files, gateFailed, interrupted>>

(* measure calls workloads.py once for each part of the table and goes on    *)
(* when a call fails.  A call writes run.json, stamps its rows with the      *)
(* gate's verdict and with the load that ran beside them, and merges them    *)
(* into rows.json at its end: one that died, or was stopped, left the older  *)
(* rows, and the older run.json if it refused before writing one.  Behind it *)
(* the collections its rows read are read back; a read-back that fails       *)
(* leaves what the file said.  build is what a row says of its engine;       *)
(* cleans, bins and sessions keep what each of a fold's passes was.          *)
Measured(arm, clean) ==
    LET built == IF arm = "sm" THEN bin ELSE 0
    IN  [session |-> run, clean |-> clean, passes |-> 1, build |-> built,
         cleans |-> {clean}, bins |-> {built}, sessions |-> {run}]
RunRecord == [session |-> run, commit |-> head]

Measure(arm) ==
    LET l == LabelOf(arm)
    IN  \E result \in {"clean", "dirty", "died", "refused"}, seen \in Readbacks :
          /\ Faults((IF result = "clean" THEN 0 ELSE 1) + (IF seen = "asked" THEN 0 ELSE 1))
          /\ IF result \in {"died", "refused"} THEN UNCHANGED <<rows, written>>
             ELSE /\ rows' = [rows EXCEPT ![l][call] = Measured(arm, result = "clean")]
                  /\ written' = written \cup {l}
          /\ meta' = IF result = "refused" THEN meta ELSE [meta EXCEPT ![l] = RunRecord]
          /\ back' = IF seen = "none" THEN back ELSE [back EXCEPT ![l][call] = seen]
          /\ rc' = IF result \in {"died", "refused"} THEN 1 ELSE rc

NextCall(finish) ==
    IF call < Invocations THEN call' = call + 1 /\ UNCHANGED at
                          ELSE call' = 1 /\ at' = finish

MeasureSm ==
    /\ at = "measureSm" /\ Measure("sm") /\ NextCall("finishSm")
    /\ UNCHANGED <<Run, rep, asks, Tree, conf, readme, live, disk, gateFailed, stopping,
                   interrupted, unwiped>>
MeasureQd ==
    /\ at = "measureQd" /\ Measure("qd") /\ NextCall("finishQd")
    /\ UNCHANGED <<Run, rep, asks, Tree, conf, readme, live, disk, gateFailed, stopping,
                   interrupted, unwiped>>

(* The finally of each arm.                                                  *)
FinishSm ==
    /\ at = "finishSm"
    /\ \E works \in BOOLEAN : /\ Fault(~works)
                              /\ FinishStrawmannArm(run, works)
                              /\ unwiped' = (unwiped \/ ~works)
    /\ IF stopping THEN Return(1) /\ UNCHANGED rep
       ELSE /\ IF Skips("qdrant") THEN EndPass ELSE at' = "startQd" /\ UNCHANGED rep
            /\ UNCHANGED <<rc, stopping>>
    /\ UNCHANGED <<Run, call, asks, Tree, Files, gateFailed, interrupted>>

FinishQd ==
    /\ at = "finishQd"
    /\ \E works \in BOOLEAN : /\ Fault(~works)
                              /\ FinishQdrantArm(run, works)
                              /\ unwiped' = (unwiped \/ ~works)
    /\ IF stopping THEN Return(1) /\ UNCHANGED rep
       ELSE EndPass /\ UNCHANGED <<rc, stopping>>
    /\ UNCHANGED <<Run, call, asks, Tree, Files, gateFailed, interrupted>>

-----------------------------------------------------------------------------
Passes(arm, c) == {rows[<<arm, i>>][c] : i \in 1..opt.reps}
FoldOf(arm, c, clean) ==
    [session |-> rows[<<arm, 1>>][c].session, clean |-> clean, passes |-> opt.reps,
     build |-> rows[<<arm, 1>>][c].build,
     cleans |-> UNION {p.cleans : p \in Passes(arm, c)},
     bins |-> UNION {p.bins : p \in Passes(arm, c)},
     sessions |-> UNION {p.sessions : p \in Passes(arm, c)}]

\* Mutant: the first pass's load and gate stand for all.
FoldedAsFirst(arm) ==
    [c \in Calls |-> IF None \in Passes(arm, c) THEN None
                     ELSE FoldOf(arm, c, rows[<<arm, 1>>][c].clean)]

(* aggregate.py: rows that not every pass has are not folded.  Foreign load  *)
(* and a failed gate in any pass are the folded row's; the session and the   *)
(* build are pass 1's.                                                       *)
Folded(arm) ==
    [c \in Calls |-> IF None \in Passes(arm, c) THEN None
                     ELSE FoldOf(arm, c, \A p \in Passes(arm, c) : p.clean)]

HasRows(l) == \E c \in Calls : rows[l][c] # None
ReadBack(l) == \E c \in Calls : back[l][c] # "none"
Skipped(arm) == IF arm = "sm" THEN Skips("strawmann") ELSE Skips("qdrant")
Foldable(arm) == \A i \in 1..opt.reps : HasRows(<<arm, i>>)
ToFold == IF opt.reps > 1 THEN {a \in Arms : ~Skipped(a)} ELSE {}

(* A label with a pass without rows is not folded.  The folded rows.json is  *)
(* written anew, empty if no row was in every pass; run.json and, where      *)
(* there is one, the read-back are pass 1's.                                 *)
Fold ==
    /\ at = "fold"
    /\ LET done == {a \in ToFold : Foldable(a)}
       IN  /\ rows' = [l \in Labels |-> IF l[1] \in done /\ l[2] = 0
                                         THEN Folded(l[1]) ELSE rows[l]]
           /\ written' = written \cup (done \X {0})
           /\ meta' = [l \in Labels |-> IF l[1] \in done /\ l[2] = 0
                                         THEN meta[<<l[1], 1>>] ELSE meta[l]]
           /\ back' = [l \in Labels |->
                         IF l[1] \in done /\ l[2] = 0 /\ ReadBack(<<l[1], 1>>)
                         THEN back[<<l[1], 1>>] ELSE back[l]]
           /\ rc' = IF done # ToFold THEN 1 ELSE rc
    /\ at' = IF Skips("conformance") THEN "placement" ELSE "confSm"
    /\ UNCHANGED <<Run, rep, call, asks, Tree, conf, readme, live, disk, gateFailed,
                   stopping, interrupted, unwiped, faults>>

(* The differ needs both engines at once.                                    *)
ConfSm ==
    /\ at = "confSm"
    /\ \E up \in BOOLEAN :
          /\ Fault(~up)
          /\ StartStrawmann(ConfPort, run, bin, up)
          /\ IF up THEN at' = "confQd" /\ UNCHANGED <<rc, stopping>> ELSE Return(1)
    /\ UNCHANGED <<Run, rep, call, asks, Tree, Files, gateFailed, interrupted, unwiped>>

ConfQd ==
    /\ at = "confQd"
    /\ \E works \in BOOLEAN, answers \in BOOLEAN :
          /\ Fault(~works \/ ~answers)
          /\ StartQdrant(opt.qdrant, run, works, answers)
          /\ IF answers /\ QdrantMayStart(opt.qdrant, run, works)
             THEN at' = "differ" /\ UNCHANGED rc
             ELSE at' = "finishConf" /\ rc' = 1
          /\ unwiped' = (unwiped \/ ~works)
    /\ UNCHANGED <<Run, rep, call, asks, Tree, Files, gateFailed, stopping, interrupted>>

(* run_conformance: the differ writes the first label's row whatever it      *)
(* found, and only a passing one is copied to the other label.               *)
Differ ==
    /\ at = "differ"
    /\ \E found \in {"comparative", "perf", "neither", "died"} :
          /\ Fault(found # "comparative")
          /\ LET passed == found \in {"comparative", "perf"}
                 row == [session |-> run, perf |-> passed,
                         comparative |-> found = "comparative", commit |-> head,
                         bins |-> {p.bin : p \in Serving(ConfPort)}]
             IN  /\ conf' = [a \in Arms |-> IF found # "died" /\ (a = "sm" \/ passed)
                                            THEN row ELSE conf[a]]
                 /\ rc' = IF passed THEN rc ELSE 1
    /\ at' = "finishConf"
    /\ UNCHANGED <<Run, rep, call, asks, Tree, rows, written, meta, back, readme, live, disk,
                   gateFailed, stopping, interrupted, unwiped>>

FinishConf ==
    /\ at = "finishConf"
    /\ \E works \in BOOLEAN : /\ Fault(~works)
                              /\ FinishConformance(run, works)
                              /\ unwiped' = (unwiped \/ ~works)
    /\ IF stopping THEN Return(1) ELSE at' = "placement" /\ UNCHANGED <<rc, stopping>>
    /\ UNCHANGED <<Run, rep, call, asks, Tree, Files, gateFailed, interrupted>>

(* placement_mismatch, of the two folded labels' read-backs.                 *)
Mismatch ==
    /\ \A a \in Arms : ReadBack(<<a, 0>>)
    /\ \E a \in Arms, c \in Calls : back[<<a, 0>>][c] = "elsewhere"

Placement ==
    /\ at = "placement"
    /\ at' = "render"
    /\ rc' = IF ~Skips("strawmann") /\ ~Skips("qdrant") /\ Mismatch THEN 1 ELSE rc
    /\ UNCHANGED <<Run, rep, call, asks, Tree, Files, live, disk, gateFailed, stopping,
                   interrupted, unwiped, faults>>

-----------------------------------------------------------------------------
(* The rows of an arm that a table of the folded labels shows.               *)
Shown(arm) == {c \in Calls : rows[<<arm, 0>>][c] # None}

\* Mutant: a licence of any build will do.
AnyCommitLicensed(arm) == Shown(arm) # {} /\ (conf[arm] = None \/ ~conf[arm].perf)

(* results.py ingest: a label's rows are refused without a differ's row that *)
(* licenses them and names the strawmANN commit of its run.json, and when    *)
(* they say that two builds served them.                                     *)
SinkRefuses(arm) ==
        /\ Shown(arm) # {}
        /\ \/ conf[arm] = None
           \/ ~conf[arm].perf
           \/ arm = "sm" /\ conf[arm].commit # meta[<<arm, 0>>].commit
           \/ \E c, d \in Shown(arm) : rows[<<arm, 0>>][c].build # rows[<<arm, 0>>][d].build

(* publish_refusals: a defect of any of a label's rows, or that none of them *)
(* is of more than one pass.  A collection no row names is not looked at,    *)
(* unless there is no row.                                                   *)
Defects(arm) ==
    /\ <<arm, 0>> \in written
    /\ \/ \E c \in Shown(arm) : ~rows[<<arm, 0>>][c].clean
       \/ \E c \in Calls : /\ back[<<arm, 0>>][c] = "remainder"
                           /\ c \in Shown(arm) \/ Shown(arm) = {}
SinglePass(arm) ==
    /\ Shown(arm) # {}
    /\ ~ \E c \in Shown(arm) : rows[<<arm, 0>>][c].passes >= 2

Defective ==
    \/ \E a \in Arms : SinkRefuses(a) \/ Defects(a)
    \/ gateFailed
    \/ conf["sm"] = None \/ ~conf["sm"].comparative
Withheld == Defective \/ \E a \in Arms : SinglePass(a)

\* Mutant: older rows keep their ratios.
NoneOrphaned(arm) == FALSE

(* compare.orphaned_row_reasons: a label with rows older than the run.json   *)
(* beside them gets no ratio at all.                                         *)
Orphaned(arm) ==
    \E c \in Shown(arm) : rows[<<arm, 0>>][c].session # meta[<<arm, 0>>].session

(* What compare.py writes of the two folded labels: the rows of both, and    *)
(* the ratio of each row both have.                                          *)
Table ==
    [session |-> run, sm |-> rows[<<"sm", 0>>], qd |-> rows[<<"qd", 0>>], conf |-> conf["sm"],
     ratios |-> IF \E a \in Arms : Orphaned(a) THEN {} ELSE Shown("sm") \cap Shown("qd"),
     back |-> UNION {{back[<<a, 0>>][c] : c \in Shown(a)} : a \in Arms}]

(* render, whatever main's return code is by now.  compare.py has no table   *)
(* to splice without both labels' rows.json.                                 *)
Render ==
    /\ at = "render"
    /\ at' = "prune"
    /\ IF Withheld THEN UNCHANGED readme /\ rc' = IF Defective THEN 1 ELSE rc
       ELSE IF \E a \in Arms : <<a, 0>> \notin written THEN UNCHANGED readme /\ rc' = 1
       ELSE readme' = Table /\ UNCHANGED rc
    /\ UNCHANGED <<Run, rep, call, asks, Tree, rows, written, meta, back, conf, live, disk,
                   gateFailed, stopping, interrupted, unwiped, faults>>

(* prune (module Retention), and the end of main.                            *)
Prune ==
    /\ at = "prune"
    /\ Return(rc)
    /\ UNCHANGED <<Run, rep, call, asks, Tree, Files, live, disk, gateFailed, interrupted,
                   unwiped, faults>>

-----------------------------------------------------------------------------
(* Ctrl-C while the rows or the differ run: the finally still runs.          *)
CtrlC ==
    /\ at \in {"measureSm", "measureQd", "differ"}
    /\ Fault(TRUE)
    /\ at' = CASE at = "measureSm" -> "finishSm" [] at = "measureQd" -> "finishQd"
              [] at = "differ" -> "finishConf"
    /\ stopping' = TRUE /\ interrupted' = TRUE /\ call' = 1
    /\ UNCHANGED <<Run, rep, asks, Tree, Files, live, disk, gateFailed, rc, unwiped>>

(* The harness is gone: a kill, or Ctrl-C anywhere else.  The engines go     *)
(* with it or stay.                                                          *)
Killed ==
    /\ at # "idle"
    /\ Fault(TRUE)
    /\ Return(1)
    /\ live' \in {live, {}}
    /\ interrupted' = TRUE /\ call' = 1
    /\ UNCHANGED <<Run, rep, asks, Tree, Files, disk, gateFailed, unwiped>>

(* Between runs the tree moves on, and the operator ends what was left.      *)
Commit ==
    /\ at = "idle" /\ head = 1 /\ head' = 2
    /\ UNCHANGED <<Run, at, rep, call, asks, bin, Files, live, disk, gateFailed, rc, stopping,
                   interrupted, unwiped, faults>>
FreePorts ==
    /\ at \in {"idle", "admission"} /\ live # {} /\ live' = {}
    /\ UNCHANGED <<Run, at, rep, call, asks, Tree, Files, disk, gateFailed, rc, stopping,
                   interrupted, unwiped, faults>>

(* What main does by itself; the engines' starts and every tool it waits for *)
(* answer or time out.                                                       *)
Main ==
    \/ Admit \/ AskAgain \/ Refuse \/ Build
    \/ StartSm \/ MeasureSm \/ FinishSm \/ StartQd \/ MeasureQd \/ FinishQd
    \/ Fold \/ ConfSm \/ ConfQd \/ Differ \/ FinishConf
    \/ Placement \/ Render \/ Prune

Next == StartRun \/ Main \/ CtrlC \/ Killed \/ Commit \/ FreePorts

Spec == Init /\ [][Next]_vars /\ WF_vars(Main)

-----------------------------------------------------------------------------
Rows == [session : 1..MaxRuns, clean : BOOLEAN, passes : 1..MaxReps, build : 0..2,
         cleans : SUBSET BOOLEAN, bins : SUBSET (0..2), sessions : SUBSET (1..MaxRuns)]
RowFiles == [Calls -> {None} \cup Rows]

(* The types, and the bounds: a run's passes are the ones it was asked for.  *)
TypeOK ==
    /\ run \in 0..MaxRuns /\ opt \in Options \cup {NoOption}
    /\ at \in Phases /\ rep \in 0..MaxReps /\ asks \in 0..MaxAsks
    /\ call \in Calls /\ (call # 1 => at \in {"measureSm", "measureQd"})
    /\ head \in {1, 2} /\ bin \in 0..2
    /\ rows \in [Labels -> RowFiles]
    /\ back \in [Labels -> [Calls -> Readbacks]]
    /\ written \subseteq Labels /\ \A l \in Labels : HasRows(l) => l \in written
    /\ live \subseteq [eng : Kinds, port : {ArmPort, ConfPort}, run : 0..MaxRuns, bin : 0..2]
    /\ disk \in [Stores -> {"empty", "used"}]
    /\ rc \in {0, 1} /\ faults \in 0..MaxFaults

(* While an arm's rows or the differ run, the port they address is served by *)
(* one process: the engine this run started, of the binary it built.  An     *)
(* older one left behind would share or answer for it.                       *)
MeasuresOwnEngine ==
    /\ at = "measureSm" => Serving(ArmPort) = {[eng |-> "sm", port |-> ArmPort,
                                                run |-> run, bin |-> bin]}
    /\ at = "measureQd" => Serving(ArmPort) = {[eng |-> opt.qdrant, port |-> ArmPort,
                                                run |-> run, bin |-> 0]}
    /\ at = "differ" => /\ Serving(ConfPort) = {[eng |-> "sm", port |-> ConfPort,
                                                  run |-> run, bin |-> bin]}
                        /\ {p.run : p \in Serving(ArmPort)} = {run}

(* A run that came to an end by itself left no engine, and its arms' storage *)
(* is gone unless a wipe failed: the arm that follows has the disk.          *)
NothingLeft ==
    /\ at = "idle" /\ ~interrupted => live = {}
    /\ at = "measureQd" /\ ~unwiped /\ ~interrupted => disk["sm"] = "empty"
    /\ at = "idle" /\ ~interrupted /\ ~unwiped => \A s \in Stores : disk[s] = "empty"

(* README.md's table never shows rows taken beside other load or under a     *)
(* failed gate in any of their passes, rows a differ does not license for    *)
(* comparison, or rows over an index that was incomplete when it was read    *)
(* back (a fold's read-back is its first pass's), and a ratio in it is of    *)
(* rows measured at least twice on both sides.  A row without a ratio may be *)
(* of a single pass: publish_refusals asks only whether some row is not, and *)
(* it is compare.py's look at the sessions that keeps the ratios out.        *)
PublishedIsFit ==
    readme # None =>
        /\ \A c \in Calls : \A r \in {readme.sm[c], readme.qd[c]} :
              r # None => r.cleans = {TRUE}
        /\ \A c \in readme.ratios : readme.sm[c].passes >= 2 /\ readme.qd[c].passes >= 2
        /\ readme.conf.comparative
        /\ "remainder" \notin readme.back

(* A ratio in README.md is of rows the tested binary served (results.py,     *)
(* section 8: "the same build").                                             *)
LicensedBySameBuild ==
    readme # None => \A c \in readme.ratios : readme.sm[c].bins = readme.conf.bins

(* It is, whenever the folded passes are of one session: a label reused by a *)
(* later run never shows the older build's rows under the newer licence.     *)
LicensedWithinSession ==
    readme # None =>
        \A c \in readme.ratios :
            Cardinality(readme.sm[c].sessions) = 1 => readme.sm[c].bins = readme.conf.bins

(* Every run ends: no step of main waits for something that may never come.  *)
EveryRunEnds == at # "idle" ~> at = "idle"
=============================================================================
