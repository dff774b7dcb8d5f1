--------------------------- MODULE FullRun_proofs ---------------------------
(* What a run leaves behind and what it publishes, for any number of runs,   *)
(* passes, faults and command lines (module FullRun).                        *)
EXTENDS FullRun, TLAPS, FiniteSetTheorems

-----------------------------------------------------------------------------
(* The inductive invariant.                                                  *)

MetaFiles == {None} \cup [session : 1..MaxRuns, commit : {1, 2}]
ConfFiles == {None} \cup [session : 1..MaxRuns, perf : BOOLEAN, comparative : BOOLEAN,
                          commit : {1, 2}, bins : SUBSET (0..2)]

RestTyped ==
    /\ meta \in [Labels -> MetaFiles] /\ conf \in [Arms -> ConfFiles]
    /\ at # "idle" => opt \in Options /\ run \in 1..MaxRuns /\ rep \in 1..MaxReps

Strawmann(port) == [eng |-> "sm", port |-> port, run |-> run, bin |-> bin]
Qdrant == [eng |-> opt.qdrant, port |-> ArmPort, run |-> run, bin |-> 0]

(* Each phase knows the engines it runs beside: none but its own, because    *)
(* no run goes past its admission while something holds a port.              *)
EnginesHeld ==
    /\ at \in {"idle", "admission"} /\ ~interrupted => live = {}
    /\ at \in {"build", "startSm", "startQd", "fold", "confSm", "placement", "render",
               "prune"} => live = {}
    /\ at \in {"measureSm", "finishSm"} => live = {Strawmann(ArmPort)}
    /\ at \in {"measureQd", "finishQd"} => live = {Qdrant}
    /\ at = "confQd" => live = {Strawmann(ConfPort)}
    /\ at = "differ" => live = {Strawmann(ConfPort), Qdrant}
    /\ at = "finishConf" => live \subseteq {Strawmann(ConfPort), Qdrant}

(* A store is filled only while its engine runs, until its finisher.         *)
StoresHeld ==
    ~unwiped /\ ~interrupted =>
        /\ at \notin {"measureSm", "finishSm", "confQd", "differ", "finishConf"} =>
              disk["sm"] = "empty"
        /\ at \notin {"measureQd", "finishQd", "differ", "finishConf"} =>
              disk["qd"] = "empty"

(* A row's verdict is that of all its passes, the one it is named for        *)
(* included.                                                                 *)
RowsHeld ==
    \A l \in Labels, c \in Calls : rows[l][c] # None =>
        /\ rows[l][c].session \in rows[l][c].sessions
        /\ rows[l][c].cleans # {} /\ (rows[l][c].cleans = {TRUE} <=> rows[l][c].clean)

(* A session's rows of a published label are all of one pass or all folded,  *)
(* because a run either measures into it or folds into it: nothing is of a   *)
(* session to come, and a run of one pass folds nothing.                     *)
PassesHeld ==
    /\ \A l \in Labels, c \in Calls : rows[l][c] # None =>
          /\ rows[l][c].session \in 1..run
          /\ at \in {"admission", "build"} => rows[l][c].session # run
    /\ \A a \in Arms : \A c, d \in Shown(a) :
          rows[<<a, 0>>][c].session = rows[<<a, 0>>][d].session =>
              (rows[<<a, 0>>][c].passes >= 2 <=> rows[<<a, 0>>][d].passes >= 2)
    /\ at # "idle" /\ opt.reps = 1 =>
          \A a \in Arms : \A c \in Shown(a) :
              rows[<<a, 0>>][c].session = run => rows[<<a, 0>>][c].passes = 1

(* Before its binary is built a run has none of its own.                     *)
Unbuilt == {"idle", "admission", "build"}

(* What says of which build a session's rows are: the rows of one session,   *)
(* and every run.json.                                                       *)
OneSession(l, c) == rows[l][c] # None /\ rows[l][c].sessions = {rows[l][c].session}
SmLabels == {"sm"} \X (0..MaxReps)
RowEvidence(l) ==
    {<<rows[l][c].session, rows[l][c].bins>> : c \in {d \in Calls : OneSession(l, d)}}
Evidence ==
    (UNION {RowEvidence(l) : l \in SmLabels})
    \cup {<<meta[l].session, {meta[l].commit}>> : l \in {m \in Labels : meta[m] # None}}

(* A session has one build; the present one's is the binary of this run, and *)
(* there is none of it before the build.                                     *)
BuildHeld ==
    /\ at \notin Unbuilt => bin = head
    /\ \A e \in Evidence :
          /\ e[1] \in 1..run
          /\ at \in {"admission", "build"} => e[1] # run
          /\ at \notin Unbuilt /\ e[1] = run => e[2] = {bin}
    /\ \A e, f \in Evidence : e[1] = f[1] => e[2] = f[2]
    /\ conf["sm"] # None => conf["sm"].bins = {conf["sm"].commit}

ReadmeHeld == PublishedIsFit /\ LicensedWithinSession

RunInv ==
    /\ TypeOK /\ RestTyped /\ EnginesHeld /\ StoresHeld /\ RowsHeld /\ PassesHeld
    /\ BuildHeld /\ ReadmeHeld

-----------------------------------------------------------------------------
(* Which phases a step leads from and to, and what it may write.             *)

(* Rows, run.json, read-back, differ's verdict and README.md are written by  *)
(* five steps only.                                                          *)
LEMMA FilesMove ==
    ASSUME Next, ~ MeasureSm, ~ MeasureQd, ~ Fold, ~ Differ, ~ Render
    PROVE  UNCHANGED Files
PROOF
  BY DEF Next, Main, Files, StartRun, Admit, AskAgain, Refuse, Build, StartSm, FinishSm,
         StartQd, FinishQd, ConfSm, ConfQd, FinishConf, Placement, Prune, CtrlC, Killed,
         Commit, FreePorts

(* The run's number and command line change when it starts, the commit       *)
(* between runs, the binary in the build.                                    *)
LEMMA RunMoves ==
    ASSUME Next
    PROVE  /\ StartRun \/ UNCHANGED Run
           /\ Commit \/ UNCHANGED head
           /\ Build \/ UNCHANGED bin
PROOF
  BY DEF Next, Main, Tree, Run, StartRun, Admit, AskAgain, Refuse, Build, StartSm, FinishSm,
         MeasureSm, MeasureQd, Fold, Differ, Render,
         StartQd, FinishQd, ConfSm, ConfQd, FinishConf, Placement, Prune, CtrlC, Killed,
         Commit, FreePorts

(* The build lies between the admission and everything else.                 *)
LEMMA PhaseMoves ==
    ASSUME Next, ~ StartRun, ~ Commit, ~ Build
    PROVE  \/ at' = "idle"
           \/ at = "admission" /\ at' \in {"admission", "build"}
           \/ at \notin Unbuilt /\ at' \notin Unbuilt
PROOF
  <1> USE DEF Unbuilt, Return
  <1>a. ASSUME EndPass PROVE at' \in {"startSm", "startQd", "fold"}
    BY <1>a DEF EndPass, PassStart
  <1>1. CASE Admit \/ AskAgain \/ Refuse
    BY <1>1 DEF Admit, AskAgain, Refuse
  <1>2. CASE StartSm \/ StartQd
    BY <1>2 DEF StartSm, StartQd
  <1>3. CASE MeasureSm \/ MeasureQd
    BY <1>3 DEF MeasureSm, MeasureQd, NextCall
  <1>4. CASE FinishSm \/ FinishQd
    BY <1>4, <1>a DEF FinishSm, FinishQd
  <1>5. CASE Fold \/ Placement \/ Render \/ Prune
    BY <1>5 DEF Fold, Placement, Render, Prune
  <1>6. CASE ConfSm \/ ConfQd \/ Differ \/ FinishConf
    BY <1>6 DEF ConfSm, ConfQd, Differ, FinishConf
  <1>7. CASE CtrlC \/ Killed
    BY <1>7 DEF CtrlC, Killed
  <1>8. CASE FreePorts
    BY <1>8 DEF FreePorts
  <1> QED BY <1>1, <1>2, <1>3, <1>4, <1>5, <1>6, <1>7, <1>8 DEF Next, Main

-----------------------------------------------------------------------------
(* Types.                                                                    *)

ControlTyped ==
    /\ run \in 0..MaxRuns /\ opt \in Options \cup {NoOption}
    /\ at \in Phases /\ rep \in 0..MaxReps /\ asks \in 0..MaxAsks
    /\ head \in {1, 2} /\ bin \in 0..2
    /\ call \in Calls /\ (call # 1 => at \in {"measureSm", "measureQd"})
    /\ rc \in {0, 1} /\ faults \in 0..MaxFaults
    /\ at # "idle" => opt \in Options /\ run \in 1..MaxRuns /\ rep \in 1..MaxReps

FilesTyped ==
    /\ rows \in [Labels -> RowFiles] /\ back \in [Labels -> [Calls -> Readbacks]]
    /\ written \subseteq Labels /\ \A l \in Labels : HasRows(l) => l \in written
    /\ meta \in [Labels -> MetaFiles] /\ conf \in [Arms -> ConfFiles]

EnginesTyped ==
    /\ live \subseteq [eng : Kinds, port : {ArmPort, ConfPort}, run : 0..MaxRuns, bin : 0..2]
    /\ disk \in [Stores -> {"empty", "used"}]

LEMMA TypesSplit ==
    TypeOK /\ RestTyped <=> ControlTyped /\ FilesTyped /\ EnginesTyped
PROOF
  BY DEF TypeOK, RestTyped, ControlTyped, FilesTyped, EnginesTyped

(* What a command line may be.                                               *)
LEMMA CommandLine ==
    ASSUME NEW o \in Options
    PROVE  o.reps \in 1..MaxReps /\ o.qdrant \in {"native", "container"}
PROOF
  <1>1. o \in [skip : SUBSET {"strawmann", "qdrant", "conformance"}, reps : 1..MaxReps,
               qdrant : {"native", "container"}, lax : BOOLEAN]
    BY OptionsAssumption
  <1> QED BY <1>1

LEMMA OptTyped ==
    ASSUME ControlTyped
    PROVE  /\ opt.reps \in 0..MaxReps /\ opt.qdrant \in {"native", "container"}
           /\ at # "idle" => opt.reps \in 1..MaxReps
PROOF
  <1>1. NoOption.reps = 0 /\ NoOption.qdrant = "native"
    BY DEF NoOption
  <1>2. CASE opt \in Options
    BY <1>2, CommandLine, BoundsAssumption
  <1>3. CASE opt = NoOption /\ opt \notin Options
    BY <1>1, <1>3, BoundsAssumption DEF ControlTyped
  <1> QED BY <1>2, <1>3 DEF ControlTyped

LEMMA ControlStep ==
    ASSUME ControlTyped, Next
    PROVE  ControlTyped'
PROOF
  <1> USE BoundsAssumption
      DEF ControlTyped, Phases, Faults, Fault, Return, Files, Tree, Run
  <1>a. /\ opt.reps \in 0..MaxReps
        /\ at # "idle" => opt.reps \in 1..MaxReps
    BY OptTyped
  <1>b. PassStart \in {"startSm", "startQd", "fold"}
    BY DEF PassStart
  <1>c. ASSUME EndPass, at # "idle"
        PROVE  at' \in {"startSm", "startQd", "fold"} /\ rep' \in 1..MaxReps
    BY <1>a, <1>b, <1>c DEF EndPass
  <1>d. /\ 1 \in Calls
        /\ call < Invocations => call + 1 \in Calls
    BY DEF Calls
  <1>1. CASE StartRun
    <2>1. 1 \in 1..MaxReps
      BY <1>1, CommandLine DEF StartRun
    <2> QED BY <1>1, <2>1 DEF StartRun
  <1>2. CASE Admit
    BY <1>2 DEF Admit
  <1>3. CASE AskAgain \/ Refuse
    BY <1>3 DEF AskAgain, Refuse
  <1>4. CASE Build
    BY <1>4, <1>b DEF Build
  <1>5. CASE StartSm
    BY <1>5 DEF StartSm
  <1>6. CASE StartQd
    BY <1>6 DEF StartQd
  <1>7. CASE MeasureSm
    BY <1>7, <1>d DEF MeasureSm, Measure, NextCall
  <1>8. CASE MeasureQd
    BY <1>8, <1>d DEF MeasureQd, Measure, NextCall
  <1>9. CASE FinishSm
    BY <1>9, <1>c DEF FinishSm
  <1>10. CASE FinishQd
    BY <1>10, <1>c DEF FinishQd
  <1>11. CASE Fold
    BY <1>11 DEF Fold
  <1>12. CASE ConfSm
    BY <1>12 DEF ConfSm
  <1>13. CASE ConfQd
    BY <1>13 DEF ConfQd
  <1>14. CASE Differ
    BY <1>14 DEF Differ
  <1>15. CASE FinishConf
    BY <1>15 DEF FinishConf
  <1>16. CASE Placement
    BY <1>16 DEF Placement
  <1>17. CASE Render
    BY <1>17 DEF Render
  <1>18. CASE Prune
    BY <1>18 DEF Prune
  <1>19. CASE CtrlC
    BY <1>19, <1>d DEF CtrlC
  <1>20. CASE Killed
    BY <1>20, <1>d DEF Killed
  <1>21. CASE Commit \/ FreePorts
    BY <1>21 DEF Commit, FreePorts
  <1> QED
    BY <1>1, <1>2, <1>3, <1>4, <1>5, <1>6, <1>7, <1>8, <1>9, <1>10, <1>11, <1>12, <1>13,
       <1>14, <1>15, <1>16, <1>17, <1>18, <1>19, <1>20, <1>21 DEF Next, Main

(* A measured row.                                                           *)
LEMMA MeasuredTyped ==
    ASSUME ControlTyped, at # "idle", NEW arm \in Arms, NEW clean \in BOOLEAN
    PROVE  /\ Measured(arm, clean) \in Rows /\ RunRecord \in MetaFiles
           /\ Measured(arm, clean) # None
PROOF
  <1>0. opt.reps \in 1..MaxReps
    BY OptTyped
  <1>1. run \in 1..MaxRuns /\ 1 \in 1..MaxReps /\ head \in {1, 2} /\ bin \in 0..2
    BY <1>0, BoundsAssumption DEF ControlTyped
  <1>2. RunRecord \in MetaFiles
    BY <1>1 DEF RunRecord, MetaFiles
  <1>3. Measured(arm, clean) \in Rows
    BY <1>1 DEF Measured, Rows
  <1>4. Measured(arm, clean) # None
    BY <1>1 DEF Measured, None
  <1> QED BY <1>2, <1>3, <1>4

(* A pass that has the row.                                                  *)
LEMMA PassTyped ==
    ASSUME ControlTyped, FilesTyped, at # "idle", NEW arm \in Arms, NEW c \in Calls,
           None \notin Passes(arm, c), NEW p \in Passes(arm, c)
    PROVE  /\ p \in Rows
           /\ \E i \in 1..opt.reps : <<arm, i>> \in Labels /\ p = rows[<<arm, i>>][c]
PROOF
  <1>1. opt.reps \in 1..MaxReps
    BY OptTyped
  <1>2. PICK i \in 1..opt.reps : p = rows[<<arm, i>>][c]
    BY DEF Passes
  <1>3. <<arm, i>> \in Labels
    BY <1>1, BoundsAssumption DEF Labels
  <1>4. p # None /\ p \in {None} \cup Rows
    BY <1>2, <1>3 DEF FilesTyped, RowFiles
  <1> QED BY <1>2, <1>3, <1>4

(* The first is one.                                                         *)
LEMMA FirstPass ==
    ASSUME ControlTyped, at # "idle", NEW arm \in Arms
    PROVE  /\ \A c \in Calls : rows[<<arm, 1>>][c] \in Passes(arm, c)
           /\ <<arm, 1>> \in Labels
PROOF
  <1>1. opt.reps \in 1..MaxReps
    BY OptTyped
  <1> QED BY <1>1, BoundsAssumption DEF Passes, Labels

(* A folded row.                                                             *)
LEMMA FoldOfTyped ==
    ASSUME ControlTyped, FilesTyped, at # "idle", NEW arm \in Arms, NEW c \in Calls,
           None \notin Passes(arm, c), NEW clean \in BOOLEAN
    PROVE  FoldOf(arm, c, clean) \in Rows /\ FoldOf(arm, c, clean) # None
PROOF
  <1>1. opt.reps \in 1..MaxReps
    BY OptTyped
  <1>2. \A p \in Passes(arm, c) : p \in Rows
    BY PassTyped
  <1>3. rows[<<arm, 1>>][c].session \in 1..MaxRuns /\ rows[<<arm, 1>>][c].build \in 0..2
    BY <1>2, FirstPass DEF Rows
  <1>4. /\ UNION {p.cleans : p \in Passes(arm, c)} \in SUBSET BOOLEAN
        /\ UNION {p.bins : p \in Passes(arm, c)} \in SUBSET (0..2)
        /\ UNION {p.sessions : p \in Passes(arm, c)} \in SUBSET (1..MaxRuns)
    BY <1>2 DEF Rows
  <1>5. FoldOf(arm, c, clean) \in Rows
    BY <1>1, <1>3, <1>4 DEF FoldOf, Rows
  <1>6. FoldOf(arm, c, clean) # None
    BY <1>5 DEF Rows, None
  <1> QED BY <1>5, <1>6

(* What a fold's row of a call is: none, or the fold of its passes.          *)
LEMMA FoldedIs ==
    ASSUME NEW arm, NEW c \in Calls, NEW clean \in BOOLEAN,
           clean <=> \A p \in Passes(arm, c) : p.clean
    PROVE  Folded(arm)[c] = IF None \in Passes(arm, c) THEN None ELSE FoldOf(arm, c, clean)
PROOF
  <1>1. clean = (\A p \in Passes(arm, c) : p.clean)
    OBVIOUS
  <1> QED BY <1>1 DEF Folded

LEMMA FoldedTyped ==
    ASSUME ControlTyped, FilesTyped, at # "idle", NEW arm \in Arms
    PROVE  Folded(arm) \in RowFiles
PROOF
  <1>1. ASSUME NEW c \in Calls PROVE Folded(arm)[c] \in {None} \cup Rows
    <2>1. PICK clean \in BOOLEAN : clean <=> \A p \in Passes(arm, c) : p.clean
      OBVIOUS
    <2> QED BY <2>1, FoldedIs, FoldOfTyped
  <1>2. Folded(arm) = [c \in Calls |-> Folded(arm)[c]]
    BY DEF Folded
  <1> QED BY <1>1, <1>2 DEF RowFiles

LEMMA FilesStep ==
    ASSUME ControlTyped, FilesTyped, EnginesTyped, Next
    PROVE  FilesTyped'
PROOF
  <1>1. ASSUME NEW arm \in Arms, at # "idle", Measure(arm), UNCHANGED conf
        PROVE  FilesTyped'
    <2>1. LabelOf(arm) \in Labels /\ call \in Calls
      BY BoundsAssumption DEF LabelOf, Labels, ControlTyped
    <2>2. \A clean \in BOOLEAN : Measured(arm, clean) \in Rows
      BY <1>1, MeasuredTyped
    <2>3. RunRecord \in MetaFiles
      BY <1>1, MeasuredTyped
    <2>4. PICK result \in {"clean", "dirty", "died", "refused"}, seen \in Readbacks :
            /\ \/ UNCHANGED <<rows, written>>
               \/ /\ rows' = [rows EXCEPT ![LabelOf(arm)][call] =
                                     Measured(arm, result = "clean")]
                  /\ written' = written \cup {LabelOf(arm)}
            /\ meta' = IF result = "refused" THEN meta
                       ELSE [meta EXCEPT ![LabelOf(arm)] = RunRecord]
            /\ back' = IF seen = "none" THEN back
                       ELSE [back EXCEPT ![LabelOf(arm)][call] = seen]
      BY <1>1 DEF Measure
    <2>5. /\ rows' \in [Labels -> RowFiles] /\ written' \subseteq Labels
          /\ \A l \in Labels : HasRows(l)' => l \in written'
      <3>1. CASE UNCHANGED <<rows, written>>
        BY <3>1 DEF FilesTyped, HasRows
      <3>2. ASSUME rows' = [rows EXCEPT ![LabelOf(arm)][call] =
                                     Measured(arm, result = "clean")],
                   written' = written \cup {LabelOf(arm)}
            PROVE  /\ rows' \in [Labels -> RowFiles] /\ written' \subseteq Labels
                   /\ \A l \in Labels : HasRows(l)' => l \in written'
        <4>1. Measured(arm, result = "clean") \in Rows
          BY <2>2
        <4>2. rows' \in [Labels -> RowFiles]
          BY <2>1, <3>2, <4>1 DEF FilesTyped, RowFiles
        <4>3. \A l \in Labels : l # LabelOf(arm) => rows'[l] = rows[l]
          BY <3>2 DEF FilesTyped
        <4> QED BY <2>1, <3>2, <4>2, <4>3 DEF FilesTyped, HasRows
      <3> QED BY <2>4, <3>1, <3>2
    <2>6. meta' \in [Labels -> MetaFiles]
      BY <2>1, <2>3, <2>4 DEF FilesTyped
    <2>7. back' \in [Labels -> [Calls -> Readbacks]]
      BY <2>1, <2>4 DEF FilesTyped
    <2> QED BY <1>1, <2>5, <2>6, <2>7 DEF FilesTyped
  <1>2. CASE MeasureSm \/ MeasureQd
    BY <1>1, <1>2 DEF MeasureSm, MeasureQd, Arms
  <1>3. CASE Fold
    <2> DEFINE done == {a \in ToFold : Foldable(a)}
    <2>1. done \subseteq Arms /\ at # "idle"
      BY <1>3 DEF ToFold, Fold
    <2>2. \A a \in done : Folded(a) \in RowFiles /\ <<a, 1>> \in Labels
      BY <2>1, FoldedTyped, FirstPass
    <2>3. \A l \in Labels : l[1] \in done => <<l[1], 1>> \in Labels
      BY <2>2
    <2>4. rows' \in [Labels -> RowFiles]
      BY <1>3, <2>2 DEF Fold, FilesTyped
    <2>5. meta' \in [Labels -> MetaFiles]
      BY <1>3, <2>3 DEF Fold, FilesTyped
    <2>6. back' \in [Labels -> [Calls -> Readbacks]]
      BY <1>3, <2>3 DEF Fold, FilesTyped
    <2>7. written' = written \cup (done \X {0})
      BY <1>3 DEF Fold
    <2>8. written' \subseteq Labels
      BY <2>1, <2>7, BoundsAssumption DEF FilesTyped, Labels
    <2>9. ASSUME NEW l \in Labels, HasRows(l)' PROVE l \in written'
      <3>1. CASE l[1] \in done /\ l[2] = 0
        <4>1. l = <<l[1], l[2]>>
          BY DEF Labels
        <4> QED BY <2>7, <3>1, <4>1
      <3>2. CASE ~ (l[1] \in done /\ l[2] = 0)
        <4>1. rows'[l] = rows[l]
          BY <1>3, <3>2 DEF Fold
        <4> QED BY <2>7, <2>9, <4>1 DEF FilesTyped, HasRows
      <3> QED BY <3>1, <3>2
    <2> QED BY <1>3, <2>4, <2>5, <2>6, <2>8, <2>9 DEF Fold, FilesTyped
  <1>4. CASE Differ
    <2>1. PICK found \in {"comparative", "perf", "neither", "died"} :
            conf' = [a \in Arms |->
                      IF found # "died" /\ (a = "sm" \/ found \in {"comparative", "perf"})
                      THEN [session |-> run, perf |-> found \in {"comparative", "perf"},
                            comparative |-> found = "comparative", commit |-> head,
                            bins |-> {p.bin : p \in Serving(ConfPort)}]
                      ELSE conf[a]]
      BY <1>4 DEF Differ
    <2>2. {p.bin : p \in Serving(ConfPort)} \in SUBSET (0..2)
      BY DEF Serving, EnginesTyped
    <2>3. run \in 1..MaxRuns /\ head \in {1, 2}
      BY <1>4 DEF Differ, ControlTyped
    <2>4. [session |-> run, perf |-> found \in {"comparative", "perf"},
           comparative |-> found = "comparative", commit |-> head,
           bins |-> {p.bin : p \in Serving(ConfPort)}] \in ConfFiles
      BY <2>2, <2>3 DEF ConfFiles
    <2>5. conf' \in [Arms -> ConfFiles]
      BY <2>1, <2>4 DEF FilesTyped
    <2> QED BY <1>4, <2>5 DEF Differ, FilesTyped, HasRows
  <1>5. CASE Render
    BY <1>5 DEF Render, FilesTyped, HasRows
  <1>6. CASE UNCHANGED Files
    BY <1>6 DEF Files, FilesTyped, HasRows
  <1> QED BY <1>2, <1>3, <1>4, <1>5, <1>6, FilesMove

-----------------------------------------------------------------------------
(* The engines.                                                              *)

(* What the stops leave of an arm's own engines.                             *)
LEMMA StopsReach ==
    ASSUME ControlTyped
    PROVE  /\ AfterStopScope("sm", AfterStopStrawmann(run, {})) = {}
           /\ \A port : AfterStopScope("sm", AfterStopStrawmann(run, {Strawmann(port)})) = {}
           /\ AfterStopQdrant(run, {Qdrant}) = {} /\ AfterStopQdrant(run, {}) = {}
           /\ \A procs : procs \subseteq {Strawmann(ConfPort), Qdrant} =>
                 AfterStopQdrant(run, AfterStopStrawmann(run, procs)) = {}
PROOF
  <1>1. Qdrant.eng \in {"native", "container"} /\ Qdrant.run = run
    BY OptTyped DEF Qdrant
  <1>2. \A port : Strawmann(port).eng = "sm" /\ Strawmann(port).run = run
    BY DEF Strawmann
  <1> QED BY <1>1, <1>2 DEF AfterStopScope, AfterStopStrawmann, AfterStopQdrant

(* Qdrant starts beside nothing, or beside the differ's strawmANN.           *)
LEMMA QdrantStarts ==
    ASSUME ControlTyped, NEW works \in BOOLEAN, NEW answers \in BOOLEAN,
           live \in {{}, {Strawmann(ConfPort)}},
           StartQdrant(opt.qdrant, run, works, answers)
    PROVE  /\ ~ PortHeld(opt.qdrant, run)
           /\ QdrantMayStart(opt.qdrant, run, works) <=> works
           /\ live' = live \cup (IF works /\ answers THEN {Qdrant} ELSE {})
           /\ disk' = IF works /\ answers THEN [disk EXCEPT !["qd"] = "used"]
                      ELSE Wiped("qd", works)
PROOF
  <1>1. opt.qdrant \in {"native", "container"}
    BY OptTyped
  <1>2. Strawmann(ConfPort).eng = "sm" /\ Strawmann(ConfPort).port = 6344
    BY DEF Strawmann, ConfPort
  <1>3. Others(opt.qdrant, run) = live
    BY <1>1, <1>2 DEF Others, AfterStopScope, AfterStopQdrant
  <1>4. ~ PortHeld(opt.qdrant, run)
    BY <1>2, <1>3 DEF PortHeld, ArmPort
  <1>5. QdrantMayStart(opt.qdrant, run, works) <=> works
    BY <1>4 DEF QdrantMayStart
  <1> QED BY <1>3, <1>4, <1>5 DEF StartQdrant, Qdrant

(* So strawmANN does.                                                        *)
LEMMA StrawmannStarts ==
    ASSUME live = {}, NEW up \in BOOLEAN, NEW port, StartStrawmann(port, run, bin, up)
    PROVE  live' = IF up THEN {Strawmann(port)} ELSE {}
PROOF
  BY DEF StartStrawmann, AfterStopScope, Strawmann

LEMMA EnginesStep ==
    ASSUME ControlTyped, EnginesTyped, EnginesHeld, Next
    PROVE  EnginesHeld'
PROOF
  <1> USE DEF EnginesHeld
  <1>a. ASSUME EndPass PROVE at' \in {"startSm", "startQd", "fold"}
    BY <1>a DEF EndPass, PassStart
  <1>1. CASE StartRun
    BY <1>1 DEF StartRun
  <1>2. CASE Admit
    <2>1. WithoutContainer = {}
      BY <1>2 DEF Admit, PortsInUse, WithoutContainer, EnginesTyped
    <2> QED BY <1>2, <2>1 DEF Admit
  <1>3. CASE AskAgain \/ Refuse
    BY <1>3 DEF AskAgain, Refuse, Return, WithoutContainer
  <1>4. CASE Build
    BY <1>4 DEF Build, PassStart, Return, Files
  <1>5. CASE StartSm
    <2>1. PICK up \in BOOLEAN :
            /\ StartStrawmann(ArmPort, run, bin, up)
            /\ at' = IF up THEN "measureSm" ELSE "idle"
      BY <1>5 DEF StartSm, Return
    <2>2. live' = IF up THEN {Strawmann(ArmPort)} ELSE {}
      BY <1>5, <2>1, StrawmannStarts DEF StartSm
    <2> QED BY <1>5, <2>1, <2>2 DEF StartSm, Run, Tree, Strawmann
  <1>6. CASE StartQd
    <2>1. PICK works \in BOOLEAN, answers \in BOOLEAN :
            /\ StartQdrant(opt.qdrant, run, works, answers)
            /\ at' = IF answers /\ QdrantMayStart(opt.qdrant, run, works)
                     THEN "measureQd" ELSE "idle"
      BY <1>6 DEF StartQd, Return
    <2>2. /\ live' = IF works /\ answers THEN {Qdrant} ELSE {}
          /\ at' = IF answers /\ works THEN "measureQd" ELSE "idle"
      BY <1>6, <2>1, QdrantStarts DEF StartQd
    <2> QED BY <1>6, <2>2 DEF StartQd, Run, Tree, Qdrant
  <1>7. CASE MeasureSm \/ MeasureQd
    BY <1>7 DEF MeasureSm, MeasureQd, NextCall, Run, Tree, Strawmann, Qdrant
  <1>8. CASE FinishSm
    <2>1. at = "finishSm" /\ at' \in {"idle", "startSm", "startQd", "fold"}
      BY <1>8, <1>a DEF FinishSm, Return
    <2>2. live' = {}
      BY <1>8, <2>1, StopsReach DEF FinishSm, FinishStrawmannArm
    <2> QED BY <2>1, <2>2
  <1>9. CASE FinishQd
    <2>1. at = "finishQd" /\ at' \in {"idle", "startSm", "startQd", "fold"}
      BY <1>9, <1>a DEF FinishQd, Return
    <2>2. live' = {}
      BY <1>9, <2>1, StopsReach DEF FinishQd, FinishQdrantArm
    <2> QED BY <2>1, <2>2
  <1>10. CASE Fold \/ Placement \/ Render \/ Prune
    BY <1>10 DEF Fold, Placement, Render, Prune, Return
  <1>11. CASE ConfSm
    <2>1. PICK up \in BOOLEAN :
            /\ StartStrawmann(ConfPort, run, bin, up)
            /\ at' = IF up THEN "confQd" ELSE "idle"
      BY <1>11 DEF ConfSm, Return
    <2>2. live' = IF up THEN {Strawmann(ConfPort)} ELSE {}
      BY <1>11, <2>1, StrawmannStarts DEF ConfSm
    <2> QED BY <1>11, <2>1, <2>2 DEF ConfSm, Run, Tree, Strawmann
  <1>12. CASE ConfQd
    <2>1. PICK works \in BOOLEAN, answers \in BOOLEAN :
            /\ StartQdrant(opt.qdrant, run, works, answers)
            /\ at' = IF answers /\ QdrantMayStart(opt.qdrant, run, works)
                     THEN "differ" ELSE "finishConf"
      BY <1>12 DEF ConfQd
    <2>2. live = {Strawmann(ConfPort)}
      BY <1>12 DEF ConfQd
    <2>3. /\ live' = live \cup (IF works /\ answers THEN {Qdrant} ELSE {})
          /\ at' = IF answers /\ works THEN "differ" ELSE "finishConf"
      BY <2>1, <2>2, QdrantStarts
    <2>4. UNCHANGED <<run, opt, bin>>
      BY <1>12 DEF ConfQd, Run, Tree
    <2>5. Strawmann(ConfPort)' = Strawmann(ConfPort) /\ Qdrant' = Qdrant
      BY <2>4 DEF Strawmann, Qdrant
    <2>6. CASE answers /\ works
      BY <2>2, <2>3, <2>5, <2>6
    <2>7. CASE ~ (answers /\ works)
      BY <2>2, <2>3, <2>5, <2>7
    <2> QED BY <2>6, <2>7
  <1>13. CASE Differ
    <2>1. at = "differ" /\ at' = "finishConf" /\ UNCHANGED <<run, opt, bin, live>>
      BY <1>13 DEF Differ, Run, Tree
    <2>2. Strawmann(ConfPort)' = Strawmann(ConfPort) /\ Qdrant' = Qdrant
      BY <2>1 DEF Strawmann, Qdrant
    <2> QED BY <2>1, <2>2
  <1>14. CASE FinishConf
    <2>1. at = "finishConf" /\ at' \in {"idle", "placement"}
      BY <1>14 DEF FinishConf, Return
    <2>2. live' = {}
      BY <1>14, <2>1, StopsReach DEF FinishConf, FinishConformance
    <2> QED BY <2>1, <2>2
  <1>15. CASE CtrlC
    <2>1. UNCHANGED <<run, opt, bin, live>>
      BY <1>15 DEF CtrlC, Run, Tree
    <2>2. /\ \A port : Strawmann(port)' = Strawmann(port)
          /\ Qdrant' = Qdrant
      BY <2>1 DEF Strawmann, Qdrant
    <2> QED BY <1>15, <2>1, <2>2 DEF CtrlC
  <1>16. CASE Killed
    BY <1>16 DEF Killed, Return
  <1>17. CASE Commit
    BY <1>17 DEF Commit
  <1>18. CASE FreePorts
    BY <1>18 DEF FreePorts
  <1> QED
    BY <1>1, <1>2, <1>3, <1>4, <1>5, <1>6, <1>7, <1>8, <1>9, <1>10, <1>11, <1>12, <1>13,
       <1>14, <1>15, <1>16, <1>17, <1>18 DEF Next, Main

(* No step starts anything else.                                             *)
LEMMA EnginesTypedStep ==
    ASSUME ControlTyped, EnginesTyped, EnginesHeld, Next
    PROVE  EnginesTyped'
PROOF
  <1> DEFINE Procs == [eng : Kinds, port : {ArmPort, ConfPort}, run : 0..MaxRuns, bin : 0..2]
  <1>1. /\ Strawmann(ArmPort) \in Procs /\ Strawmann(ConfPort) \in Procs
        /\ Qdrant \in Procs
    BY OptTyped DEF Strawmann, Qdrant, Kinds, ControlTyped
  <1>2. live' \subseteq live \cup {Strawmann(ArmPort), Strawmann(ConfPort), Qdrant}
    <2>1. CASE StartSm
      <3>1. PICK up \in BOOLEAN : StartStrawmann(ArmPort, run, bin, up)
        BY <2>1 DEF StartSm
      <3> QED BY <2>1, <3>1, StrawmannStarts DEF StartSm, EnginesHeld
    <2>2. CASE ConfSm
      <3>1. PICK up \in BOOLEAN : StartStrawmann(ConfPort, run, bin, up)
        BY <2>2 DEF ConfSm
      <3> QED BY <2>2, <3>1, StrawmannStarts DEF ConfSm, EnginesHeld
    <2>3. CASE StartQd \/ ConfQd
      <3>1. PICK works \in BOOLEAN, answers \in BOOLEAN :
              StartQdrant(opt.qdrant, run, works, answers)
        BY <2>3 DEF StartQd, ConfQd
      <3> QED BY <2>3, <3>1, QdrantStarts DEF StartQd, ConfQd, EnginesHeld
    <2>4. CASE UNCHANGED live
      BY <2>4
    <2>5. CASE Admit \/ AskAgain \/ Refuse
      BY <2>5 DEF Admit, AskAgain, Refuse, WithoutContainer
    <2>6. CASE FinishSm \/ FinishQd \/ FinishConf
      BY <2>6
      DEF FinishSm, FinishQd, FinishConf, FinishStrawmannArm, FinishQdrantArm,
          FinishConformance, AfterStopScope, AfterStopStrawmann, AfterStopQdrant
    <2>7. CASE Killed \/ FreePorts
      BY <2>7 DEF Killed, FreePorts
    <2> QED
      BY <2>1, <2>2, <2>3, <2>4, <2>5, <2>6, <2>7
      DEF Next, Main, StartRun, Build, MeasureSm, MeasureQd, Fold, Differ, Placement, Render,
          Prune, CtrlC, Commit
  <1>3. disk' \in [Stores -> {"empty", "used"}]
    <2> USE DEF EnginesTyped
    <2>1. \A store, works : Wiped(store, works) \in [Stores -> {"empty", "used"}]
      BY DEF Wiped
    <2>2. CASE StartSm \/ ConfSm
      BY <2>2 DEF StartSm, ConfSm, StartStrawmann
    <2>3. CASE StartQd \/ ConfQd
      BY <2>1, <2>3 DEF StartQd, ConfQd, StartQdrant
    <2>4. CASE UNCHANGED disk
      BY <2>4
    <2>5. CASE FinishSm \/ FinishQd
      BY <2>1, <2>5 DEF FinishSm, FinishQd, FinishStrawmannArm, FinishQdrantArm
    <2>6. CASE FinishConf
      BY <2>6 DEF FinishConf, FinishConformance
    <2> QED
      BY <2>2, <2>3, <2>4, <2>5, <2>6
      DEF Next, Main, StartRun, Build, MeasureSm, MeasureQd, Fold, Differ, Placement, Render,
          Prune, CtrlC, Commit, Admit, AskAgain, Refuse, Killed, FreePorts
  <1> QED BY <1>1, <1>2, <1>3 DEF EnginesTyped

(* A store that is in use is wiped by the finisher, or the wipe failed.      *)
LEMMA StoresStep ==
    ASSUME ControlTyped, EnginesTyped, EnginesHeld, StoresHeld, Next
    PROVE  StoresHeld'
PROOF
  <1> USE DEF StoresHeld, EnginesTyped, Stores
  <1>a. ASSUME EndPass PROVE at' \in {"startSm", "startQd", "fold"}
    BY <1>a DEF EndPass, PassStart
  <1> SUFFICES ASSUME ~unwiped', ~interrupted'
               PROVE  /\ at' \notin {"measureSm", "finishSm", "confQd", "differ",
                                     "finishConf"} => disk'["sm"] = "empty"
                      /\ at' \notin {"measureQd", "finishQd", "differ", "finishConf"} =>
                            disk'["qd"] = "empty"
    OBVIOUS
  <1>b. ASSUME UNCHANGED <<unwiped, interrupted>>
        PROVE  /\ at \notin {"measureSm", "finishSm", "confQd", "differ", "finishConf"} =>
                     disk["sm"] = "empty"
               /\ at \notin {"measureQd", "finishQd", "differ", "finishConf"} =>
                     disk["qd"] = "empty"
    BY <1>b
  <1>1. CASE StartRun \/ Admit \/ AskAgain \/ Refuse
    BY <1>1, <1>b DEF StartRun, Admit, AskAgain, Refuse, Return
  <1>2. CASE Build
    BY <1>2, <1>b DEF Build, PassStart, Return
  <1>3. CASE StartSm \/ ConfSm
    BY <1>3, <1>b DEF StartSm, ConfSm, StartStrawmann, Return
  <1>4. ASSUME StartQd \/ ConfQd,
               NEW works \in BOOLEAN, NEW answers \in BOOLEAN,
               StartQdrant(opt.qdrant, run, works, answers), unwiped' = (unwiped \/ ~works)
        PROVE  /\ works
               /\ disk'["sm"] = disk["sm"]
               /\ disk'["qd"] = IF answers THEN "used" ELSE "empty"
    <2>1. works
      BY <1>4
    <2>2. live \in {{}, {Strawmann(ConfPort)}}
      BY <1>4 DEF EnginesHeld, StartQd, ConfQd
    <2>3. disk' = IF works /\ answers THEN [disk EXCEPT !["qd"] = "used"]
                  ELSE Wiped("qd", works)
      BY <1>4, <2>2, QdrantStarts
    <2> QED BY <2>1, <2>3 DEF Wiped
  <1>5. CASE StartQd
    <2>1. PICK works \in BOOLEAN, answers \in BOOLEAN :
            /\ StartQdrant(opt.qdrant, run, works, answers)
            /\ unwiped' = (unwiped \/ ~works)
            /\ at' = IF answers /\ QdrantMayStart(opt.qdrant, run, works)
                     THEN "measureQd" ELSE "idle"
      BY <1>5 DEF StartQd, Return
    <2>2. ~unwiped /\ UNCHANGED interrupted /\ at = "startQd"
      BY <1>5, <2>1 DEF StartQd
    <2>3. /\ works /\ disk'["sm"] = disk["sm"]
          /\ disk'["qd"] = IF answers THEN "used" ELSE "empty"
      BY <1>4, <1>5, <2>1
    <2>4. disk["sm"] = "empty"
      BY <2>2
    <2>5. at' = IF answers THEN "measureQd" ELSE "idle"
      BY <1>5, <2>1, <2>3, QdrantStarts DEF EnginesHeld, StartQd
    <2> QED BY <2>3, <2>4, <2>5
  <1>6. CASE ConfQd
    <2>1. PICK works \in BOOLEAN, answers \in BOOLEAN :
            /\ StartQdrant(opt.qdrant, run, works, answers)
            /\ unwiped' = (unwiped \/ ~works)
            /\ at' \in {"differ", "finishConf"}
      BY <1>6 DEF ConfQd
    <2> QED BY <2>1
  <1>7. CASE MeasureSm \/ MeasureQd
    BY <1>7, <1>b DEF MeasureSm, MeasureQd, NextCall
  <1>8. CASE FinishSm
    <2>1. at = "finishSm" /\ at' \in {"idle", "startSm", "startQd", "fold"}
      BY <1>8, <1>a DEF FinishSm, Return
    <2>2. PICK works \in BOOLEAN : /\ FinishStrawmannArm(run, works)
                                  /\ unwiped' = (unwiped \/ ~works)
      BY <1>8 DEF FinishSm
    <2>3. works /\ ~unwiped /\ UNCHANGED interrupted
      BY <1>8, <2>2 DEF FinishSm
    <2>4. disk' = [disk EXCEPT !["sm"] = "empty"]
      BY <2>2, <2>3 DEF FinishStrawmannArm, Wiped
    <2> QED BY <2>1, <2>3, <2>4
  <1>9. CASE FinishQd
    <2>1. at = "finishQd" /\ at' \in {"idle", "startSm", "startQd", "fold"}
      BY <1>9, <1>a DEF FinishQd, Return
    <2>2. PICK works \in BOOLEAN : /\ FinishQdrantArm(run, works)
                                  /\ unwiped' = (unwiped \/ ~works)
      BY <1>9 DEF FinishQd
    <2>3. works /\ ~unwiped /\ UNCHANGED interrupted
      BY <1>9, <2>2 DEF FinishQd
    <2>4. disk' = [disk EXCEPT !["qd"] = "empty"]
      BY <2>2, <2>3 DEF FinishQdrantArm, Wiped
    <2> QED BY <2>1, <2>3, <2>4
  <1>10. CASE FinishConf
    <2>1. PICK works \in BOOLEAN : /\ FinishConformance(run, works)
                                  /\ unwiped' = (unwiped \/ ~works)
      BY <1>10 DEF FinishConf
    <2>2. works
      BY <2>1
    <2>3. disk' = [s \in Stores |-> "empty"]
      BY <2>1, <2>2 DEF FinishConformance
    <2> QED BY <2>3
  <1>11. CASE Fold \/ Differ \/ Placement \/ Render \/ Prune
    BY <1>11, <1>b DEF Fold, Differ, Placement, Render, Prune, Return
  <1>12. CASE CtrlC \/ Killed
    BY <1>12 DEF CtrlC, Killed
  <1>13. CASE Commit \/ FreePorts
    BY <1>13, <1>b DEF Commit, FreePorts
  <1> QED
    BY <1>1, <1>2, <1>3, <1>5, <1>6, <1>7, <1>8, <1>9, <1>10, <1>11, <1>12, <1>13
    DEF Next, Main

-----------------------------------------------------------------------------
(* The rows.                                                                 *)

(* A call changes the rows it measured, in the label it measured into.       *)
LEMMA MeasuredRow ==
    ASSUME ControlTyped, FilesTyped, NEW arm \in Arms, Measure(arm),
           NEW l \in Labels, NEW c \in Calls
    PROVE  \/ rows'[l][c] = rows[l][c]
           \/ /\ l = LabelOf(arm) /\ c = call
              /\ \E clean \in BOOLEAN : rows'[l][c] = Measured(arm, clean)
PROOF
  <1>1. PICK result \in {"clean", "dirty", "died", "refused"} :
          \/ rows' = rows
          \/ rows' = [rows EXCEPT ![LabelOf(arm)][call] = Measured(arm, result = "clean")]
    BY DEF Measure
  <1>2. (result = "clean") \in BOOLEAN
    OBVIOUS
  <1>3. ASSUME rows' = [rows EXCEPT ![LabelOf(arm)][call] = Measured(arm, result = "clean")]
        PROVE  IF l = LabelOf(arm) /\ c = call
               THEN rows'[l][c] = Measured(arm, result = "clean")
               ELSE rows'[l][c] = rows[l][c]
    BY <1>3 DEF FilesTyped, RowFiles
  <1> QED BY <1>1, <1>2, <1>3

(* A fold is clean when every pass was; a measured row is one pass.          *)
LEMMA RowsStep ==
    ASSUME ControlTyped, FilesTyped, RowsHeld, Next
    PROVE  RowsHeld'
PROOF
  <1> DEFINE Held(r) == r # None => /\ r.session \in r.sessions
                                    /\ r.cleans # {} /\ (r.cleans = {TRUE} <=> r.clean)
  <1>1. \A l \in Labels, c \in Calls : Held(rows[l][c])
    BY DEF RowsHeld
  <1>2. ASSUME NEW arm \in Arms, at # "idle", Measure(arm)
        PROVE  \A l \in Labels, c \in Calls : Held(rows'[l][c])
    <2>2. ASSUME NEW clean \in BOOLEAN PROVE Held(Measured(arm, clean))
      <3>1. Measured(arm, clean).session \in Measured(arm, clean).sessions
        BY DEF Measured
      <3>2. Measured(arm, clean).cleans = {clean} /\ Measured(arm, clean).clean = clean
        BY DEF Measured
      <3> QED BY <3>1, <3>2
    <2>3. ASSUME NEW l \in Labels, NEW c \in Calls
          PROVE  rows'[l][c] = rows[l][c]
                 \/ \E clean \in BOOLEAN : rows'[l][c] = Measured(arm, clean)
      BY <1>2, MeasuredRow
    <2> HIDE DEF Held
    <2> QED BY <1>1, <2>2, <2>3
  <1>3. ASSUME NEW arm \in Arms, at # "idle", NEW c \in Calls
        PROVE  Held(Folded(arm)[c])
    <2> SUFFICES ASSUME None \notin Passes(arm, c) PROVE Held(Folded(arm)[c])
      BY DEF Folded
    <2>0. PICK clean \in BOOLEAN : clean <=> \A p \in Passes(arm, c) : p.clean
      OBVIOUS
    <2> DEFINE r == FoldOf(arm, c, clean)
    <2>1. rows[<<arm, 1>>][c] \in Passes(arm, c)
      BY <1>3, FirstPass
    <2>2. ASSUME NEW p \in Passes(arm, c)
          PROVE  p.session \in p.sessions /\ (p.cleans = {TRUE} <=> p.clean)
                 /\ p.cleans \subseteq BOOLEAN /\ p.cleans # {}
      <3>1. PICK i \in 1..opt.reps : <<arm, i>> \in Labels /\ p = rows[<<arm, i>>][c]
        BY <1>3, PassTyped
      <3>2. p.cleans \subseteq BOOLEAN
        BY <1>3, PassTyped DEF Rows
      <3> QED BY <1>1, <3>1, <3>2
    <2>3. r.session \in r.sessions
      BY <2>1, <2>2 DEF FoldOf
    <2>4. r.cleans = UNION {p.cleans : p \in Passes(arm, c)} /\ r.clean = clean
      BY DEF FoldOf
    <2>5. r.cleans = {TRUE} <=> r.clean
      <3>1. \A p \in Passes(arm, c) : p.cleans = {TRUE} <=> p.clean
        BY <2>2
      <3>2. ASSUME UNION {p.cleans : p \in Passes(arm, c)} = {TRUE}
            PROVE  \A p \in Passes(arm, c) : p.cleans = {TRUE}
        <4>1. \A p \in Passes(arm, c) : p.cleans \subseteq {TRUE} /\ p.cleans # {}
          BY <2>2, <3>2
        <4> QED BY <4>1
      <3>3. ASSUME \A p \in Passes(arm, c) : p.cleans = {TRUE}
            PROVE  UNION {p.cleans : p \in Passes(arm, c)} = {TRUE}
        BY <2>1, <3>3
      <3> HIDE DEF r
      <3> QED BY <2>0, <2>4, <3>1, <3>2, <3>3
    <2>6. r.cleans # {}
      <3>1. rows[<<arm, 1>>][c].cleans # {}
        BY <2>1, <2>2
      <3> HIDE DEF r
      <3> QED BY <2>1, <2>4, <3>1
    <2>7. Folded(arm)[c] = r
      BY <2>0, FoldedIs
    <2> HIDE DEF r
    <2> QED BY <2>3, <2>5, <2>6, <2>7
  <1>4. CASE MeasureSm \/ MeasureQd
    BY <1>2, <1>4 DEF MeasureSm, MeasureQd, Arms, RowsHeld
  <1>5. CASE Fold
    <2>1. ASSUME NEW l \in Labels, NEW c \in Calls PROVE Held(rows'[l][c])
      <3>1. at # "idle" /\ ToFold \subseteq Arms
        BY <1>5 DEF Fold, ToFold
      <3>2. rows'[l] = rows[l] \/ \E a \in Arms : rows'[l] = Folded(a)
        BY <1>5, <3>1 DEF Fold
      <3>3. \A a \in Arms : Held(Folded(a)[c])
        BY <1>3, <3>1
      <3> HIDE DEF Held
      <3> QED BY <1>1, <3>2, <3>3
    <2> QED BY <2>1 DEF RowsHeld
  <1>6. CASE UNCHANGED rows
    BY <1>6 DEF RowsHeld
  <1> QED BY <1>4, <1>5, <1>6, FilesMove DEF Files, Differ, Render

(* No row is of a session to come, and a run that folds measures into other  *)
(* labels than those it publishes.                                           *)
LEMMA PassesStep ==
    ASSUME ControlTyped, FilesTyped, PassesHeld, Next
    PROVE  PassesHeld'
PROOF
  <1>0. run \in Nat /\ (at # "idle" => run \in 1..MaxRuns) /\ call \in Calls
    BY BoundsAssumption DEF ControlTyped
  <1>1. ASSUME NEW arm \in Arms, at \notin Unbuilt, at' \notin Unbuilt, Measure(arm),
               UNCHANGED <<run, opt>>
        PROVE  PassesHeld'
    <2> DEFINE new == \E clean \in BOOLEAN : rows'[LabelOf(arm)][call] = Measured(arm, clean)
    <2>1. opt.reps \in 1..MaxReps /\ rep \in 1..MaxReps /\ run \in 1..MaxRuns
      BY <1>1, OptTyped DEF Unbuilt, ControlTyped
    <2>2. LabelOf(arm) \in Labels
      BY BoundsAssumption DEF LabelOf, Labels, ControlTyped
    <2>3. \A l \in Labels, c \in Calls :
             rows'[l][c] # rows[l][c] =>
                /\ l = LabelOf(arm) /\ c = call
                /\ \E clean \in BOOLEAN : rows'[l][c] = Measured(arm, clean)
      BY <1>1, MeasuredRow
    <2>4. \A clean : Measured(arm, clean).session = run /\ Measured(arm, clean).passes = 1
      BY DEF Measured
    <2>5. \A l \in Labels, c \in Calls : rows'[l][c] # None => rows'[l][c].session \in 1..run
      BY <2>1, <2>3, <2>4 DEF PassesHeld
    <2>6. ASSUME NEW a \in Arms, NEW c \in Calls, rows'[<<a, 0>>][c] # rows[<<a, 0>>][c]
          PROVE  /\ opt.reps = 1
                 /\ rows'[<<a, 0>>][c].session = run /\ rows'[<<a, 0>>][c].passes = 1
      <3>1. <<a, 0>> \in Labels
        BY BoundsAssumption DEF Labels
      <3>2. <<a, 0>> = LabelOf(arm)
        BY <2>3, <2>6, <3>1
      <3>3. ~ (opt.reps > 1)
        BY <2>1, <3>2 DEF LabelOf
      <3> QED BY <2>1, <2>3, <2>4, <2>6, <3>1, <3>3
    <2>7. opt.reps = 1 =>
             \A a \in Arms, c \in Calls :
                rows'[<<a, 0>>][c] # None /\ rows'[<<a, 0>>][c].session = run =>
                    rows'[<<a, 0>>][c].passes = 1
      BY <1>1, <2>6 DEF PassesHeld, Shown, Unbuilt
    <2>8. ASSUME NEW a \in Arms, NEW c \in Calls, NEW d \in Calls,
                 rows'[<<a, 0>>][c] # None, rows'[<<a, 0>>][d] # None,
                 rows'[<<a, 0>>][c].session = rows'[<<a, 0>>][d].session
          PROVE  rows'[<<a, 0>>][c].passes >= 2 <=> rows'[<<a, 0>>][d].passes >= 2
      <3>1. CASE rows'[<<a, 0>>][c] = rows[<<a, 0>>][c] /\ rows'[<<a, 0>>][d] = rows[<<a, 0>>][d]
        BY <2>8, <3>1 DEF PassesHeld, Shown
      <3>2. CASE \/ rows'[<<a, 0>>][c] # rows[<<a, 0>>][c]
                 \/ rows'[<<a, 0>>][d] # rows[<<a, 0>>][d]
        <4>1. opt.reps = 1 /\ rows'[<<a, 0>>][c].session = run
          BY <2>6, <2>8, <3>2
        <4>2. rows'[<<a, 0>>][c].passes = 1 /\ rows'[<<a, 0>>][d].passes = 1
          BY <2>7, <2>8, <4>1
        <4> QED BY <4>2
      <3> QED BY <3>1, <3>2
    <2> QED BY <1>1, <2>5, <2>7, <2>8 DEF PassesHeld, Shown, Unbuilt
  <1>2. CASE MeasureSm \/ MeasureQd
    BY <1>1, <1>2 DEF MeasureSm, MeasureQd, NextCall, Arms, Run, Unbuilt
  <1>3. CASE Fold
    <2> DEFINE done == {a \in ToFold : Foldable(a)}
    <2>1. /\ at = "fold" /\ at' \in {"placement", "confSm"} /\ UNCHANGED <<run, opt>>
          /\ opt.reps \in 1..MaxReps
      BY <1>3, OptTyped DEF Fold, Run
    <2>2. rows' = [l \in Labels |-> IF l[1] \in done /\ l[2] = 0 THEN Folded(l[1]) ELSE rows[l]]
      BY <1>3 DEF Fold
    <2>3. done \subseteq Arms /\ (opt.reps = 1 => done = {})
      BY DEF ToFold
    <2>4. ASSUME NEW a \in Arms, NEW c \in Calls, Folded(a)[c] # None
          PROVE  Folded(a)[c].passes = opt.reps /\ Folded(a)[c].session \in 1..run
      <3>1. PICK clean \in BOOLEAN : clean <=> \A p \in Passes(a, c) : p.clean
        OBVIOUS
      <3>2. None \notin Passes(a, c) /\ Folded(a)[c] = FoldOf(a, c, clean)
        BY <2>4, <3>1, FoldedIs
      <3>3. rows[<<a, 1>>][c] # None /\ <<a, 1>> \in Labels
        BY <2>1, <3>2, FirstPass
      <3>4. FoldOf(a, c, clean).passes = opt.reps
            /\ FoldOf(a, c, clean).session = rows[<<a, 1>>][c].session
        BY DEF FoldOf
      <3> QED BY <3>2, <3>3, <3>4 DEF PassesHeld
    <2>5. ASSUME NEW l \in Labels, NEW c \in Calls, rows'[l][c] # None
          PROVE  rows'[l][c].session \in 1..run
      <3>1. CASE l[1] \in done /\ l[2] = 0
        BY <2>2, <2>3, <2>4, <2>5, <3>1
      <3>2. CASE ~ (l[1] \in done /\ l[2] = 0)
        BY <2>2, <2>5, <3>2 DEF PassesHeld
      <3> QED BY <3>1, <3>2
    <2>6. \A a \in Arms : rows'[<<a, 0>>] = IF a \in done THEN Folded(a) ELSE rows[<<a, 0>>]
      <3>1. \A a \in Arms : <<a, 0>> \in Labels
        BY BoundsAssumption DEF Labels
      <3> QED BY <2>2, <3>1
    <2>7. ASSUME NEW a \in Arms, NEW c \in Calls, NEW d \in Calls,
                 rows'[<<a, 0>>][c] # None, rows'[<<a, 0>>][d] # None,
                 rows'[<<a, 0>>][c].session = rows'[<<a, 0>>][d].session
          PROVE  rows'[<<a, 0>>][c].passes >= 2 <=> rows'[<<a, 0>>][d].passes >= 2
      <3>1. CASE a \in done
        BY <2>4, <2>6, <2>7, <3>1
      <3>2. CASE a \notin done
        BY <2>6, <2>7, <3>2 DEF PassesHeld, Shown
      <3> QED BY <3>1, <3>2
    <2>8. opt.reps = 1 =>
             \A a \in Arms, c \in Calls :
                rows'[<<a, 0>>][c] # None /\ rows'[<<a, 0>>][c].session = run =>
                    rows'[<<a, 0>>][c].passes = 1
      BY <2>1, <2>3, <2>6 DEF PassesHeld, Shown
    <2> HIDE DEF done
    <2> QED BY <2>1, <2>5, <2>7, <2>8 DEF PassesHeld, Shown
  <1>4. ASSUME UNCHANGED rows, ~ MeasureSm, ~ MeasureQd, ~ Fold PROVE PassesHeld'
    <2>1. CASE StartRun
      <3>1. at = "idle" /\ at' = "admission" /\ run' = run + 1
        BY <2>1 DEF StartRun
      <3>2. \A l \in Labels, c \in Calls : rows[l][c] # None =>
               rows[l][c].session \in 1..run' /\ rows[l][c].session # run'
        BY <1>0, <3>1 DEF PassesHeld
      <3>3. \A a \in Arms : <<a, 0>> \in Labels
        BY BoundsAssumption DEF Labels
      <3> QED BY <1>4, <3>1, <3>2, <3>3 DEF PassesHeld, Shown
    <2>2. CASE ~ StartRun
      <3>1. UNCHANGED <<run, opt>>
        BY <2>2, RunMoves DEF Run
      <3>2. /\ at' \in {"admission", "build"} => at \in {"admission", "build"}
            /\ at' # "idle" => at # "idle"
        <4>1. CASE Commit
          BY <4>1 DEF Commit
        <4>2. CASE Build
          BY <4>2 DEF Build, Return, PassStart
        <4>3. CASE ~ Commit /\ ~ Build
          BY <2>2, <4>3, PhaseMoves DEF Unbuilt
        <4> QED BY <4>1, <4>2, <4>3
      <3> QED BY <1>4, <3>1, <3>2 DEF PassesHeld, Shown
    <2> QED BY <2>1, <2>2
  <1> QED BY <1>2, <1>3, <1>4, FilesMove DEF Files, Differ, Render

-----------------------------------------------------------------------------
(* The builds.                                                               *)

(* A measurement says of its session what the build says.                    *)
LEMMA MeasureSays ==
    ASSUME ControlTyped, FilesTyped, bin = head, NEW arm \in Arms, Measure(arm)
    PROVE  Evidence' \subseteq Evidence \cup {<<run, {bin}>>}
PROOF
  <1>1. LabelOf(arm) \in Labels /\ LabelOf(arm)[1] = arm
    BY BoundsAssumption DEF LabelOf, Labels, ControlTyped
  <1>3. meta' = meta \/ meta' = [meta EXCEPT ![LabelOf(arm)] = RunRecord]
    BY DEF Measure
  <1>4. SmLabels \subseteq Labels /\ \A l \in SmLabels : l[1] = "sm"
    BY DEF SmLabels, Labels, Arms
  <1>5. ASSUME NEW l \in SmLabels, NEW c \in Calls, OneSession(l, c)'
        PROVE  <<rows'[l][c].session, rows'[l][c].bins>> \in Evidence \cup {<<run, {bin}>>}
    <2>1. CASE rows'[l][c] = rows[l][c]
      BY <1>5, <2>1 DEF Evidence, RowEvidence, OneSession
    <2>2. CASE l = LabelOf(arm) /\ \E clean \in BOOLEAN : rows'[l][c] = Measured(arm, clean)
      <3>1. arm = "sm"
        BY <1>1, <1>4, <2>2
      <3>2. rows'[l][c].session = run /\ rows'[l][c].bins = {bin}
        BY <2>2, <3>1 DEF Measured
      <3> QED BY <3>2
    <2> QED BY <1>4, <2>1, <2>2, MeasuredRow
  <1>6. ASSUME NEW l \in Labels, meta'[l] # None
        PROVE  <<meta'[l].session, {meta'[l].commit}>> \in Evidence \cup {<<run, {bin}>>}
    <2>1. CASE meta'[l] = meta[l]
      BY <1>6, <2>1 DEF Evidence
    <2>2. CASE meta'[l] = RunRecord
      BY <2>2 DEF RunRecord
    <2> QED BY <1>3, <2>1, <2>2 DEF FilesTyped
  <1>7. \A l \in SmLabels : RowEvidence(l)' \subseteq Evidence \cup {<<run, {bin}>>}
    BY <1>5 DEF RowEvidence
  <1>8. {<<meta'[l].session, {meta'[l].commit}>> : l \in {m \in Labels : meta'[m] # None}}
           \subseteq Evidence \cup {<<run, {bin}>>}
    BY <1>6
  <1>9. Evidence' = (UNION {RowEvidence(l)' : l \in SmLabels})
                    \cup {<<meta'[l].session, {meta'[l].commit}>> :
                             l \in {m \in Labels : meta'[m] # None}}
    BY DEF Evidence
  <1> QED BY <1>7, <1>8, <1>9

(* A fold says nothing new: if its passes are of one session, they are of    *)
(* one build.                                                                *)
LEMMA FoldSays ==
    ASSUME ControlTyped, FilesTyped, RowsHeld, BuildHeld, Fold
    PROVE  Evidence' \subseteq Evidence
PROOF
  <1> DEFINE done == {a \in ToFold : Foldable(a)}
  <1>1. rows' = [l \in Labels |-> IF l[1] \in done /\ l[2] = 0 THEN Folded(l[1]) ELSE rows[l]]
    BY DEF Fold
  <1>2. meta' = [l \in Labels |-> IF l[1] \in done /\ l[2] = 0
                                  THEN meta[<<l[1], 1>>] ELSE meta[l]]
    BY DEF Fold
  <1>3. at # "idle" /\ opt.reps \in 1..MaxReps
    BY OptTyped DEF Fold
  <1>4. SmLabels \subseteq Labels /\ \A l \in SmLabels : l[1] = "sm"
    BY DEF SmLabels, Labels, Arms
  <1>5. ASSUME NEW c \in Calls, Folded("sm")[c] # None,
               Folded("sm")[c].sessions = {Folded("sm")[c].session}
        PROVE  <<Folded("sm")[c].session, Folded("sm")[c].bins>> \in Evidence
    <2> DEFINE s == rows[<<"sm", 1>>][c].session
               passes == Passes("sm", c)
    <2>0. PICK clean \in BOOLEAN : clean <=> \A p \in passes : p.clean
      OBVIOUS
    <2>1. None \notin passes /\ Folded("sm")[c] = FoldOf("sm", c, clean)
      BY <1>5, <2>0, FoldedIs
    <2>2. /\ Folded("sm")[c].session = s
          /\ Folded("sm")[c].sessions = UNION {p.sessions : p \in passes}
          /\ Folded("sm")[c].bins = UNION {p.bins : p \in passes}
      BY <2>1 DEF FoldOf
    <2>3. ASSUME NEW p \in passes
          PROVE  p.session = s /\ <<s, p.bins>> \in Evidence
      <3>0. "sm" \in Arms
        BY DEF Arms
      <3>1. PICK i \in 1..opt.reps : <<"sm", i>> \in Labels /\ p = rows[<<"sm", i>>][c]
        BY <1>3, <2>1, <3>0, PassTyped
      <3>2. p # None /\ p.session \in p.sessions
        BY <2>1, <3>1 DEF RowsHeld
      <3>3. p.sessions \subseteq {s}
        BY <1>5, <2>2
      <3>4. p.sessions = {p.session} /\ p.session = s
        BY <3>2, <3>3
      <3>5. <<"sm", i>> \in SmLabels /\ OneSession(<<"sm", i>>, c)
        BY <3>1, <3>2, <3>4 DEF SmLabels, Labels, OneSession
      <3>6. <<rows[<<"sm", i>>][c].session, rows[<<"sm", i>>][c].bins>> \in Evidence
        BY <3>5 DEF Evidence, RowEvidence
      <3> QED BY <3>1, <3>4, <3>6
    <2>4. rows[<<"sm", 1>>][c] \in passes
      BY <1>3, FirstPass DEF Arms
    <2>5. ASSUME NEW p \in passes PROVE p.bins = rows[<<"sm", 1>>][c].bins
      <3>1. <<s, p.bins>> \in Evidence /\ <<s, rows[<<"sm", 1>>][c].bins>> \in Evidence
        BY <2>3, <2>4
      <3> HIDE DEF s
      <3> QED BY <3>1 DEF BuildHeld
    <2>6. Folded("sm")[c].bins = rows[<<"sm", 1>>][c].bins
      <3>1. {p.bins : p \in passes} = {rows[<<"sm", 1>>][c].bins}
        BY <2>4, <2>5
      <3> QED BY <2>2, <3>1
    <2> QED BY <2>2, <2>3, <2>4, <2>6
  <1>6. ASSUME NEW l \in SmLabels, NEW c \in Calls, OneSession(l, c)'
        PROVE  <<rows'[l][c].session, rows'[l][c].bins>> \in Evidence
    <2>1. CASE "sm" \in done /\ l[2] = 0
      <3>1. rows'[l] = Folded("sm")
        BY <1>1, <1>4, <2>1
      <3> QED BY <1>5, <1>6, <3>1 DEF OneSession
    <2>2. CASE ~ ("sm" \in done /\ l[2] = 0)
      <3>1. rows'[l] = rows[l]
        BY <1>1, <1>4, <2>2
      <3> QED BY <1>6, <3>1 DEF OneSession, Evidence, RowEvidence
    <2> QED BY <2>1, <2>2
  <1>7. ASSUME NEW l \in Labels, meta'[l] # None
        PROVE  <<meta'[l].session, {meta'[l].commit}>> \in Evidence
    <2>1. \E m \in Labels : meta'[l] = meta[m]
      <3>1. \A a \in done : <<a, 1>> \in Labels
        BY <1>3, FirstPass DEF ToFold
      <3> QED BY <1>2, <3>1
    <2> QED BY <1>7, <2>1 DEF Evidence
  <1>8. \A l \in SmLabels : RowEvidence(l)' \subseteq Evidence
    BY <1>6 DEF RowEvidence
  <1>9. {<<meta'[l].session, {meta'[l].commit}>> : l \in {m \in Labels : meta'[m] # None}}
           \subseteq Evidence
    BY <1>7
  <1>10. Evidence' = (UNION {RowEvidence(l)' : l \in SmLabels})
                     \cup {<<meta'[l].session, {meta'[l].commit}>> :
                              l \in {m \in Labels : meta'[m] # None}}
    BY DEF Evidence
  <1> QED BY <1>8, <1>9, <1>10

(* A session keeps its one build, and a licence names the build it served.   *)
LEMMA BuildStep ==
    ASSUME ControlTyped, FilesTyped, EnginesHeld, RowsHeld, BuildHeld, Next
    PROVE  BuildHeld'
PROOF
  <1>1. at \notin Unbuilt => bin = head
    BY DEF BuildHeld
  <1>2. \A e \in Evidence :
          /\ e[1] \in 1..run
          /\ at \in {"admission", "build"} => e[1] # run
          /\ at \notin Unbuilt /\ e[1] = run => e[2] = {bin}
    BY DEF BuildHeld
  <1>3. \A e, f \in Evidence : e[1] = f[1] => e[2] = f[2]
    BY DEF BuildHeld
  <1>4. conf["sm"] # None => conf["sm"].bins = {conf["sm"].commit}
    BY DEF BuildHeld
  <1>5. run \in Nat /\ (at # "idle" => run \in 1..MaxRuns)
    BY BoundsAssumption DEF ControlTyped
  <1>6. ASSUME UNCHANGED <<run, bin>>, at \notin Unbuilt, Evidence' \subseteq Evidence \cup {<<run, {bin}>>}
        PROVE  /\ \A e \in Evidence' : e[1] \in 1..run /\ (e[1] = run => e[2] = {bin})
               /\ \A e, f \in Evidence' : e[1] = f[1] => e[2] = f[2]
    <2>1. run \in 1..run
      BY <1>5, <1>6 DEF Unbuilt
    <2>2. \A e \in Evidence' : e \in Evidence \/ (e[1] = run /\ e[2] = {bin})
      BY <1>6
    <2> QED BY <1>2, <1>3, <1>6, <2>1, <2>2
  <1>7. CASE MeasureSm \/ MeasureQd
    <2>1. at \notin Unbuilt /\ at' \notin Unbuilt /\ UNCHANGED <<run, head, bin, conf>>
      BY <1>7 DEF MeasureSm, MeasureQd, NextCall, Run, Tree, Unbuilt
    <2>2. Evidence' \subseteq Evidence \cup {<<run, {bin}>>}
      BY <1>1, <1>7, <2>1, MeasureSays DEF MeasureSm, MeasureQd, Arms
    <2> QED BY <1>1, <1>4, <1>6, <2>1, <2>2 DEF BuildHeld, Unbuilt
  <1>8. CASE Fold
    <2>1. at \notin Unbuilt /\ at' \notin Unbuilt /\ UNCHANGED <<run, head, bin, conf>>
      BY <1>8 DEF Fold, Run, Tree, Unbuilt
    <2>2. Evidence' \subseteq Evidence
      BY <1>8, FoldSays
    <2> QED BY <1>1, <1>4, <1>6, <2>1, <2>2 DEF BuildHeld, Unbuilt
  <1>9. CASE Differ
    <2>1. /\ at = "differ" /\ at' = "finishConf"
          /\ UNCHANGED <<run, head, bin, rows, meta>>
      BY <1>9 DEF Differ, Run, Tree
    <2>2. Evidence' = Evidence
      BY <2>1 DEF Evidence, RowEvidence, OneSession
    <2>3. Serving(ConfPort) = {Strawmann(ConfPort)}
      BY <2>1 DEF EnginesHeld, Serving, Strawmann, Qdrant, ArmPort, ConfPort
    <2>4. {p.bin : p \in Serving(ConfPort)} = {head}
      <3>1. Strawmann(ConfPort).bin = head
        BY <1>1, <2>1 DEF Strawmann, Unbuilt
      <3> QED BY <2>3, <3>1
    <2>5. \/ conf'["sm"] = conf["sm"]
          \/ conf'["sm"].commit = head /\ conf'["sm"].bins = {p.bin : p \in Serving(ConfPort)}
      <3>1. "sm" \in Arms /\ conf = [a \in Arms |-> conf[a]]
        BY DEF Arms, FilesTyped
      <3> QED BY <1>9, <3>1 DEF Differ
    <2>6. conf'["sm"] # None => conf'["sm"].bins = {conf'["sm"].commit}
      BY <1>4, <2>4, <2>5
    <2> QED BY <1>1, <1>2, <1>3, <2>1, <2>2, <2>6 DEF BuildHeld, Unbuilt
  <1>10. ASSUME ~ MeasureSm, ~ MeasureQd, ~ Fold, ~ Differ PROVE BuildHeld'
    <2>1. UNCHANGED <<rows, meta, conf>>
      BY <1>10, FilesMove DEF Files, Render
    <2>2. Evidence' = Evidence
      BY <2>1 DEF Evidence, RowEvidence, OneSession
    <2>3. CASE StartRun
      <3>1. at = "idle" /\ at' = "admission" /\ run' = run + 1 /\ UNCHANGED bin
        BY <2>3 DEF StartRun, Tree
      <3>2. \A e \in Evidence : e[1] \in 1..run' /\ e[1] # run'
        BY <1>2, <1>5, <3>1
      <3> QED BY <1>3, <1>4, <2>1, <2>2, <3>1, <3>2 DEF BuildHeld, Unbuilt
    <2>4. CASE Commit
      <3>1. at' = "idle" /\ UNCHANGED <<run, bin>>
        BY <2>4 DEF Commit, Run
      <3> QED BY <1>2, <1>3, <1>4, <2>1, <2>2, <3>1 DEF BuildHeld, Unbuilt
    <2>5. CASE Build
      <3>1. /\ at = "build" /\ UNCHANGED <<run, head>>
            /\ at' = "idle" \/ (at' \notin Unbuilt /\ bin' = head)
        BY <2>5 DEF Build, Run, Return, PassStart, Unbuilt
      <3> QED BY <1>2, <1>3, <1>4, <2>1, <2>2, <3>1 DEF BuildHeld, Unbuilt
    <2>6. CASE ~ StartRun /\ ~ Commit /\ ~ Build
      <3>1. UNCHANGED <<run, head, bin>>
        BY <2>6, RunMoves DEF Run
      <3>2. \/ at' = "idle"
            \/ at = "admission" /\ at' \in {"admission", "build"}
            \/ at \notin Unbuilt /\ at' \notin Unbuilt
        BY <2>6, PhaseMoves
      <3> QED BY <1>1, <1>2, <1>3, <1>4, <2>1, <2>2, <3>1, <3>2 DEF BuildHeld, Unbuilt
    <2> QED BY <2>3, <2>4, <2>5, <2>6
  <1> QED BY <1>7, <1>8, <1>9, <1>10

-----------------------------------------------------------------------------
(* README.md.                                                                *)

(* Only render writes it, and not over a refusal.                            *)
LEMMA ReadmeStep ==
    ASSUME FilesTyped, RowsHeld, PassesHeld, BuildHeld, ReadmeHeld, Next
    PROVE  ReadmeHeld'
PROOF
  <1>1. CASE UNCHANGED readme
    BY <1>1 DEF ReadmeHeld, PublishedIsFit, LicensedWithinSession
  <1>2. ASSUME Render, ~ Withheld, readme' = Table
        PROVE  ReadmeHeld'
    <2>1. /\ readme'.sm = rows[<<"sm", 0>>] /\ readme'.qd = rows[<<"qd", 0>>]
          /\ readme'.conf = conf["sm"]
          /\ readme'.back = UNION {{back[<<a, 0>>][c] : c \in Shown(a)} : a \in Arms}
      BY <1>2 DEF Table
    <2>2. ASSUME NEW c \in readme'.ratios, NEW a \in Arms
          PROVE  ~ Orphaned(a) /\ c \in Shown(a)
      BY <1>2 DEF Table, Arms
    <2>3. /\ \A a \in Arms : ~ SinkRefuses(a) /\ ~ Defects(a) /\ ~ SinglePass(a)
          /\ conf["sm"] # None /\ conf["sm"].comparative
      BY <1>2 DEF Withheld, Defective
    <2>4. \A a \in Arms : <<a, 0>> \in Labels
      BY BoundsAssumption DEF Labels
    <2>5. ASSUME NEW a \in Arms, NEW c \in Shown(a)
          PROVE  rows[<<a, 0>>][c].cleans = {TRUE} /\ back[<<a, 0>>][c] # "remainder"
      <3>1. c \in Calls /\ rows[<<a, 0>>][c] # None
        BY DEF Shown
      <3>2. <<a, 0>> \in written
        BY <2>4, <3>1 DEF FilesTyped, HasRows
      <3>3. rows[<<a, 0>>][c].clean /\ back[<<a, 0>>][c] # "remainder"
        BY <2>3, <3>1, <3>2 DEF Defects
      <3> QED BY <2>4, <3>1, <3>3 DEF RowsHeld
    <2>6. ASSUME NEW c \in readme'.ratios, NEW a \in Arms
          PROVE  rows[<<a, 0>>][c].passes >= 2
      <3>1. ~ Orphaned(a) /\ c \in Shown(a)
        BY <2>2
      <3>2. PICK d \in Shown(a) : rows[<<a, 0>>][d].passes >= 2
        BY <2>3, <3>1 DEF SinglePass
      <3>3. rows[<<a, 0>>][c].session = rows[<<a, 0>>][d].session
        BY <3>1 DEF Orphaned
      <3> QED BY <3>1, <3>2, <3>3 DEF PassesHeld
    <2>7. PublishedIsFit'
      <3>1. ASSUME "remainder" \in readme'.back PROVE FALSE
        <4>1. PICK a \in Arms : "remainder" \in {back[<<a, 0>>][c] : c \in Shown(a)}
          BY <2>1, <3>1
        <4>2. PICK c \in Shown(a) : back[<<a, 0>>][c] = "remainder"
          BY <4>1
        <4> QED BY <2>5, <4>2
      <3>2. ASSUME NEW c \in Calls, NEW r \in {readme'.sm[c], readme'.qd[c]}, r # None
            PROVE  r.cleans = {TRUE}
        BY <2>1, <2>5, <3>2 DEF Shown, Arms
      <3>3. \A c \in readme'.ratios : readme'.sm[c].passes >= 2 /\ readme'.qd[c].passes >= 2
        BY <2>1, <2>6 DEF Arms
      <3> QED BY <2>1, <2>3, <3>1, <3>2, <3>3 DEF PublishedIsFit
    <2>8. ASSUME NEW c \in readme'.ratios, Cardinality(rows[<<"sm", 0>>][c].sessions) = 1
          PROVE  rows[<<"sm", 0>>][c].bins = conf["sm"].bins
      <3> DEFINE l == <<"sm", 0>>
      <3>0. c \in Shown("sm") /\ ~ Orphaned("sm")
        BY <2>2 DEF Arms
      <3>1. l \in Labels /\ l \in SmLabels /\ c \in Calls /\ rows[l][c] # None
        BY <2>4, <3>0 DEF Arms, SmLabels, Labels, Shown
      <3>2. rows[l][c].session \in rows[l][c].sessions
        BY <3>1 DEF RowsHeld
      <3>3. rows[l][c].sessions \subseteq 1..MaxRuns
        BY <3>1 DEF FilesTyped, RowFiles, Rows
      <3>4. rows[l][c].sessions = {rows[l][c].session}
        <4>1. IsFiniteSet(rows[l][c].sessions)
          <5>0. 1 \in Int /\ MaxRuns \in Int
            BY BoundsAssumption
          <5>1. IsFiniteSet(1..MaxRuns)
            BY <5>0, FS_Interval
          <5> QED BY <3>3, <5>1, FS_Subset
        <4>2. PICK x : rows[l][c].sessions = {x}
          BY <2>8, <4>1, FS_Singleton
        <4> QED BY <3>2, <4>2
      <3>5. rows[l][c].session = meta[l].session
        BY <3>0 DEF Orphaned
      <3>6. meta[l] # None
        <4>1. rows[l][c].session \in 1..MaxRuns
          BY <3>2, <3>3
        <4> QED BY <3>5, <4>1 DEF None
      <3>7. /\ <<rows[l][c].session, rows[l][c].bins>> \in Evidence
            /\ <<meta[l].session, {meta[l].commit}>> \in Evidence
        BY <3>1, <3>4, <3>6 DEF Evidence, RowEvidence, OneSession
      <3>8. rows[l][c].bins = {meta[l].commit}
        BY <3>5, <3>7 DEF BuildHeld
      <3>9. conf["sm"].commit = meta[l].commit
        BY <2>3, <3>0 DEF SinkRefuses, Arms
      <3>10. conf["sm"].bins = {conf["sm"].commit}
        BY <2>3 DEF BuildHeld
      <3> QED BY <3>8, <3>9, <3>10
    <2>9. LicensedWithinSession'
      BY <2>1, <2>8 DEF LicensedWithinSession
    <2> QED BY <2>7, <2>9 DEF ReadmeHeld
  <1>3. CASE Render
    BY <1>1, <1>2, <1>3 DEF Render
  <1> QED BY <1>1, <1>3, FilesMove DEF Files, MeasureSm, MeasureQd, Fold, Differ

-----------------------------------------------------------------------------
(* The invariant holds.                                                      *)

LEMMA RunInit == Init => RunInv
PROOF
  <1> SUFFICES ASSUME Init PROVE RunInv
    OBVIOUS
  <1> USE BoundsAssumption DEF Init, EnginesInit
  <1>1. TypeOK
    BY DEF TypeOK, RowFiles, HasRows, Calls, Readbacks, Phases, Stores
  <1>2. RestTyped
    BY DEF RestTyped, MetaFiles, ConfFiles
  <1>3. EnginesHeld /\ StoresHeld
    BY DEF EnginesHeld, StoresHeld, Stores
  <1>4. RowsHeld /\ PassesHeld
    <2>1. \A l \in Labels, c \in Calls : rows[l][c] = None
      OBVIOUS
    <2>2. \A a \in Arms : <<a, 0>> \in Labels
      BY DEF Labels
    <2> QED BY <2>1, <2>2 DEF RowsHeld, PassesHeld, Shown
  <1>5. BuildHeld
    <2>1. Evidence = {}
      BY DEF Evidence, RowEvidence, OneSession, SmLabels, Labels, Arms
    <2> QED BY <2>1 DEF BuildHeld, Unbuilt, Arms
  <1>6. ReadmeHeld
    BY DEF ReadmeHeld, PublishedIsFit, LicensedWithinSession
  <1> QED BY <1>1, <1>2, <1>3, <1>4, <1>5, <1>6 DEF RunInv

LEMMA RunNext == RunInv /\ [Next]_vars => RunInv'
PROOF
  <1>1. ASSUME RunInv, Next PROVE RunInv'
    <2>1. ControlTyped /\ FilesTyped /\ EnginesTyped
      BY <1>1, TypesSplit DEF RunInv
    <2>2. ControlTyped' /\ FilesTyped' /\ EnginesTyped'
      BY <1>1, <2>1, ControlStep, FilesStep, EnginesTypedStep DEF RunInv
    <2>3. TypeOK' /\ RestTyped'
      BY <2>2 DEF TypeOK, RestTyped, ControlTyped, FilesTyped, EnginesTyped
    <2>4. EnginesHeld' /\ StoresHeld'
      BY <1>1, <2>1, EnginesStep, StoresStep DEF RunInv
    <2>5. RowsHeld' /\ PassesHeld' /\ BuildHeld' /\ ReadmeHeld'
      BY <1>1, <2>1, RowsStep, PassesStep, BuildStep, ReadmeStep DEF RunInv
    <2> QED BY <2>3, <2>4, <2>5 DEF RunInv
  <1>2. ASSUME RunInv, UNCHANGED vars PROVE RunInv'
    <2> USE <1>2 DEF RunInv, vars
    <2>1. TypeOK' /\ RestTyped'
      BY DEF TypeOK, HasRows, RestTyped
    <2>2. EnginesHeld' /\ StoresHeld'
      BY DEF EnginesHeld, StoresHeld, Strawmann, Qdrant
    <2>3. RowsHeld' /\ PassesHeld'
      BY DEF RowsHeld, PassesHeld, Shown
    <2>4. BuildHeld'
      BY DEF BuildHeld, Evidence, RowEvidence, OneSession
    <2>5. ReadmeHeld'
      BY DEF ReadmeHeld, PublishedIsFit, LicensedWithinSession
    <2> QED BY <2>1, <2>2, <2>3, <2>4, <2>5
  <1> QED BY <1>1, <1>2

LEMMA RunSafe == Spec => []RunInv
PROOF
  BY RunInit, RunNext, PTL DEF Spec

(* The types, and the bounds on passes and faults.                           *)
THEOREM TypeCorrect == Spec => []TypeOK
PROOF
  <1>1. RunInv => TypeOK
    BY DEF RunInv
  <1> QED BY <1>1, RunSafe, PTL

(* Whatever earlier runs left on the ports, a row or a differ's search is    *)
(* answered by the engine its own run started from the binary it built.      *)
THEOREM MeasuresOwn == Spec => []MeasuresOwnEngine
PROOF
  <1>1. ASSUME EnginesHeld PROVE MeasuresOwnEngine
    <2> USE DEF EnginesHeld, Serving
    <2>0. /\ \A port : Strawmann(port).port = port /\ Strawmann(port).run = run
          /\ Qdrant.port = ArmPort /\ Qdrant.run = run /\ ArmPort # ConfPort
      BY DEF Strawmann, Qdrant, ArmPort, ConfPort
    <2>1. at = "measureSm" => Serving(ArmPort) = {Strawmann(ArmPort)}
      BY <1>1, <2>0
    <2>2. at = "measureQd" => Serving(ArmPort) = {Qdrant}
      BY <1>1, <2>0
    <2>3. ASSUME at = "differ"
          PROVE  Serving(ConfPort) = {Strawmann(ConfPort)} /\ Serving(ArmPort) = {Qdrant}
      BY <1>1, <2>0, <2>3
    <2>4. {p.run : p \in {Qdrant}} = {run}
      BY <2>0
    <2> QED BY <2>1, <2>2, <2>3, <2>4 DEF MeasuresOwnEngine, Strawmann, Qdrant
  <1>2. RunInv => MeasuresOwnEngine
    BY <1>1 DEF RunInv
  <1> QED BY <1>2, RunSafe, PTL

(* A run that ends by itself, on whichever path, leaves no engine and, unless *)
(* a wipe failed, no storage; the second arm starts on an emptied disk.      *)
THEOREM LeavesNothing == Spec => []NothingLeft
PROOF
  <1>1. RunInv => NothingLeft
    BY DEF RunInv, EnginesHeld, StoresHeld, NothingLeft, Stores
  <1> QED BY <1>1, RunSafe, PTL

(* What README.md shows was measured on a quiet, admitted machine in every   *)
(* pass and licensed by the differ, over indexes read back as complete; and  *)
(* what it gives a ratio for, at least twice on both sides, whichever calls  *)
(* of an arm died over an earlier run's rows.                                *)
THEOREM PublishesFit == Spec => []PublishedIsFit
PROOF
  <1>1. RunInv => PublishedIsFit
    BY DEF RunInv, ReadmeHeld
  <1> QED BY <1>1, RunSafe, PTL

(* A ratio of passes of one session is of the build the differ licensed,     *)
(* however often labels are used again and runs die half-way.                *)
THEOREM LicenceIsOfTheBuild == Spec => []LicensedWithinSession
PROOF
  <1>1. RunInv => LicensedWithinSession
    BY DEF RunInv, ReadmeHeld
  <1> QED BY <1>1, RunSafe, PTL
=============================================================================
