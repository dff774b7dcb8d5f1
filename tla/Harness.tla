------------------------------- MODULE Harness -------------------------------
(* The parts of the harness, each on its own: a behaviour is one of one part. *)
(* Arm and Fetch keep their own variables; every other part runs in the       *)
(* registers r1..r16, which the parts that are not running leave alone.  Each *)
(* part's tables and bounds are constants here too.                           *)
EXTENDS Arm, Fetch

CONSTANTS
    RunRows, RowPasses, GateRetries, DirtyRetries, MaxOdd,     \* RowRunner
    FoldPasses, QpsValues,                                     \* PassFold
    MaxOddities, Band, RecallTol, RecallFloor,                 \* Verdict
    Threads, Founders, CoverageFloor, MaxWork, MaxUpsets,      \* Sampler
    Budget, MaxBursts, MaxEvents,                              \* HostLoad
    Cpus, MaxMeddling,                                         \* HostSetup
    ParamSets, Grades, MaxSweeps,                              \* RecallJoin
    MaxSinkTimes,                                              \* Sink
    Stems, MaxPass, MaxDay, MaxNotes, RetainDays,              \* Retention
    MaxFolds,                                                  \* NoiseFloor
    SessionReps, MaxTroubles,                                  \* Sessions
    MaxLaunches, ChainSteps,                                   \* Night
    MaxPolls, MaxShifts,                                       \* Settle
    MaxClock,                                                  \* Provenance
    MaxTreeEdits,                                              \* Gate
    MaxPageTimes                                               \* Page

(* Silence is not a set of parameters, the sink's clock is a number, a host   *)
(* has so many CPUs, and an engine so many threads.                           *)
ASSUME HarnessAssumption ==
    /\ "silent" \notin ParamSets /\ MaxSinkTimes \in Nat
    /\ MaxMeddling \in Nat /\ IsFiniteSet(Cpus)
    /\ Budget \in Nat /\ MaxPolls \in Nat /\ SessionReps \in Nat \ {0}
    /\ RowPasses \in Nat /\ FoldPasses \in Nat \ {0}
    /\ QpsValues \subseteq Nat \ {0}
    /\ IsFiniteSet(Threads) /\ Founders \subseteq Threads /\ CoverageFloor \in Nat

(* Every bound is a number of something; the rows and the steps are lists.    *)
ASSUME PartBoundsAssumption ==
    /\ {GateRetries, DirtyRetries, MaxOddities, MaxUpsets, MaxBursts, MaxSweeps, MaxDay,
        MaxFolds, MaxTroubles, MaxLaunches, MaxShifts, MaxClock, MaxTreeEdits,
        MaxPageTimes} \subseteq Nat
    /\ RunRows \in Seq([id : STRING, kind : {"upload", "search", "rate", "write"}])
    /\ ChainSteps \in Seq(STRING)

VARIABLES part, r1, r2, r3, r4, r5, r6, r7, r8, r9, r10, r11, r12, r13, r14, r15, r16

(* A bound or a table of the same name is taken as it is.                     *)
RowRunnerPart == INSTANCE RowRunner WITH
    pass <- r1, gate <- r2, gateAsks <- r3, next <- r4, stage <- r5,
    factor <- r6, shortRuns <- r7, dirtyRuns <- r8, cur <- r9, out <- r10,
    file <- r11, pins <- r12, pinsLost <- r13, appended <- r14,
    odd <- r15, Passes <- RowPasses
PassFoldPart == INSTANCE PassFold WITH got <- r1, Reps <- FoldPasses
VerdictPart == INSTANCE Verdict WITH
    kind <- r1, arm <- r2, label <- r3, oddities <- r4
SamplerPart == INSTANCE Sampler WITH
    step <- r1, engine <- r2, live <- r3, before <- r4, after <- r5,
    sampler <- r6, inFlight <- r7, first <- r8, last <- r9, new <- r10,
    span <- r11, late <- r12, banked <- r13, perf <- r14, row <- r15,
    upsets <- r16
HostLoadPart == INSTANCE HostLoad WITH
    at <- r1, used <- r2, cmd <- r3, busy <- r4, children <- r5, s0 <- r6,
    s1 <- r7, sampling <- r8, foreignWork <- r9, unowned <- r10,
    verdict <- r11, gate <- r12, events <- r13
HostSetupPart == INSTANCE HostSetup WITH
    has <- r1, governor <- r2, online <- r3, knob <- r4, io <- r5,
    todo <- r6, applied <- r7, meddling <- r8
JoinPart == INSTANCE RecallJoin WITH
    takesAcorn <- r1, acorn <- r2, rows <- r3, files <- r4,
    sweeping <- r5, sweeps <- r6
SinkPart == INSTANCE Sink WITH
    tree <- r1, datasetNow <- r2, runJson <- r3, rowsJson <- r4,
    sweep <- r5, confJson <- r6, conformance <- r7, perf <- r8,
    clock <- r9, MaxTimes <- MaxSinkTimes
RetentionPart == INSTANCE Retention WITH
    day <- r1, present <- r2, touched <- r3, noted <- r4, cited <- r5,
    running <- r6, edits <- r7, torn <- r8, MaxEdits <- MaxNotes
NoiseFloorPart == INSTANCE NoiseFloor WITH
    here <- r1, label <- r2, floor <- r3, global <- r4, folds <- r5
SessionsPart == INSTANCE Sessions WITH
    driver <- r1, keep <- r2, todo <- r3, engine <- r4, data <- r5,
    phase <- r6, runs <- r7, measured <- r8, setting <- r9, rc <- r10,
    troubles <- r11, Reps <- SessionReps
NightPart == INSTANCE Night WITH
    run <- r1, at <- r2, launches <- r3, log <- r4, pages <- r5,
    fromRows <- r6, kept <- r7, analysis <- r8, code <- r9, chain <- r10,
    MaxRuns <- MaxLaunches
SettlePart == INSTANCE Settle WITH
    work <- r1, foreign <- r2, load1 <- r3, used <- r4, waiting <- r5,
    polls <- r6, recent <- r7, stable <- r8, left <- r9, shifts <- r10,
    lately <- r11, last <- r12, silence <- r13
RecordPart == INSTANCE Provenance WITH
    commits <- r1, head <- r2, edited <- r3, undone <- r4, file <- r5,
    pin <- r6, server <- r7, bannerOf <- r8, record <- r9, clock <- r10
GatePart == INSTANCE Gate WITH
    tree <- r1, canary <- r2, silent <- r3, uv <- r4, triggers <- r5,
    ciOnly <- r6, binary <- r7, todo <- r8, failed <- r9, only <- r10,
    canaryRead <- r11, throughout <- r12, code <- r13, edits <- r14,
    MaxEdits <- MaxTreeEdits
PagePart == INSTANCE Page WITH
    rows <- r1, reps <- r2, perfSet <- r3, conf <- r4, clock <- r5,
    MaxTimes <- MaxPageTimes

(* The registers a part does not use.                                        *)
After15 == <<r16>>
After14 == <<r15, After15>>
After13 == <<r14, After14>>
After11 == <<r12, r13, After13>>
After10 == <<r11, After11>>
After9 == <<r10, After10>>
After8 == <<r9, After9>>
After6 == <<r7, r8, After8>>
After5 == <<r6, After6>>
After4 == <<r5, After5>>
After1 == <<r2, r3, r4, After4>>
After0 == <<r1, After1>>
Unused15 == r16 = 0
Unused14 == r15 = 0 /\ Unused15
Unused13 == r14 = 0 /\ Unused14
Unused11 == r12 = 0 /\ r13 = 0 /\ Unused13
Unused10 == r11 = 0 /\ Unused11
Unused9 == r10 = 0 /\ Unused10
Unused8 == r9 = 0 /\ Unused9
Unused6 == r7 = 0 /\ r8 = 0 /\ Unused8
Unused5 == r6 = 0 /\ Unused6
Unused4 == r5 = 0 /\ Unused5
Unused1 == r2 = 0 /\ r3 = 0 /\ r4 = 0 /\ Unused4
Unused0 == r1 = 0 /\ Unused1

PartsInit ==
    /\ Init /\ FetchInit
    /\ \/ part \in {"arm", "fetch"} /\ Unused0
       \/ part = "row" /\ RowRunnerPart!RunnerInit /\ Unused15
       \/ part = "fold" /\ PassFoldPart!FoldInit /\ Unused1
       \/ part = "verdict" /\ VerdictPart!VerdictInit /\ Unused4
       \/ part = "sampler" /\ SamplerPart!SamplerInit
       \/ part = "load" /\ HostLoadPart!LoadInit /\ Unused13
       \/ part = "setup" /\ HostSetupPart!SetupInit /\ Unused8
       \/ part = "join" /\ JoinPart!JoinInit /\ Unused6
       \/ part = "sink" /\ SinkPart!SinkInit /\ Unused9
       \/ part = "retention" /\ RetentionPart!RetentionInit /\ Unused8
       \/ part = "floor" /\ NoiseFloorPart!FloorInit /\ Unused5
       \/ part = "session" /\ SessionsPart!SessionsInit /\ Unused11
       \/ part = "night" /\ NightPart!NightInit /\ Unused10
       \/ part = "settle" /\ SettlePart!SettleInit /\ Unused13
       \/ part = "record" /\ RecordPart!ProvenanceInit /\ Unused10
       \/ part = "gate" /\ GatePart!GateInit /\ Unused14
       \/ part = "page" /\ PagePart!PageInit /\ Unused5

Halted == UNCHANGED <<vars, fvars>>
PartsNext ==
    /\ UNCHANGED part
    /\ \/ part = "arm" /\ Next /\ UNCHANGED <<fvars, After0>>
       \/ part = "fetch" /\ FetchNext /\ UNCHANGED <<vars, After0>>
       \/ part = "row" /\ RowRunnerPart!RunnerNext /\ Halted /\ UNCHANGED After15
       \/ part = "fold" /\ PassFoldPart!FoldNext /\ Halted /\ UNCHANGED After1
       \/ part = "verdict" /\ VerdictPart!VerdictNext /\ Halted /\ UNCHANGED After4
       \/ part = "sampler" /\ SamplerPart!SamplerNext /\ Halted
       \/ part = "load" /\ HostLoadPart!LoadNext /\ Halted /\ UNCHANGED After13
       \/ part = "setup" /\ HostSetupPart!SetupNext /\ Halted /\ UNCHANGED After8
       \/ part = "join" /\ JoinPart!JoinNext /\ Halted /\ UNCHANGED After6
       \/ part = "sink" /\ SinkPart!SinkNext /\ Halted /\ UNCHANGED After9
       \/ part = "retention" /\ RetentionPart!RetentionNext /\ Halted /\ UNCHANGED After8
       \/ part = "floor" /\ NoiseFloorPart!FloorNext /\ Halted /\ UNCHANGED After5
       \/ part = "session" /\ SessionsPart!SessionsNext /\ Halted /\ UNCHANGED After11
       \/ part = "night" /\ NightPart!NightNext /\ Halted /\ UNCHANGED After10
       \/ part = "settle" /\ SettlePart!SettleNext /\ Halted /\ UNCHANGED After13
       \/ part = "record" /\ RecordPart!ProvenanceNext /\ Halted /\ UNCHANGED After10
       \/ part = "gate" /\ GatePart!GateNext /\ Halted /\ UNCHANGED After14
       \/ part = "page" /\ PagePart!PageNext /\ Halted /\ UNCHANGED After5

PartsSpec == PartsInit /\ [][PartsNext]_<<part, vars, fvars, After0>>
-----------------------------------------------------------------------------
(* Every part's variables keep their types.                                  *)
PartsTyped ==
    /\ TypeOK /\ FetchTypeOK
    /\ part = "row" => RowRunnerPart!RunnerTypeOK
    /\ part = "fold" => PassFoldPart!FoldTypeOK
    /\ part = "verdict" => VerdictPart!VerdictTypeOK
    /\ part = "sampler" => SamplerPart!SamplerTypeOK
    /\ part = "load" => HostLoadPart!LoadTypeOK
    /\ part = "setup" => HostSetupPart!SetupTypeOK
    /\ part = "join" => JoinPart!JoinTypeOK
    /\ part = "sink" => SinkPart!SinkTypeOK
    /\ part = "retention" => RetentionPart!RetentionTypeOK
    /\ part = "floor" => NoiseFloorPart!FloorTypeOK
    /\ part = "session" => SessionsPart!SessionsTypeOK
    /\ part = "night" => NightPart!NightTypeOK
    /\ part = "settle" => SettlePart!SettleTypeOK
    /\ part = "record" => RecordPart!ProvenanceTypeOK
    /\ part = "gate" => GatePart!GateTypeOK
    /\ part = "page" => PagePart!PageTypeOK

(* Of the rows of a pass that were taken again and again (workloads.py), and *)
(* of the passes that are folded (aggregate.py): no row mixes measurements   *)
(* of two configurations, and no verdict about a fold, but that its passes   *)
(* drifted, depends on the order they came in.                               *)
FoldsSaySo ==
    /\ part = "row" => RowRunnerPart!FoldsOneConfiguration
    /\ part = "fold" => PassFoldPart!OrderHidesNothing

(* What the counters of a row say is of that row's window and no other's     *)
(* (procstat.py, perfstat.py), whichever threads came and went in it.        *)
CountersAreTheRows == part = "sampler" => SamplerPart!CountsAreTheRows

(* A host that is not quiet is seen: work that belongs to neither the engine *)
(* nor the harness is seen by the gate it would disturb (host_load.py), and  *)
(* what a wait before a row ended on, a load at its floor or an engine that  *)
(* has gone idle, is so (fullrun.py, workloads.py).                          *)
HostIsSeen ==
    /\ part = "load" => HostLoadPart!ForeignIsSeen
    /\ part = "settle" => SettlePart!WaitsAreTrue

(* What the set-up tools vouch for is so: a verified dataset is the upstream *)
(* one (datasets.py), and a host set up once passes the gate's check of it   *)
(* (setup.py).                                                               *)
SetUpIsEnough ==
    /\ VouchedIsWhole
    /\ part = "setup" => HostSetupPart!ApplyIsEnough

(* The recall a row is joined to is of what the row searched (recall.py).    *)
RecallIsTheRows == part = "join" => JoinPart!JoinedSweepIsTheRows

(* Of two rows that are compared (compare.py): the refusals do not depend on *)
(* which engine is named first, and a disturbed host, another harness, two   *)
(* builds and, for a number, a failed row, an unequal recall and an unbuilt  *)
(* index are all refused.                                                    *)
VerdictIsFair == part = "verdict" => VerdictPart!RefusalsAreFair

(* What the results database and its joins hold is of the build, the data    *)
(* and the licence it says (results.py).                                     *)
SinkIsFaithful == part = "sink" => SinkPart!SinkIsLicensed

(* What the page and the noise band claim of two labels is what was measured *)
(* (report.py, compare.py, regression.py).                                   *)
PageIsFaithful ==
    /\ part = "page" => PagePart!PageSaysWhatWasMeasured
    /\ part = "floor" => NoiseFloorPart!BandIsTheRows

(* No result that is cited, recent or being written is pruned (fullrun.py),  *)
(* and a night's log, page and analysis are of one launch (nightrun.py).     *)
ResultsAreKept ==
    /\ part = "retention" => RetentionPart!PruneKeeps
    /\ part = "night" => NightPart!NightIsOneRun

(* An A/B session measures each arm on the build and the setting it is       *)
(* reported under (the *_ab.py drivers, isa_sweep.py), and a green gate      *)
(* checked the tree it is green about (check.py).                            *)
ArmsAndGatesAreNamed ==
    /\ part = "session" => SessionsPart!ArmsMeasuredAsNamed
    /\ part = "gate" => GatePart!GreenMeansChecked

(* run.json describes the server that answered (provenance.py).              *)
RunJsonIsTheServer == part = "record" => RecordPart!RecordIsTheServer
=============================================================================
