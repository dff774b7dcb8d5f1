-------------------------------- MODULE Sink ---------------------------------
(* bench/harness/results.py: the §8 results sink.  Measuring, sweeping and    *)
(* the differ leave files in two label directories, each of which may be     *)
(* newer than the others; ingest_run joins what it finds and insert_perf     *)
(* accepts or refuses each row.                                              *)
EXTENDS Naturals, FiniteSets

CONSTANTS
    MaxTimes          \* bound: measurements, sweeps, differ runs and rebuilds

(* The builds at hand: strawmann's commit, with -dirty, and its ISA; the     *)
(* version of Qdrant.                                                        *)
Builds == [commit : {"c1", "c2"}, isa : {"native", "v3"}, qdrant : {"1.18", "1.19"}]
Own(l, b) == IF l = "sm" THEN <<b.commit, b.isa>> ELSE <<b.qdrant>>
Label == {"sm", "qd"}
Workload == {"W2", "W4", "W11"}
Plumbing == {"W2"}                         \* W0, W1, W2, W13: nothing to recall
NotJoinable == {"W11"}                     \* recall_joinable: it mutates its collection
NoFile == {}
First == [commit |-> "c1", isa |-> "native", qdrant |-> "1.18"]

VARIABLES
    tree,             \* what the checkout and the pinned image now give
    datasetNow,       \* what the next measurement is of
    runJson,          \* label -> build and dataset of its newest invocation
    rowsJson,         \* label -> its rows
    sweep,            \* label -> the datasets it has recall files of
    confJson,         \* label -> the differ's row, as a set of at most one
    conformance, perf,\* the database
    clock

kvars == <<tree, datasetNow, runJson, rowsJson, sweep, confJson, conformance, perf, clock>>

SinkInit ==
    /\ tree = First /\ datasetNow = "sift"
    /\ runJson = [l \in Label |-> NoFile] /\ rowsJson = [l \in Label |-> NoFile]
    /\ sweep = [l \in Label |-> {}] /\ confJson = [l \in Label |-> NoFile]
    /\ conformance = {} /\ perf = {} /\ clock = 0

Tick == clock < MaxTimes /\ clock' = clock + 1

-----------------------------------------------------------------------------
Rebuild ==
    /\ \/ tree' \in Builds \ {tree} /\ UNCHANGED datasetNow
       \/ datasetNow = "sift" /\ datasetNow' = "dbp" /\ UNCHANGED tree
    /\ Tick
    /\ UNCHANGED <<runJson, rowsJson, sweep, confJson, conformance, perf>>

(* An invocation of workloads.py: run.json first, whole; its rows one by     *)
(* one, each over the row of that workload the file holds.                   *)
Row(w) == [w |-> w, build |-> tree, dataset |-> datasetNow, when |-> clock']

Measure(l) ==
    /\ Tick
    /\ runJson' = [runJson EXCEPT ![l] = {[build |-> tree, dataset |-> datasetNow, when |-> clock']}]
    /\ \E done \in {{}, {"W2", "W4"}, {"W11"}, Workload} :
          rowsJson' = [rowsJson EXCEPT ![l] = {r \in @ : r.w \notin done} \cup {Row(w) : w \in done}]
    /\ UNCHANGED <<tree, datasetNow, sweep, confJson, conformance, perf>>

Sweep(l) ==
    /\ Tick /\ rowsJson[l] # {}
    /\ sweep' = [sweep EXCEPT ![l] = @ \cup {datasetNow}]
    /\ UNCHANGED <<tree, datasetNow, runJson, rowsJson, confJson, conformance, perf>>

(* One comparison, copied to both labels: of the build in the tree, on the   *)
(* data at hand, at the tier it reached.                                     *)
Differ ==
    /\ Tick
    /\ \E tier \in {"T0", "T1", "T3"} :
          confJson' = [l \in Label |->
              {[hash |-> <<tree, datasetNow, tier>>, build |-> tree, dataset |-> datasetNow,
                licensesPerf |-> tier # "T0", licensesComparative |-> tier = "T3"]}]
    /\ UNCHANGED <<tree, datasetNow, runJson, rowsJson, sweep, conformance, perf>>

-----------------------------------------------------------------------------
(* mixed_build_reasons: rows.json merges in place.                           *)
Mixed(l) == l = "sm" /\ Cardinality({Own(l, r.build) : r \in rowsJson[l]}) > 1

(* recall_for: a sweep of the run's own dataset, of a collection no row of   *)
(* the label mutated.                                                        *)
HasRecall(l, w, meta) == w \notin NotJoinable /\ meta.dataset \in sweep[l]

\* Mutant: the licence may be another commit's.
RefusedAnyCommit(l, r, conf, meta) ==
    \/ ~\E c \in conformance' : c = conf
    \/ ~conf.licensesPerf
    \/ l = "sm" /\ r.build.isa # conf.build.isa
    \/ meta.dataset # conf.dataset
    \/ l = "qd" /\ meta.build.qdrant # conf.build.qdrant
    \/ r.w \notin Plumbing /\ ~HasRecall(l, r.w, meta)

(* insert_perf, refusal by refusal.  Qdrant's label names no strawmann       *)
(* build: it files under the one the differ's row names.                     *)
Refused(l, r, conf, meta) ==
    \/ ~\E c \in conformance' : c = conf
    \/ ~conf.licensesPerf
    \/ l = "sm" /\ r.build.isa # conf.build.isa       \* the row's own stamp
    \/ meta.dataset # conf.dataset
    \/ l = "sm" /\ meta.build.commit # conf.build.commit
    \/ l = "qd" /\ meta.build.qdrant # conf.build.qdrant
    \/ r.w \notin Plumbing /\ ~HasRecall(l, r.w, meta)

Entry(l, r, conf, meta) ==
    [workload |-> r.w, engine |-> l, hash |-> conf.hash, when |-> r.when,
     recall |-> HasRecall(l, r.w, meta), row |-> r, orphan |-> r.when < meta.when]

SameKey(a, b) ==
    /\ a.workload = b.workload /\ a.engine = b.engine
    /\ a.hash = b.hash /\ a.when = b.when

Upsert(es) == {p \in perf : ~\E e \in es : SameKey(p, e)} \cup es

(* ingest_run: the differ's row goes in whatever becomes of the rows.        *)
Ingest(l) ==
    /\ runJson[l] # NoFile /\ rowsJson[l] # {}
    /\ conformance' = {c \in conformance : ~\E d \in confJson[l] : d.hash = c.hash} \cup confJson[l]
    /\ perf' = IF Mixed(l) \/ confJson[l] = NoFile THEN perf
               ELSE Upsert({Entry(l, t[1], t[2], t[3]) :
                        t \in {u \in rowsJson[l] \X confJson[l] \X runJson[l] :
                                 ~Refused(l, u[1], u[2], u[3])}})
    /\ UNCHANGED <<tree, datasetNow, runJson, rowsJson, sweep, confJson, clock>>

SinkNext == Rebuild \/ Differ \/ \E l \in Label : Measure(l) \/ Sweep(l) \/ Ingest(l)

-----------------------------------------------------------------------------
(* compare: per differ run the newest row of each engine with a recall, then *)
(* the newest such pair.                                                     *)
Ranked(w, hash, l) == {p \in perf : p.workload = w /\ p.hash = hash /\ p.engine = l /\ p.recall}
NewestOf(ps) == CHOOSE p \in ps : \A q \in ps : q.when <= p.when
Hashes(w) == {p.hash : p \in {q \in perf : q.workload = w}}
PairsOf(w) ==
    {[sm |-> NewestOf(Ranked(w, h, "sm")), qd |-> NewestOf(Ranked(w, h, "qd"))] :
        h \in {g \in Hashes(w) : \A l \in Label : Ranked(w, g, l) # {}}}
Newer(p) == IF p.sm.when > p.qd.when THEN p.sm.when ELSE p.qd.when
Published(w) ==
    {p \in PairsOf(w) :
        /\ \A q \in PairsOf(w) : Newer(q) <= Newer(p)
        /\ \E c \in conformance : c.hash = p.sm.hash /\ c.licensesComparative}

-----------------------------------------------------------------------------
SinkTypeOK ==
    /\ tree \in Builds /\ datasetNow \in {"sift", "dbp"} /\ clock \in 0..MaxTimes
    /\ \A l \in Label : \A r, s \in rowsJson[l] : r.w = s.w => r = s
    /\ \A c, d \in conformance : c.hash = d.hash => c = d
    /\ \A p, q \in perf : SameKey(p, q) => p = q

(* "No performance number is publishable unless the same build, on the same  *)
(* data, has a green conformance row": whichever of a label's files is older *)
(* than the others, and in whatever order labels are ingested again, a row   *)
(* of the session its run.json names is in the sink only under a licence of  *)
(* its own dataset and of its own engine's build; and a ratio is of two such *)
(* rows over one dataset.  A row an earlier session left in rows.json is     *)
(* ingested under the newer licence, whatever it was measured on.            *)
SinkIsLicensed ==
    /\ \A p \in perf : \E c \in conformance :
          /\ c.hash = p.hash /\ c.licensesPerf
          /\ p.workload \in Plumbing \/ p.recall
          /\ ~p.orphan => p.row.dataset = c.dataset
          /\ ~p.orphan => Own(p.engine, p.row.build) = Own(p.engine, c.build)
    /\ \A w \in Workload : \A p \in Published(w) :
          ~p.sm.orphan /\ ~p.qd.orphan => p.sm.row.dataset = p.qd.row.dataset

(* Why it holds: a row no older than its label's run.json is of that         *)
(* invocation, and what a differ's row says follows from its hash.           *)
RowsDated ==
    \A l \in Label : \A r \in rowsJson[l], m \in runJson[l] :
        r.when <= m.when /\ (r.when = m.when => r.build = m.build /\ r.dataset = m.dataset)
FilesHeld ==
    /\ tree \in Builds /\ clock \in 0..MaxTimes
    /\ runJson \in [Label -> SUBSET [build : Builds, dataset : {"sift", "dbp"}, when : 0..clock]]
    /\ rowsJson \in [Label -> SUBSET [w : Workload, build : Builds, dataset : {"sift", "dbp"},
                                      when : 0..clock]]
    /\ datasetNow \in {"sift", "dbp"}
SaysItsHash(c) ==
    /\ c.build \in Builds
    /\ c = [hash |-> c.hash, build |-> c.hash[1], dataset |-> c.hash[2],
            licensesPerf |-> c.hash[3] # "T0", licensesComparative |-> c.hash[3] = "T3"]
ConfHeld ==
    /\ \A l \in Label : \A c \in confJson[l] : SaysItsHash(c)
    /\ \A c \in conformance : SaysItsHash(c)
LicenceHeld ==
    \A p \in perf :
        /\ p.engine \in Label /\ p.when \in 0..clock
        /\ \E c \in conformance :
              /\ c.hash = p.hash /\ c.licensesPerf
              /\ p.workload \in Plumbing \/ p.recall
              /\ ~p.orphan => p.row.dataset = c.dataset
              /\ ~p.orphan => Own(p.engine, p.row.build) = Own(p.engine, c.build)
SinkInv == FilesHeld /\ RowsDated /\ ConfHeld /\ LicenceHeld
=============================================================================
