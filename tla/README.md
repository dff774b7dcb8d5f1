# strawmann in TLA+

strawmann is an approximate-nearest-neighbour server written in Zig that speaks
Qdrant's gRPC interface, kept beside a benchmark harness in Python that measures
it against Qdrant and decides which numbers may be published. This directory
holds TLA+ models of both: the server's concurrent core, and the harness's
control: what it runs in which order, what it keeps, what it refuses. TLC
configurations check them on small instances, TLAPS proofs say what matters most
for every instance. Paths below are relative to the repository; `PROJECT.json`
gives, for every definition, the source lines it stands for. Sections 1 to 6 are
about the server, 7 to 11 about the harness, 12 about what is left.

## 1. The system

    client --TCP--> I/O threads --submit queue--> worker pool --> one collection
                     (net/)        (net/server)    (api/)         (core/, index/)
                        ^                             |                ^   ^
                        +------ completion queues ----+      build thread  tail drainer

| Part | Source | State | Operations |
|---|---|---|---|
| I/O threads, connections | `src/net/server.zig` | epoll set, connection slots, read and write buffers, pause flag, inflight count | accept, read, dispatch, drain completions, flush, pause and resume, close, stop |
| HTTP/2, HPACK, gRPC | `src/net/h2.zig`, `hpack.zig`, `grpc.zig` | stream slots, windows, dynamic table | frames, flow control, GOAWAY |
| Submit and completion queues | `Queue` in `server.zig`, `src/lock.zig` | ring, count, `seq` futex word, `closed` | push, pop, tryPop, close |
| Handlers | `src/api/handlers.zig` | per-worker workspace, batch jobs in request buffers | upsert, delete, query, batch fan-out, scroll, payload |
| Engine registry | `Engine` in `handlers.zig`, `collections.zig` | list of collections, `users` count | create, acquire, release, drop |
| Collection | `src/core/collection.zig`, `ids.zig`, `scroll.zig` | rows, tombstones, graph and store pointers, index state, overwrite log, locks | upsert, overwrite, delete, search, status |
| Background threads | `buildIndex`, `drainTail` in `collection.zig`, `src/index/build.zig` | the graph being made, the chunk being drained | build, publish, retire, reclaim; drain |
| Quantized search | `src/core/quantized.zig`, `quantized_search.zig`, `src/quant/` | codes | encode, publish, two-stage search |
| Payload and text index | `src/core/payload.zig`, `src/text/` | blobs, postings, statistics | set, merge, select |
| Persistence | `src/core/persist.zig`, `storage.zig` | files | save, load |
| Kernels, codecs, start-up | `src/dist/`, `src/proto/`, `src/main.zig` | none shared | arithmetic, encoding |

How they interact. A request is parsed by the I/O thread of its connection and
queued; a worker serves it and queues the completion back. Workers share a
collection without a lock on the read side: writers serialise on `write_lock`,
readers load published pointers and counters under `SearchGuard`. Polls and
searches start a build thread (`ensureIndexBuilding`) or a drainer
(`ensureTailDraining`), which work on unlocked rows and publish under
`write_lock`.

What is hard, and what makes each part correct:

* **Collection.** Writes, searches, a build and a drain all run at once over
  rows, graphs and stores that are replaced and freed. Correct means: nothing
  freed is read; an answer has every row exactly once; a row that changes while
  something reads it is counted or re-encoded; the state machine never strands a
  rebuild or a client.
* **Queues and mutex.** Parking on a word read before the check, close racing
  push and pop. Correct: no item lost, no sleeper left behind.
* **Batch fan-out and registry.** A buffer that is a job's memory until the
  completion is handed off; drop waiting for users. Correct: one completion per
  stream, no use after hand-off, no deadlock.
* **Connections and streams.** Close, pause, GOAWAY and stop with requests in
  flight; slots reused. Correct: each response to its own stream, every pause ends.
* **Scroll, row versions, payload, persistence.** Quiescence of another retired
  list, torn reads, several-step updates that fail in the middle.

`PROJECT.json` "hazards" lists the main ones at their lines, each with the
properties that cover it; section 12 names those no property covers.

## 2. The server's modules

| Module | Models |
|---|---|
| `CollectionState` | CONSTANTS and their assumptions, all VARIABLES, `TypeOK`, `Init`, `needsRebuild` |
| `Ingest` | upsert batches, overwrites, deletes, invalidation, the two triggers |
| `IndexBuild` | the build thread, step by step, and the tail drainer |
| `SearchPath` | one query from `SearchGuard.begin` to `end` |
| `Collection` | `Next`, `Spec` and the properties |
| `MCCollection` | model values and symmetry for TLC |
| `Collection_proofs` | theorems about `Collection`: types and reclamation |
| `Index_proofs` | the rest of `Collection`'s safety, on top of those |
| `WorkQueue` | `Queue` of `server.zig`, the worker loop, the close and join of `Server.stop` |
| `ClosableQueue` | what the queue promises: a bounded FIFO that refuses what comes after close |
| `FutexMutex` | the three-state mutex of `lock.zig` and the futex calls under it |
| `MutexContract` | what the callers of `lock` and `unlock` rely on: who asks, who is inside |
| `MCWorkQueue`, `MCFutexMutex` | model values for TLC |
| `FutexMutex_proofs` | theorems about `FutexMutex` |
| `WorkQueue_proofs` | theorems about `WorkQueue` |

`FutexMutex` implements `MutexContract`, which is what lets `WorkQueue` and the collection
modules take a critical section for one action; `WorkQueue` implements
`ClosableQueue`. The collection modules do not yet take their requests from
`WorkQueue`: a worker there may begin any operation of its role at any time.

The next three paragraphs are about the collection.

**State.** Variables have the names of the fields: `graph`, `graph_count`,
`quant`, `index_state`, `overwrite_log`, `drain_to`, `retired_graphs` and so on;
`next` is `id_space.next`. A graph is an element of `Graphs`: `count[g]` is its
field `count` and `node[g][r]` says what it holds for row `r`: `none`, `current`
(the vector the row has now) or `stale` (one since overwritten). `code[s][r]`
says the same of a quantized store. `heap` and `qheap` are what is allocated. A
thread's position is in `pc` (workers), `bpc` (build thread) and `dpc` (drainer),
its locals are the variables declared after those. `start` is a history variable.

**Steps.** What becomes visible at one store, or runs under `write_lock` with
everything it reads written only under that lock, is one action. So an append
is one action (the row is invisible until `next` moves), and so is an overwrite
from the row write to the unlock. Everything read without a lock is a step of its
own: the state, the total and the decision of `invalidateIndex`, and its store;
the search's loads of graph, store and count; each row the build or the drainer
reads, in any order; the drainer's two counters; the four stores of a publication
(graph, `graph_count`, `overwritten_since_build`, `index_state`), which the build
makes one after another under `write_lock`; its own look and store in
`invalidateIndex`; the check and the free of `reclaimRetired`. `moved` is the
build's local of that name.

**Coarser than the code, and why that is enough.**
* `ensureTailDraining`'s unlocked early-outs are one look (`MaybeDrain`); its
  exchange under `build_thread_lock` repeats the only test its effect rests on.
* `drainChunk`'s tests are one look (`DrainBegin`): all of them are stable while
  `index_writer` is held, but for the state and the count of overwrites, which
  only make it stop a chunk earlier or later.
* `needsRebuild`'s loads of `graph_count` and `overwritten_since_build` are one
  step after the load of the total, which is the load that goes stale: a
  publication's stores may fall between the total and the two, not between the
  two. An older count with the newer overwrites could only find a rebuild due that
  is not (one build more), never miss one that the newer count finds.
* `indexed_count`, stored beside `graph_count` for the status answer, is left out.
* `noteOverwrite` holds `SearchGuard` for a moment; it could only postpone a
  reclaim, which a search in flight already does.
* The copy that starts an extension is one step: while `index_writer` is held
  nothing links into the published graph, so what it copies cannot move, except
  that a row's vector may be overwritten, which counts the row.
* What a traversal visits is not modelled: `hits` is all it may return.
* A failed allocation of a retire-list entry leaks by design and is left out;
  cancellation by drop is one of the ways `BuildFail` fires.
* The atomics involved in publication are sequentially consistent in the source
  (`SearchGuard.begin` explains why); the rest are acquire and release pairs, or
  under locks. The model is sequentially consistent.

**Queue and mutex.** `ring`, `head`, `tail`, `count`, `seq` and `closed` are the
queue's fields; `sent` says which requests have been offered, `taken` is a
history. What `push` and `pop` do under the mutex is one action. Everything else
is a step of its own: the load of `seq` into `observed`, the look at `closed`
after the mutex is let go, the bump and the wake. `seq` is unbounded in the
model: the code's wraps at 2^32, and a worker would have to be between its load
and its wait for that many pushes. `futexWait` compares and sleeps in one step and
a sleeper may wake for no reason, in both modules; `cmpxchgWeak` may fail on a
word that matches. The I/O thread's answer to a refused request is not state of
the queue; the worker that runs a refused piece itself goes on serving.

## 3. What the server's runs check

The first six runs are of `MCCollection`, check deadlock, and use a rebuild ratio of 1/1,
so that with two or three rows both "a tail that may wait" and "a rebuild is
due" occur; the code's 0.10 would need more than ten rows for the first.

| Run | Instance | Properties |
|---|---|---|
| `fp32` | 3 rows, 3 graphs, no stores, chunks of 2; one worker upserts, one polls and searches | `TypeOK`, `NoDanglingRead`, `EachRowOnce`, `StaleRowsCounted`, `CountsAgree`, `NeverCoversLess` |
| `quantized` | 2 rows, 2 graphs, 2 stores, failing builds and payloads, deletes | `NoDanglingRead`, `CodesCurrent`, `StoreCoversTraversal` |
| `writers` | 3 rows, 2 graphs; two workers that upsert and poll, failing builds and spawns | `NoStrandedRebuild`, `BuildingHasBuilder` |
| `join_in_flight` | as `writers`, no faults | `JoinIsImmediate` is violated |
| `covered_assert` | as `writers`, no faults | `CoveredWithinTotal` is violated |
| `rejected_payload` | as `writers`, rejected payloads only | `NoStrandedRebuild` is violated |
| `mutex` | 4 threads | `MutualExclusion`, `NoLostWakeup`, `ImplementsLock`, `Progress` |
| `queue` | 1 I/O thread, 2 workers, 3 requests, a ring of 2 | `NoneSleepsOverWork`, `ImplementsQueue`, `EachServed`, `StopEnds` |
| `left_behind` | as `queue` | `NothingLeftBehind` is violated |

What each property says:

* `NoDanglingRead`: neither a search's graph and store nor the published ones
  are ever freed, although `reclaimRetired` looks for readers once and frees later.
* `EachRowOnce`: a search's two regions partition the rows published before it
  began, with the drainer linking into the very graph it traverses. The bound a
  query puts on its traversal (`Bounded`) is what holds this.
* `StaleRowsCounted`: a row the served graph holds at an old vector is counted,
  whether it changed while a build read it (`overwrite_log`) or while the drainer
  linked it (`drain_to`).
* `CodesCurrent`: the served codes are those of the present vectors, but for rows
  that the next publish will replay.
* `StoreCoversTraversal`: a search that pairs a graph with a store published
  earlier or later still finds a code for every row it can reach.
* `CountsAgree`, `NeverCoversLess`: what `index_writer` is for. `graph_count`,
  which request threads load without a lock, is never ahead of the graph's own
  count; it lags it only between the drainer's two stores, or between a
  publication's store of the graph and of the count, where a reader may well see
  the new graph with the old count. No publish undoes a drain.
* `NoStrandedRebuild`: with no request and no build running, a collection that
  says ready has no rebuild due (ready is what the next poll will leave alone).
* `BuildingHasBuilder`: building is always somebody's. With failing builds and
  spawns, and with absent stored over building by a late invalidation.

* `NoLostWakeup`: while a thread sleeps on the mutex, the word makes the next
  unlock wake one, or a thread that will set it so, or wake one, is on its way.
  `Progress`: a thread that wants the mutex is never left with nobody inside.
* `ImplementsLock`, `ImplementsQueue`: refinement of the abstract modules. For the
  mutex: only one that asked comes in, alone, and only the one inside lets go. For
  the queue this says that two indices, a count and a refusal under the mutex
  give every accepted request once, in order, and accept none after the close.
* `NoneSleepsOverWork`: while the queue is open and a worker sleeps, there is an
  awake worker in `pop`, or a wake on its way, for every request queued. It rests
  on `seq` being read before the look at the queue.
* `EachServed`, `StopEnds`: an accepted request is taken unless the server stops,
  and a stop joins every worker, those that were parked at the close included.

Why the bounds are enough. Four threads give the mutex a holder, a waker, a
sleeper and a newcomer at once. Two workers, three requests and a ring of two let
the ring fill and both indices wrap, with one worker asleep while the other
serves, pushes a piece or finds the queue empty. For the collection, two workers give every pair of request steps; a build
and a drainer are the only background threads a collection has. Three rows allow
a covered row, a row in the chunk and a row in the tail at once (`fp32`,
`writers`); a quantized collection is never drained, so two rows, one covered and
one in the tail, suffice there. Three graphs are the served one, a retired one
that a search holds, and the one being built; with fewer, an allocation that
finds no room is a failed build. `MaxOverwritten` and `MaxDeleted` bound counters
that would otherwise grow for ever; one overwrite is what each race needs. Roles
(`Upserters`, `Searchers`, `Pollers`, `Deleters`) split the operations over the
workers to keep the instances small. Symmetry is over graphs and stores, which
the code never orders, and over workers where they have the same roles.

Each property of a passing run has a mutant in `PROJECT.json`: a definition
changed as a plausible bug would change it, under which TLC finds the property
violated.

**Fairness.** `Collection` states none: its properties are safety. The liveness
its code promises (a build that is due is eventually made, a tail is eventually
drained, what is retired is eventually freed) needs weak fairness of each thread's
steps, which the scheduler gives, and a bound on new searches, which nothing does.
`FutexMutex` and `WorkQueue` have a `FairSpec`: weak fairness of the steps of every
thread that is not asleep in a futex, which is the kernel's scheduler; of leaving
a critical section and of returning from a handler, since every one of them is a
bounded computation; and of a stop that has begun. Nothing is assumed of those
who are free to act or not: a call of `lock`, a push, the stop itself, a wake for
no reason. `Progress` says that someone gets the mutex, not that everyone does: it
is not a fair lock.

## 4. Disagreements found in the server

1. **A join that is not immediate** (`join_in_flight`). `ensureIndexBuilding`
   says that winning the exchange means the earlier build has exited.
   `invalidateIndex` stores absent with a plain store, so a handler delayed
   between its test and its store puts absent over building; the next poll wins
   and joins a running build with `build_thread_lock` held.
2. **An assertion on two loads** (`covered_assert`). `needsRebuild` asserts that
   `graph_count` is at most a row count loaded before it, without a lock; rows
   appended in between and then covered, by a rebuild's publish or by a drain, make
   it false.
3. **A rejected payload skips the invalidation** (`rejected_payload`). The comment
   above the handler's `defer` asks every exit to invalidate; an overwrite whose
   payload is rejected has changed and counted the row, but `written` is still 0.
   `writers` runs without rejected payloads for this reason: there the property
   holds.
4. **A request left in a closed queue** (`left_behind`). `pop` "returns null once
   closed and drained", but looks at the count under the mutex and at `closed`
   after it. If a push and the close both fall between the two, every worker that
   had found the queue empty leaves, and the request is never answered. Reading
   `closed` under the same lock as the count would make the comment true.

## 5. What is proved of the server

`Collection_proofs`, for every value of the constants that satisfies
`RolesAssumption`, `HeapAssumption` (finitely many workers, null pointers are not
allocations) and `BoundsAssumption`:

* `TypeCorrect`: `Spec => []TypeOK`
* `ReclamationSafe`: `Spec => []NoDanglingRead`

Neither is inductive alone. `CollectionInv` adds to the type what makes
reclamation work:

* `GraphsHeld`, `StoresHeld`: the published, the new, the just-replaced and the
  retired allocations are in the heap and distinct from one another, so freeing
  the retired ones, or what a failed build made, takes nothing that is served;
* `HandlesInSearch`: a worker holds a graph or a store only between `begin` and
  `end`, so a count of zero means no handles;
* `NoOldReaders`: at the step between `reclaimRetired`'s check and its free, no
  search holds anything retired. Those that began after the check loaded what
  was published before it, and only the build thread publishes.

The last is the argument the source makes in prose in `SearchGuard.begin` and
`reclaimRetired`. `InitInv` and `NextInv` are the induction; `WorkerTypes`,
`BuilderTypes`, `DrainerTypes`, `WorkerHandles`, `BuilderHandles` and
`DrainerHandles` split it by thread and by conjunct. TLC checked `CollectionInv`
on the `fp32` and `quantized` instances before it was proved.

`Index_proofs`, on the same assumptions (and `RebuildNum`, `RebuildDen` and
`DrainChunk` positive), proves every other safety property of `Collection`:

* `CountsCorrect`, `NeverCoversLessCorrect`, `EachRowOnceCorrect`,
  `StaleRowsCountedCorrect`, `CodesCurrentCorrect`, `StoreCoversTraversalCorrect`:
  `Spec => []P`, for `NeverCoversLess` the action property;
* `BuildingHasBuilderCorrect`: `Spec => []BuildingHasBuilder`;
* `NoStrandedRebuildCorrect`: `~PayloadFaults /\ Spec => []NoStrandedRebuild`. With
  rejected payloads it is false, which is what `rejected_payload` shows.

They come from one chain. `IndexInv` is `CollectionInv` and, each resting on those
before it:

* `LocksHeld`: who holds `index_writer` and `write_lock` at which step of the build,
  the drainer and the workers;
* `CountsHeld`: the published graph covers at least what any graph in use covers,
  the one being made will cover no less, and the drainer's chunk begins where the
  published one ends. This is what the exclusion by `index_writer` buys;
* `LinksHeld`: a graph has a node for every row below its count, but for the
  rows the build or the drainer still has on its list;
* `StaleHeld` (`DrainedAnnounced`, `OverwritesLogged`, `MovedCounted`): an old
  vector in the graph is counted, or in the drainer's announced chunk, or on the
  build's log, or in what the publication in progress is about to count;
* `SearchHeld` (`AnswerHeld`): what a search loaded bounds what it may visit;
* `CodesHeld` (`PublishedCodes`, `MadeCodes`, `HeldCodes`): the same for the codes
  of the served store, of the one being made, and of the one a search holds.

The state machine has two invariants of its own. `BuildingHeld` says that
building is a running build or a worker between its exchange and its spawn;
`DueHeld` says that a rebuild that is due while the state is ready is known to a
batch that has still to look, which is exactly what the `defer` in the handler is
for.

`FutexMutex_proofs`, for any set of threads:

* `MutexSafe`: `Spec => []MutualExclusion`
* `WakeupsKept`: `Spec => []NoLostWakeup`
* `MutexIsLock`: `Spec => ImplementsLock`

The invariant is `MutexInv`: the type, the two properties, and `WordTells`, that
the word is unlocked exactly when nobody is inside, without which a swap that
returns unlocked would not mean that the section is free. `MutexIsLock`
maps `asking` to the threads inside a call of `lock` and `inside` to those in the
section. A call asks, an exchange that finds the word unlocked enters, the swap of
`unlock` leaves (the wake after it is no longer part of the section), and every wait,
wake and failed exchange is a stutter.

`WorkQueue_proofs`, for any finite sets of I/O threads and workers and a ring of
any size from one (`RoomAssumption`, `ThreadsAssumption`, `ItemsAssumption`):

* `TypeCorrect`: `Spec => []TypeOK`
* `NoneSleeps`: `Spec => []NoneSleepsOverWork`
* `QueueRefines`: `Spec => ImplementsQueue`

`QueueInv` adds to the types `PlacesHeld` (only workers park), `RingHeld` (the
slots from `head` to `tail`, round the end of the ring, hold requests) and
`WordHeld`: a worker that is about to park on the present word has seen an empty
queue, so that every request now in it came with a push that has not reached the
word yet, and that worker will be woken by it or will not park. `NoneSleeps` then
counts: `Cardinality` of the workers that look and of the wakes to come, over
finite sets. `QueueRefines` maps the abstract sequence's k-th request to
`Slot(k)`; `Wraps` is the lemma about the index that runs round the ring, and a
push or a pop is then an append or a tail (`SlotsInOrder`).

What stays with TLC of the server: `EachServed`, `StopEnds` and `Progress`, which are
liveness under fairness and out of the prover's reach, and the four
disagreements, which are counterexamples.

## 6. What is not modelled of the server

`PROJECT.json` lists the parts with their reasons. Kernels, byte codecs, text
processing and start-up stay out: arithmetic, formats and I/O that TLC cannot say
much about. The engine registry, the batch fan-out, connections and streams, the
scan gate, scroll, row versions, payload, the pure algorithms and persistence are
planned (section 12).

## 7. The harness

    nightrun, chains, A/B drivers
        |                                  /proc, perf       datasets, host set-up
        v                                      |                    |
    fullrun: admit, build --> arm: rows, sweeps, read-backs, drops  |
        |         (engines, ports, storage)    |                    v
        |                     rows.json, run.json, collections.json, recall.*.json
        v                                      v
    fold of the passes --> differ's licence --> compare, results sink, report, README
                                               |
                                               v
                                       retention of labels

It is Python that starts other programs: two engines, a load generator, a
conformance binary, `docker`, `curl`, `git`. There are few threads (the counter
sampler is one) but a great deal of state that outlives a process: engines still
listening, arenas on disk, and a directory per label whose files are written at
different moments by programs any of which may die. That is where its hazards are.

| Part | Source | Module | State kept between steps |
|---|---|---|---|
| Which collections live how long | `workloads.py`, `recall.py`, `fullrun.py` | `Plan` | none: sets computed from the table |
| One arm | `measure` in `fullrun.py` | `Arm` | the engine's collections, `collections.json`, the arm's status |
| Engines of a run | `fullrun.py` | `Engines` | processes and their ports, storage directories |
| A run, and the next one | `main` of `fullrun.py`, `aggregate.py` | `FullRun` | the label directories, README's table, the tree's commit |
| Rows of a pass | `workloads.py` | `RowRunner` | `n_factors.json`, `rows.json` |
| Folding | `aggregate.py` | `PassFold` | none |
| A row's comparison | `compare.py` | `Verdict` | none |
| Counters of a row | `procstat.py`, `perfstat.py` | `Sampler` | snapshots, the sampler thread's banks |
| Foreign load | `host_load.py`, `setup.py` | `HostLoad` | two samples of `/proc` |
| Waits | `fullrun.py`, `workloads.py` | `Settle` | the last polls, the engine's windows |
| Host set-up | `setup.py` | `HostSetup` | the host's settings |
| Recall sweeps | `recall.py` | `RecallJoin` | sweep files under several names |
| Results sink | `results.py` | `Sink` | the database, the files it joins |
| Retention | `fullrun.py` | `Retention` | the label directories |
| Noise floor | `regression.py`, `aggregate.py`, `compare.py` | `NoiseFloor` | `noise.json`, per label and global |
| A/B drivers | seven `*_ab.py`, probe and sweep drivers | `Sessions` | the engine, its data, an environment variable |
| Unattended runs | `nightrun.py`, `phase1_chain.py`, `planner_ab.py` | `Night` | the night's directory |
| Run record | `provenance.py` | `Provenance` | checkouts, built files, the serving image |
| Datasets | `conformance/datasets/datasets.py` | `Fetch` | files, members, links |
| Pre-push gate | `scripts/check.py` | `Gate` | the tree, the canary in it |
| Report page | `report.py`, `report_data.py` | `Page` | rows, run records, licences of two labels |

How they correspond. `Arm` EXTENDS `Plan`: its constant `Table` stands for
`table()`, its phases for the statements of `measure`, and a row's result is what
its collection was at that moment (`loaded`, `partial` after a failed upload,
`grown` after appends, `dropped`). `FullRun` EXTENDS `Engines` and takes an arm
for its calls of `workloads.py` (`Calls`), each one step: the rows of a call are
merged into the label's `rows.json` together at its end, beside those of the other
calls and of earlier runs (`workloads.py:3799-3820`), and a call that fails is followed by the
next. A label
directory is four files (`rows`, `meta`, `back`, `conf`), each with the session and
build it is of, since each is written at its own moment. The other modules are one component each and
meet through those files: what a module's environment may leave in a file is what
the module that writes it can produce. `Verdict`, `Page`, `Sink` and `NoiseFloor`
read labels, `RecallJoin` and `RowRunner` write them.

The commands themselves (engines, `perf`, `curl`, the differ) are external and
modelled by the outcomes the code tells apart. A row's numbers are a few values;
timestamps are a counter; a digest is the thing it is a digest of. `StateAt` in
`Arm` runs an invocation in one step because nothing else acts on the engine's
collections meanwhile; an invocation may die before any of its rows, and of the
collections a drop names any may stay. `Sweep` follows recall.py's refusal of a collection
that is not as uploaded. `Sampler` has the two polls of the sampler's thread
(`LoopRead`, `LoopBank`) apart, for `stop` joins it with a timeout and polls again
beside it. A reused thread id is left out: it needs 2^22 threads in one row.

`Harness` puts eighteen of these parts into one state space: `part` picks one,
`Arm` and `Fetch` have their own variables, every other part runs in registers
through an INSTANCE ... WITH. Every part's tables and bounds are constants of
`Harness`; `MCHarness` has the tables the runs use, `Parts.cfg` the bounds. A behaviour is of one part from its own initial
states, so the state space is the sum of the parts', not their product.

## 8. What the harness's runs check

| Run | Instance | Properties |
|---|---|---|
| `fullrun` | 2 runs, any 2 faults, one repeated question for admission, 2 calls an arm, 5 command lines | `TypeOK`, `MeasuresOwnEngine`, `NothingLeft`, `PublishedIsFit`, `LicensedWithinSession`, `EveryRunEnds` |
| `stale_fold` | as `fullrun` | `LicensedBySameBuild` is violated |
| `parts` | each part as below | the fifteen properties below |

`FullRun`:

* `MeasuresOwnEngine`: while rows are measured, the port they address is served by
  one process, the engine this run started, of the binary it built, whatever an
  interrupted run left. strawmANN listens with SO_REUSEPORT, so nothing else would
  notice a second one.
* `NothingLeft`: a run that ended by itself left no engine, and its storage is
  empty unless a wipe failed.
* `PublishedIsFit`: README's table never shows a row any pass of which was measured
  under a failed gate or foreign load, rows the differ does not license, or rows over
  an index that its read-back (a fold's: its first pass's) found incomplete; and a
  ratio in it is of rows measured at least twice on both sides. A row *without* a
  ratio may be of a single pass, see section 9.
* `LicensedWithinSession`: a published ratio is of the build the differ tested,
  whenever the folded passes are of one session.
* `EveryRunEnds`: every run comes back to idle.

`parts`, where a property speaks of the part that is running:

| Property | Part | What it says |
|---|---|---|
| `PartsTyped` | all | types |
| `NothingReadAfterDrop` | arm | no row and no sweep searches a collection the arm dropped |
| `MeasuredAsUploaded` | arm | only rows with a writer of their own search a collection that has grown |
| `ArmKeepsOrder` | arm | unless a read-back failed, what is dropped has its record; unless a drop failed, isolated encodings are in memory one at a time |
| `FoldsSaySo` | row, fold | passes that are folded ran one configuration, no pass wrote twice; the order of the passes decides nothing but a drift |
| `VerdictIsFair` | verdict | naming the arms the other way round refuses the same rows for the same reason; a row that is not refused is of one harness, one build, a quiet host and its own session; a number is of ok rows, equal recall and built indexes |
| `CountersAreTheRows` | sampler | a row's counters are never more than the engine did in its window, never half of them, and all of it for the threads that lived to the last poll |
| `HostIsSeen` | load, settle | a row beside more foreign work than the budget is condemned and no other is; a wait that ended at a floor ended with nothing foreign running, and an engine called idle had used nothing for three windows in a row, its rate being of the last |
| `SetUpIsEnough` | fetch, setup | a dataset that is vouched for is the upstream one; an apply whose writes were taken passes the check |
| `RecallIsTheRows` | join | a row's recall is of its collection, parameters, filter and walk; of its dataset and width too if the sweep is this harness's. An older file is held to the dataset it says and to no width, see section 9 |
| `SinkIsFaithful` | sink | a stored row of the session `run.json` names has a licence of its engine's build and of its dataset; a ratio of two such rows is over one dataset. A row of an earlier session is exempt, see section 9 |
| `PageIsFaithful` | page, floor | alternated, equally loaded and licensed mean what they say; a band is a spread of the same place |
| `ResultsAreKept` | retention, night | a measurement is pruned whole or not at all, never while cited, annotated or fresh; a night's log is of one launch and its page its own |
| `ArmsAndGatesAreNamed` | session, gate | what is filed under an arm was served as that arm from its own data; a green gate saw no defect from its start to its end, and CI runs it by itself |
| `RunJsonIsTheServer` | record | the record names the image that served |

**Bounds, and why they are enough.** `fullrun`: two runs are what it takes for one
to meet what another left, and labels hold nothing older than the run before;
two faults let an interrupt or a kill meet a failed wipe, start or pass; `MaxReps`,
the most passes a command line may ask for, is two there, and so are `Invocations`
(`invocations_per_arm` counts four or more; two are what it takes for one call to die
beside another's rows); the five
command lines are the two ways Qdrant is started, one and two passes, an arm, both
arms or the differ skipped, and `--lax`. Commits are two, since only "the same" and
"another" are told apart.

`parts`: the table has ten rows that are of every kind `Plan` tells apart (a
plain upload, a dead one, one that is swept and grown, two isolated encodings); a
row runner has four rows, two passes, one retry of each kind and three oddities;
three passes of six throughputs give a fold a median, an outlier, a drift and
noise; two oddities among rows and labels let one refusal hide another; two
threads, one of which may be there from the start, and two increments; three
bursts and two process events around two samples; two CPUs and two meddlings; two
sweeps; four writes of a label's files (`Sink`, `Page`); two folds; two
repetitions and three troubles in a driver's session; three launches of a night;
four polls and two shifts of the host's load; four edits, builds or commits;
two edits of a tree under the gate. Each is one more than the shortest
way to a wrong result that we know of; the mutants show that it is reached.

`CHECK_DEADLOCK FALSE` in these configurations: the tools end.

**Fairness.** `FullRun` has weak fairness of `Main`, the steps the process takes by
itself. The code justifies it: each tool is waited for with a timeout or ends by
itself, an engine's answer is polled for a bounded time, and `--wait-for-gate` has
a deadline (`MaxAsks` is its bound in questions). It is not assumed of Ctrl-C, a
kill, a commit, or the operator who frees a port. The other parts state none:
their properties are safety.

## 9. A disagreement found in the harness

**A fold of two sessions** (`stale_fold`). `aggregate.py` takes everything but the
numbers from the first pass, "because it describes the configuration rather than
the outcome", and does not compare the passes' sessions or builds. When a label is
used again and a later pass dies before its rows are written, the directory of
that pass still holds the earlier run's rows. The fold's medians are then of two
builds, its rows carry pass 1's session and build, so `orphaned_row_reasons` and
`mixed_build_reasons` find nothing, and a ratio goes out under the licence of the
newer build. Comparing `session` over the passes in `main` would close it.

Smaller observations made while modelling, none of them a checked claim:

* A single pass can reach README's table, without a ratio. `publish_refusals` means
  to withhold the write where a label "is a single pass" (`fullrun.py:1999-2011`) but
  asks only whether *no* row has two (`2006`). When a label that holds a folded run is
  used again with `--reps 1` and one of the arm's calls of `workloads.py` dies, its
  `rows.json` has the new call's single-pass rows beside the older folded ones, and
  the table is written with both (a behaviour of the run `fullrun`); the ratios are
  withheld only because `compare.py` finds rows older than the `run.json` beside
  them. A fold no row of which was in every pass leaves an empty `rows.json`, which
  passes too.
* `open_loop_mismatch` says nothing when both arms are `pinned`, though by
  different references (`report.py:1403`); `Page` excludes this as `PinnedApart`.
* `interleaving` calls a pair of folds alternated "by construction"; two sessions of
  one arm each, with `--reps 2`, give A-then-B (`report.py:2265`). `Page`'s claim is
  therefore made of folds of one session.
* `fetch` resumes over a full-size file that has rotted, which cannot repair it:
  the file stays refused until it is removed. `extract` believes members by size.
* `perf_of` reads run.json, not the row: after an `--only` under another perf
  setting, the saturation row is taken for one of that setting.
* A sweep that names no dataset speaks for any. `load_recall_json` means to believe
  "only a file whose own `dataset` and `collection` fields say what the caller asked
  for" (`recall.py:280`), but takes the caller's dataset where the file has none (`315`),
  so an older file is joined to whatever corpus the label is of. Nor does it ask a
  file's `limit` (`313-338`), though `recall_path` says that it "joins on all five"
  (`158`): only the newer names tell a width. And a row that does not say its walk
  follows its label's stamp (`400-402`), which may since be of another setting.
  `JoinedSweepIsTheRows` claims what is left, and says so.
* A row that an earlier session left in `rows.json` is ingested under the licence of
  the newer `run.json` (`results.py:488-519`); `SinkIsLicensed` is claimed of the others.
* The sampler's two polls may bank an older reading over a newer one; the
  sum is then short, which `CountsAreTheRows` allows when the join was late.
* `check.py`'s canary restores the text it read: an edit made in between is lost,
  and a kill leaves the canary, which the next run's build then refuses.
* `floor_for` gives no environment when two folds disagree, and a comparison
  treats "none" permissively (`regression.py:258`).
* `label_stem` and `previous_pair` compare month and day without a year.

## 10. What is proved of the harness

`Arm_proofs`, for every table, every set of swept collections and every list of
isolated encodings that satisfy `TableAssumption` (rows are uploads or searches,
and an upload has no background writer) and `EncodingsAssumption` (an isolated
encoding's collection is one that is swept, its own, and not grown by a writer):

* `TypeCorrect`: `Spec => []TypeOK`
* `DropsAreSafe`: `Spec => []NothingReadAfterDrop`
* `UploadsAreMeasured`: `Spec => []MeasuredAsUploaded`
* `RecordsAreOfTheMeasured`, `IsolatedAreAlone`, and from the two
  `ReadBacksAndDropsInOrder`: `Spec => []ArmKeepsOrder`

These are the theorems the harness rests on when a row is added to the table: the
drops are computed, and nobody looks at them again. None of the properties is
inductive, for each speaks of what was seen and not of what is about to be. The
strengthenings say what has happened by each phase:

* `DropsSoFar`: which of the computed sets may have been dropped by now, and which
  isolated encodings; with `Standing` and `RestRowsAfterEarly` (set facts about
  `Plan`), what each later phase searches is disjoint from them;
* `NotGrownYet`: nothing has grown before the last rows, which `WritersApart` shows
  to be the only ones with a writer;
* `RecordsSoFar`: what the next drop names has its record, and the survivors have
  theirs before the appends; the second look then finds none to make up for;
* `LoadedSoFar`: which collections are gone at each phase.

`StateAtCases`, `Invocation`, `CaptureEffect`, `RecaptureEffect`, `DropEffect` and
`SweepEffect` say once what a tool does, and every step cites them.

`Measuring_proofs` first, for any set of files: `VouchingIsSound`, `FetchSpec =>
[]VouchedIsWhole`. `Progress` adds that what a fetch under way has still to see to
includes every file that is wrong, so that nothing rots unseen between the survey
and the end.

`FullRun_proofs`, for any number of runs, faults, questions and passes and any set
of command lines (`BoundsAssumption`, `OptionsAssumption`):

* `TypeCorrect`: `Spec => []TypeOK`
* `MeasuresOwn`: `Spec => []MeasuresOwnEngine`
* `LeavesNothing`: `Spec => []NothingLeft`
* `PublishesFit`: `Spec => []PublishedIsFit`
* `LicenceIsOfTheBuild`: `Spec => []LicensedWithinSession`

`RunInv` holds what each phase knows. `EnginesHeld`: no engine but the phase's own
is alive, because no run goes past its admission while something holds a port.
`StoresHeld`: a store is filled only between its engine's start and its finisher.
`RowsHeld`: the verdict of a row is that of all its passes. `PassesHeld`: the rows of
one session in a published label are all folded or all of one pass, since a run either
measures into that label or folds into it; so where no row is older than its
`run.json`, "some row is of two passes", which is all that `publish_refusals` asks,
says it of every row. `BuildHeld` is the
one that had to be found: a session has one build. `Evidence` collects everything on
disk that says of which build a session was, the rows of one session and every
`run.json`; no two of them disagree, and nothing of the present session exists before
its build. A licence and a ratio of the same session are then of the same binary
however labels were used again; without "of one session" it is false
(`stale_fold`).

The parts are proved in two modules: `Measuring_proofs` has those that measure a row
(`Fetch`, `HostSetup`, `HostLoad`, `Settle`, `RowRunner`, `PassFold`, `Sampler`), and
`Harness_proofs`, which extends it and `Arm_proofs`, has the others and the types of
all. They hold for every table and bound of `Harness` that satisfies
`HarnessAssumption` (silence is not a set of parameters; a host has finitely many
CPUs; an engine has finitely many threads, and those that found it are among them;
the coverage floor, the budget of foreign CPU, the polls of a wait and the bounds on
clocks and meddling are natural numbers; a driver is asked for one repetition at least, and a
label has one pass at least to be folded; a throughput that was read is positive) and, for the types alone, `PartBoundsAssumption`
(every other bound is a natural number, the rows of a run and the steps of a chain are
sequences), of all behaviours of the parts (`PartsSpec`):

* `RecallIsTheRowsCorrect`, from `JoinInv`: a file is a sweep's, under a name made of all
  it was asked, or an older harness's, which says all of it but the width and perhaps
  the dataset (`FileTells`), and the file at a running sweep's path is that sweep's
  (`StampsOwn`);
* `RunJsonIsTheServerCorrect`, from `RecordInv`: commits and builds are dated, so that
  what is newer than a build's start cannot be what it was built of;
* `ResultsAreKeptCorrect`: retention needs no invariant beyond the property
  (`PrunedWhole` is a fact about what `Prunable` selects), the night has `NightInv`:
  the log is of one launch, each launch has one code, a page is of the rows beside it;
* `SinkIsFaithfulCorrect`, from `SinkInv`: files are dated (`RowsDated`), a differ's row
  says what its hash says (`ConfHeld`), and each stored row has its licence
  (`LicenceHeld`) although licences are replaced under it (`LicencesStay`). That the
  newest of some rows is one of them is the least-number principle (`LatestExists`);
* `VerdictIsFairCorrect`: the comparison is a list of eighteen answers of which the
  first that applies is given (`FirstAnswer`). `SwapSame` shows of each refusal that
  it looks at both arms or at how far apart they are, so the first that applies is
  the same with the arms exchanged; `VerdictInv` says that a label has a build and a
  recall is a number, whatever is odd about them;
* `SetUpIsEnoughCorrect`, from `SetupInv`: what an apply has not set yet it has still to
  write, whatever is changed behind it; the fetch's half is its `Progress`;
* `HostIsSeenCorrect`, from `LoadInv` and `WaitInv`. `Balanced` is an account kept at
  every read: the foreign work a sample sees is at most what there was, and what it
  takes for the run's own is at most the machine's busy time less the foreign, each up
  to what no process owned when it was read. The sums are over five named processes
  and are written out (`SumsMove`), so that no fold has to be reasoned about.
  A wait keeps what it polled apart from what the host did: the load it read is the
  one that ran when it last slept (`ReadingsHeld`), and the windows it counts as idle are
  the last ones of all it saw (`WindowsHeld`);
* `ArmsAndGatesAreNamedCorrect`, of its two halves. `GateIsGreen`, from `GateInv`: what is
  left to do is a tail of the steps, and a defect that the steps already done rule out
  and that is still there came in after them (`RuledOut`). `SessionsAreNamed`, from
  `SessionsInv`: the plan of every driver has all its repetitions of every arm
  (`PlansAreWhole`), what is not measured yet is left to do (`CoverHeld`), and what serves
  and what is loaded is of the session under way (`EnginesHeld`, `DataHeld`). That a
  rotating order is even is a bijection between the places (`RotatesEvenly`);
* `PageIsFaithfulCorrect`. From `FloorsHeld`: a floor's key names the one place all its
  passes were on. From `PageInv`: the times of two labels do not meet (`TimesHeld`), a
  session pins its rows to one load of its own instrument (`LoadsHeld`), the arms of a
  session of several passes took turns (`TurnsHeld`), one hash is one licence
  (`LicencesHeld`). `TurnsAreBlocks` and `BlocksAreTurns` say that there are more than two
  blocks of passes just when somewhere three passes took turns;
* `FoldsSaySoCorrect`, of its two halves. From `RunnerInv`: a row with an ok measurement
  ran with its pin, or once if it is an upload (`Rightly`, of the rows in hand and of
  those in the file), a pin does not change, and a writer ran once only if it lies before
  the row at hand (`WritersHeld`). The fold needs no invariant beyond its type: in
  another order as many passes are below and above a reading (`ReorderCounts`, a
  bijection), so the median is the same; one pass at most is odd (`OneIsOdd`, linear
  arithmetic of three readings); and if the passes move one way in two orders, the one
  order is the other or its reverse (`UpIsIdentity`, `DownIsReverse`, by the least place
  that would be an exception).
* `CountersAreTheRowsCorrect`, from `SamplerInv`. Threads come and go, polls overlap, and
  what a poll read is old by the time it is banked. `SharesHeld` is the argument: what
  the engine has spent since the row began can be shared out among the threads so that
  every reading in anybody's hands (the live counts, the last poll, a poll under way) is,
  thread by thread, at least the thread's base and at most its base and its share. A sum
  of differences is then at most what was spent, whichever polls it was made of and in
  whichever order they were banked. The sums are folds over the set of threads; that such
  a fold is a sum, and grows with its terms, is proved without induction over data: of
  the sets for which it fails one is smallest (`SmallestBad`, `SumsExist`,
  `IterateIsSum`, `SumGrows`).
* `PartsTypedCorrect`, part by part (`XTypes`, kept by `XTyped`). A part's type says more
  than sets: that a label has one row of each name, that a path has one file, that a
  launch is not more than were allowed. Where such a count is not inductive by itself
  the part's types add what it follows from: beside a stranger's engine there is at
  most one of a driver's own (`EnginesAre`), so there are never more than two; a
  process was busy for no longer than the machine was up
  (`LoadTypes`); the rows of a page, the files of a sink and those of a join differ in
  the key they are found by (`OneRowEach`, `SingleFiles`, `RowsDiffer`, `NamesDiffer`).

TLC checked every one of these invariants on the run's instance before it was
proved.

What stays with TLC of the harness:

* `EveryRunEnds`: liveness under fairness, out of the prover's reach. Every invariant that
  a passing run checks has its theorem.

## 11. Not modelled of the harness

* What is rendered: tables, prose, charts, the headline table. `Page` has the
  claims that need state; wording and layout have none.
* What is measured: command lines, the parsing of the load generator's and
  `perf`'s output, the arithmetic of medians and bands beyond its order.
* Developer tools that read once and print: the doctor, the stemmer's translator,
  the planner's calibration. They keep no state.
* Of the gate, 13 of the 22 steps of `check.py`, which fail as one of the nine that
  `Gate` has do (a tool's verdict on the tree), and the `# gate:` markers that
  `check_ci` asks of the workflow for its reader. `StartStrawmann` comes up or fails; the
  code also goes on when the engine is up and has not listened for 30 s.
* Of the rows, a rate taken from a reference label named on the command line
  (`--rps-reference`), in `RowRunner` and in `Page`; of the page, a row taken again
  under another perf setting and the choice of the pair before (`previous_pair`).
* The conformance differ and the load generator are Rust programs of their own;
  they are modelled by what the harness reads of them.
* The text arm (`measure_text`): one run of W15's rows, one read-back, one recall
  run per variant, in that order, with no drop and no later writer, so that none of
  what `Arm` is about can happen in it.
* Placement: `fullrun` compares the two arms' CPU placement, `FullRun` has only
  that they may differ and what it then refuses.

## 12. Next

Hazards that no property covers yet, besides those listed in `PROJECT.json`:

| Where | What |
|---|---|
| `src/src/api/handlers.zig:267` | the drainer's trigger compares with the live count: with as many deletes as pending rows it never starts |
| `src/src/api/handlers.zig:268` | a drain asked for between the drainer's last look and its flag is dropped until the next request |
| `src/src/api/handlers.zig:332` | a drop waits for users on a worker that only sub-requests behind it could release |
| `src/src/api/handlers.zig:1913` | the worker that finishes a batch reads the job after the hand-off |
| `src/src/core/collection.zig:802` | `count()` subtracts two unlocked loads |
| `src/src/core/collection.zig:1587` | an overwrite waits for searches that keep coming |
| `src/src/core/collection.zig:2869` | scan tickets modulo 2^32 |
| `src/src/core/scroll.zig:99`, `:137` | the cached order is retired under a scroll; the order of guard and lock |
| `src/src/net/server.zig:1226`, `:1309`; `src/src/net/h2.zig:390`, `:900` | close, pause, stream slots and windows |
| `src/bench/harness/w9_ab.py:105` | a stranger on the port is warned of, not refused |
| `src/bench/harness/commit_ab.py:113` | a worktree that exists is used as it is |
| `src/scripts/check.py:232` | two gates at once, each restoring the other's canary |

Modules, in order:

1. `ScanGate`; `Engine` with `BatchFanout`; `Server` with `H2Streams`.
2. `RowVersion`, `Scroll`; `IdMap`, `TopK`, `Visited` and the filter planner as pure
   algorithms against reference definitions; `Payload`, `Persist`.
3. Liveness of `Collection` with weak fairness of the build thread and the drainer.
