------------------------------- MODULE Sampler -------------------------------
(* bench/harness/procstat.py and perfstat.py around one row: a snapshot of   *)
(* /proc on either side, per-thread counters banked by a thread of the       *)
(* harness while the row runs, and perf attached to the engine.  The kernel  *)
(* drops a thread's counters when it exits, but keeps the group's CPU time.  *)
EXTENDS Integers, FiniteSets, FiniteSetsExt

CONSTANTS
    Threads,          \* the engine's thread ids
    Founders,         \* the threads it has when the row opens
    CoverageFloor,    \* _COVERAGE_FLOOR_S
    MaxWork,          \* bound: counter increments in a behaviour
    MaxUpsets         \* bound: exits, restarts, late joins and the like

VARIABLES
    step,             \* how far the bracket of run_one is
    engine,           \* [pid, done]: the process, what it has done in all
    live,             \* the counters of the threads it has now
    before, after,    \* the snapshots
    sampler,          \* "off", "running", "joining", "last", "sum"
    inFlight,         \* what the loop has read and not yet banked
    first, last, new, \* SchedSampler's _first, _last and _new
    span,             \* what start's and stop's own polls read
    late,             \* the join timed out
    banked,
    perf,             \* "off", "on", or "orphan": on after its harness
    row,              \* what the row carries
    upsets

svars == <<step, engine, live, before, after, sampler, inFlight, first, last,
           new, span, late, banked, perf, row, upsets>>
smp == <<sampler, inFlight, first, last, new, span, late, banked>>

Counters == {"oncpu", "waits"}             \* two of _THREAD_SUMMED
Zero == [k \in Counters |-> 0]
NoThreads == [t \in {} |-> Zero]
Nothing == [kind |-> "none"]
Put(f, t, c) == [u \in DOMAIN f \cup {t} |-> IF u = t THEN c ELSE f[u]]
Total(f, k) == FoldSet(LAMBDA t, n : n + f[t][k], 0, DOMAIN f)

SamplerInit ==
    /\ step = "open"
    /\ engine = [pid |-> 1, done |-> [k \in Counters |-> Cardinality(Founders)]]
    /\ live = [t \in Founders |-> [k \in Counters |-> 1]]
    /\ before = Nothing /\ after = Nothing
    /\ sampler = "off" /\ inFlight = Nothing
    /\ first = NoThreads /\ last = NoThreads /\ new = {}
    /\ span = [from |-> NoThreads, to |-> NoThreads] /\ late = FALSE /\ banked = Nothing
    /\ perf = "off" /\ row = Nothing /\ upsets = 0

Upset(n) == upsets' = upsets + n /\ upsets' <= MaxUpsets

-----------------------------------------------------------------------------
(* The engine: its threads run or wait, start and exit; it may be replaced.  *)
Work ==
    /\ step \notin {"open", "closed"}
    /\ engine.done.oncpu + engine.done.waits < MaxWork + 2 * Cardinality(Founders)
    /\ \E t \in DOMAIN live, k \in Counters :
          /\ live' = [live EXCEPT ![t][k] = @ + 1]
          /\ engine' = [engine EXCEPT !.done[k] = @ + 1]
    /\ UNCHANGED <<step, before, after, smp, perf, row, upsets>>

ThreadStarts ==
    /\ step \notin {"open", "closed"}
    /\ engine.pid = 1
    /\ \E t \in Threads \ (DOMAIN live \cup DOMAIN last) : live' = Put(live, t, Zero)
    /\ UNCHANGED <<step, engine, before, after, smp, perf, row, upsets>>

ThreadExits ==
    /\ step \notin {"open", "closed"} /\ Upset(1)
    /\ \E t \in DOMAIN live :
          live' = [u \in DOMAIN live \ {t} |-> live[u]]
    /\ UNCHANGED <<step, engine, before, after, smp, perf, row>>

EngineReplaced ==
    /\ step \notin {"open", "closed"} /\ Upset(1)
    /\ engine' = [pid |-> engine.pid + 1, done |-> Zero]
    /\ live' = NoThreads
    /\ perf' = IF perf = "orphan" THEN "off" ELSE perf
    /\ UNCHANGED <<step, before, after, smp, row>>

-----------------------------------------------------------------------------
(* snapshot: the thread-group line is read before the threads are walked.    *)
StatRead == [kind |-> "stat", pid |-> engine.pid, cpu |-> engine.done.oncpu,
             opened |-> engine.done]
Snapshot(s) == [kind |-> "whole", pid |-> s.pid, cpu |-> s.cpu, opened |-> s.opened,
                sums |-> [k \in Counters |-> Total(live, k)],
                threads |-> Cardinality(DOMAIN live)]

OpenStat ==
    /\ step = "open" /\ step' = "opening" /\ before' = StatRead
    /\ UNCHANGED <<engine, live, after, smp, perf, row, upsets>>
OpenThreads ==
    /\ step = "opening" /\ step' = "opened" /\ before' = Snapshot(before)
    /\ UNCHANGED <<engine, live, after, smp, perf, row, upsets>>

(* thread_counters of the process the row opened with.                       *)
ThreadCounters == IF engine.pid = before.pid THEN live ELSE NoThreads

(* _bank: a thread first seen after start began at zero.                     *)
Bank(read, started) ==
    /\ first' = [t \in DOMAIN first \cup DOMAIN read |->
                    IF t \in DOMAIN first THEN first[t] ELSE read[t]]
    /\ new' = IF started THEN new \cup (DOMAIN read \ DOMAIN first) ELSE new
    /\ last' = [t \in DOMAIN last \cup DOMAIN read |->
                    IF t \in DOMAIN read THEN read[t] ELSE last[t]]

(* --sched-sampler, then --perf: either may be absent, and perf may refuse.  *)
StartSampler ==
    /\ step = "opened" /\ step' = "sampled"
    /\ \/ /\ sampler' = "running" /\ Bank(ThreadCounters, FALSE)
          /\ span' = [span EXCEPT !.from = ThreadCounters]
       \/ UNCHANGED <<sampler, first, last, new, span>>
    /\ UNCHANGED <<engine, live, before, after, inFlight, late, banked, perf, row, upsets>>
StartCar ==
    /\ step = "sampled" /\ step' = "running"
    /\ perf' \in IF perf = "orphan" THEN {"orphan"} ELSE {"off", "on"}
    /\ UNCHANGED <<engine, live, before, after, smp, row, upsets>>

LoopRead ==
    /\ sampler = "running" /\ inFlight = Nothing
    /\ inFlight' = [kind |-> "read", of |-> ThreadCounters]
    /\ UNCHANGED <<step, engine, live, before, after, sampler, first, last, new,
                   span, late, banked, perf, row, upsets>>
LoopBank ==
    /\ inFlight # Nothing /\ sampler # "off"
    /\ Bank(inFlight.of, TRUE) /\ inFlight' = Nothing
    /\ UNCHANGED <<step, engine, live, before, after, sampler, span, late,
                   banked, perf, row, upsets>>

StopCar ==
    /\ step = "running" /\ step' = "stopping"
    /\ perf' = IF perf = "on" THEN "off" ELSE perf
    /\ sampler' = IF sampler = "running" THEN "joining" ELSE sampler
    /\ UNCHANGED <<engine, live, before, after, inFlight, first, last, new, span,
                   late, banked, row, upsets>>

(* stop: the join gives up after four intervals; then it polls once more.    *)
Join ==
    /\ sampler = "joining" /\ sampler' = "last"
    /\ late' = (inFlight # Nothing) /\ Upset(IF late' THEN 1 ELSE 0)
    /\ UNCHANGED <<step, engine, live, before, after, inFlight, first, last, new,
                   span, banked, perf, row>>
LastPoll ==
    /\ sampler = "last" /\ sampler' = "sum"
    /\ Bank(ThreadCounters, TRUE) /\ span' = [span EXCEPT !.to = ThreadCounters]
    /\ UNCHANGED <<step, engine, live, before, after, inFlight, late, banked, perf,
                   row, upsets>>
Banked(k) ==
    FoldSet(LAMBDA t, n : n + last[t][k] - (IF t \in new THEN 0 ELSE first[t][k]),
            0, DOMAIN last)
SumUp ==
    /\ sampler = "sum" /\ sampler' = "off" /\ inFlight' = Nothing
    /\ banked' = IF last = NoThreads THEN Nothing
                 ELSE [kind |-> "sums", of |-> [k \in Counters |-> Banked(k)]]
    /\ UNCHANGED <<step, engine, live, before, after, first, last, new, span, late,
                   perf, row, upsets>>

CloseStat ==
    /\ step = "stopping" /\ sampler = "off" /\ step' = "closing" /\ after' = StatRead
    /\ UNCHANGED <<engine, live, before, smp, perf, row, upsets>>

-----------------------------------------------------------------------------
(* _sched_delta: a fallen sum, or survivors that account for too little of   *)
(* the group's CPU time, withhold every thread-summed counter, unless the    *)
(* sampler banked it; nothing is a difference of two engines.                *)
Fell(a, b) == \E k \in Counters : b.sums[k] < a.sums[k]
LowCoverage(a, b) ==
    LET cpu == b.cpu - a.cpu
    IN  cpu >= CoverageFloor /\ 100 * (b.sums.oncpu - a.sums.oncpu) < 95 * cpu
\* Mutant: counters that went backwards are reported.
WithheldWhenUncovered(a, b) == LowCoverage(a, b)

Withheld(a, b) == Fell(a, b) \/ LowCoverage(a, b)

Delta(a, b) ==
    IF a.pid # b.pid THEN [kind |-> "row", sched |-> Nothing]
    ELSE [kind |-> "row", sched |-> IF banked # Nothing THEN banked
                    ELSE IF Withheld(a, b) THEN Nothing
                    ELSE [kind |-> "survivors",
                          of |-> [k \in Counters |->
                                     IF b.sums[k] >= a.sums[k]
                                     THEN b.sums[k] - a.sums[k] ELSE -1]]]

CloseThreads ==
    /\ step = "closing" /\ step' = "closed"
    /\ after' = Snapshot(after)
    /\ row' = Delta(before, after')
    /\ UNCHANGED <<engine, live, before, smp, perf, upsets>>

(* The harness ends inside the bracket: an exception leaves through atexit,  *)
(* which stops every started sidecar; a kill does not.                       *)
HarnessEnds ==
    /\ step \notin {"open", "closed"} /\ Upset(1)
    /\ step' = "open" /\ before' = Nothing /\ after' = Nothing
    /\ sampler' = "off" /\ inFlight' = Nothing
    /\ first' = NoThreads /\ last' = NoThreads /\ new' = {}
    /\ span' = [from |-> NoThreads, to |-> NoThreads] /\ late' = FALSE /\ banked' = Nothing
    /\ perf' \in {"off", IF perf = "on" THEN "orphan" ELSE perf}
    /\ UNCHANGED <<engine, live, row>>

SamplerNext ==
    \/ Work \/ ThreadStarts \/ ThreadExits \/ EngineReplaced
    \/ OpenStat \/ OpenThreads \/ StartSampler \/ StartCar \/ LoopRead \/ LoopBank
    \/ StopCar \/ Join \/ LastPoll \/ SumUp \/ CloseStat \/ CloseThreads \/ HarnessEnds

-----------------------------------------------------------------------------
SamplerTypeOK ==
    /\ step \in {"open", "opening", "opened", "sampled", "running", "stopping",
                 "closing", "closed"}
    /\ DOMAIN live \subseteq Threads /\ new \subseteq DOMAIN last
    /\ DOMAIN first = DOMAIN last
    /\ sampler \in {"off", "running", "joining", "last", "sum"}
    /\ perf \in {"off", "on", "orphan"} /\ upsets \in 0..MaxUpsets

(* What a row says its threads did is no more than the engine did between    *)
(* the snapshots, whichever threads came and went and however the sampler's  *)
(* two polls raced; no counter is published without the others; and a sum    *)
(* banked in time has all a thread did that lived to the last poll.          *)
CountsAreTheRows ==
    (step = "closed" /\ row.sched # Nothing /\ engine.pid = before.pid) =>
        /\ \A k \in Counters :
              row.sched.of[k] \in 0..(engine.done[k] - before.opened[k])
        /\ row.sched.kind = "survivors" =>
              \/ 100 * row.sched.of.oncpu >= 95 * (after.cpu - before.cpu)
              \/ after.cpu - before.cpu < CoverageFloor
        /\ (row.sched.kind = "sums" /\ ~late) =>
              \A k \in Counters, t \in DOMAIN span.to :
                 row.sched.of[k] >= span.to[t][k]
                     - (IF t \in DOMAIN span.from THEN span.from[t][k] ELSE 0)

(* Why it holds.  What the engine did since the row opened can be shared out  *)
(* among the threads so that every read of a thread, banked or not, is within *)
(* its share; and a dead thread's work is in the process's count only.        *)
Tally(f) == DOMAIN f \subseteq Threads /\ f \in [DOMAIN f -> [Counters -> Nat]]
InHand == IF inFlight = Nothing THEN NoThreads ELSE inFlight.of
Base(t, k) == IF t \in DOMAIN first \ new THEN first[t][k] ELSE 0
Spent(k) == engine.done[k] - before.opened[k]
Shared(m) == FoldSet(LAMBDA t, n : n + m[t], 0, Threads)

TalliesHeld ==
    /\ engine \in [pid : Nat, done : [Counters -> Nat]]
    /\ Tally(live) /\ Tally(InHand) /\ Tally(first) /\ Tally(last)
    /\ Tally(span.from) /\ Tally(span.to)
    /\ inFlight = Nothing \/ inFlight.kind = "read"
    /\ DOMAIN first = DOMAIN last /\ new \subseteq DOMAIN last
    /\ step \in {"open", "opening", "opened"} =>
          /\ sampler = "off" /\ banked = Nothing /\ inFlight = Nothing /\ ~late
          /\ last = NoThreads /\ span = [from |-> NoThreads, to |-> NoThreads]
    /\ sampler # "off" => step \in {"sampled", "running", "stopping"}
    /\ sampler \in {"off", "running", "joining", "last", "sum"}
    /\ ~late /\ sampler \in {"off", "last", "sum"} => inFlight = Nothing

SnapshotsHeld ==
    /\ step # "open" =>
          /\ before.pid \in Nat /\ before.pid <= engine.pid /\ before.cpu \in Nat
          /\ before.opened \in [Counters -> Nat]
          /\ engine.pid = before.pid => \A k \in Counters : Spent(k) >= 0
    /\ step \notin {"open", "opening"} =>
          /\ before.sums \in [Counters -> Nat]
          /\ engine.pid = before.pid =>
                \A k \in Counters : Total(live, k) <= before.sums[k] + Spent(k)
    /\ step \in {"closing", "closed"} => after.cpu \in Nat

SharesHeld ==
    (sampler # "off" /\ engine.pid = before.pid) =>
       \A k \in Counters :
          /\ \E m \in [Threads -> 0..Spent(k)] :
                /\ Shared(m) <= Spent(k)
                /\ \A f \in {live, last, InHand} : \A t \in DOMAIN f :
                      f[t][k] <= Base(t, k) + m[t]
          /\ \A f \in {live, last, InHand} : \A t \in DOMAIN f : Base(t, k) <= f[t][k]

SpansHeld ==
    sampler # "off" =>
       /\ banked = Nothing
       /\ DOMAIN span.from = DOMAIN first \ new
       /\ \A t \in DOMAIN span.from : first[t] = span.from[t]
       /\ (sampler = "sum" /\ ~late) =>
             DOMAIN span.to \subseteq DOMAIN last /\ \A t \in DOMAIN span.to : last[t] = span.to[t]

BankHeld ==
    (banked # Nothing /\ engine.pid = before.pid) =>
       /\ banked.kind = "sums"
       /\ \A k \in Counters : banked.of[k] \in 0..Spent(k)
       /\ ~late => \A k \in Counters, t \in DOMAIN span.to :
                     banked.of[k] >= span.to[t][k]
                         - (IF t \in DOMAIN span.from THEN span.from[t][k] ELSE 0)

SamplerInv == TalliesHeld /\ SnapshotsHeld /\ SharesHeld /\ SpansHeld /\ BankHeld /\ CountsAreTheRows
=============================================================================
