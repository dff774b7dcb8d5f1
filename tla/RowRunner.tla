------------------------------ MODULE RowRunner ------------------------------
(* bench/harness/workloads.py, run: the passes of one label, each an         *)
(* invocation that takes the host gate, runs every row, runs a short or a    *)
(* contaminated one again, and writes rows.json at its end.  n_factors.json  *)
(* outlives an invocation: it holds what --min-duration settled on.          *)
EXTENDS Naturals, Sequences

CONSTANTS
    RunRows,          \* the rows in order: [id, kind]
    Passes,           \* --reps
    GateRetries,      \* GATE_RETRIES
    DirtyRetries,     \* CONTAMINATED_RETRIES
    MaxOdd            \* bound: what goes wrong in a behaviour

VARIABLES
    pass, gate,       \* the pass; its gate: "ask", "pass" or "FAIL"
    gateAsks,
    next,             \* the next row; 0 between passes
    stage,            \* where the row is
    factor, shortRuns, dirtyRuns,
    cur,              \* the row's last measurement
    out,              \* this invocation's rows
    file,             \* rows.json of each pass
    pins,             \* n_factors.json: 0 is no entry
    pinsLost,         \* it could not be written, or not be read
    appended,         \* how often the pass ran each writer
    odd

rvars == <<pass, gate, gateAsks, next, stage, factor, shortRuns, dirtyRuns, cur,
           out, file, pins, pinsLost, appended, odd>>

RowsOfRun == DOMAIN RunRows
Kind(i) == RunRows[i].kind                 \* upload, search, rate or write
SaturationRow == CHOOSE i \in RowsOfRun : RunRows[i].id = "W4"

Unmeasured == [status |-> "none"]
Measurement(st, sh, fo) == [status |-> st, short |-> sh, foreign |-> fo]
NoRows == [i \in RowsOfRun |-> Unmeasured]

RunnerInit ==
    /\ pass = 0 /\ gate = "ask" /\ gateAsks = 0
    /\ next = 0 /\ stage = "between"
    /\ factor = 1 /\ shortRuns = 0 /\ dirtyRuns = 0
    /\ cur = Unmeasured
    /\ out = NoRows
    /\ file = [p \in 1..Passes |-> NoRows]
    /\ pins = [i \in RowsOfRun |-> 0]
    /\ pinsLost = FALSE
    /\ appended = [i \in RowsOfRun |-> 0]
    /\ odd = 0

Odd(n) == odd' = odd + n /\ odd' <= MaxOdd
Count(b) == IF b THEN 1 ELSE 0

-----------------------------------------------------------------------------
(* A pass, or one taken again: unknown row ids, another dataset's label, no  *)
(* load generator or one of another commit refuse before anything is         *)
(* written, which leaves everything as it was.                               *)
StartPass ==
    /\ stage = "between"
    /\ pass' \in {p \in 1..Passes : p = pass \/ p = pass + 1}
    /\ Odd(Count(pass' = pass))
    /\ stage' = "gate" /\ gate' = "ask" /\ gateAsks' = 0
    /\ out' = NoRows /\ appended' = [i \in RowsOfRun |-> 0]
    /\ UNCHANGED <<next, factor, shortRuns, dirtyRuns, cur, file, pins, pinsLost>>

(* run_gate_with_retry: a failure of quiescence alone is asked again; the    *)
(* verdict that stands stamps every row.                                     *)
Gate ==
    /\ stage = "gate"
    /\ \E found \in {"pass", "busy", "FAIL"} :
          /\ Odd(Count(found # "pass"))
          /\ IF found = "busy" /\ gateAsks < GateRetries
             THEN gateAsks' = gateAsks + 1 /\ UNCHANGED <<gate, stage, next>>
             ELSE /\ gate' = IF found = "pass" THEN "pass" ELSE "FAIL"
                  /\ stage' = "row" /\ next' = 1 /\ UNCHANGED gateAsks
    /\ UNCHANGED <<pass, factor, shortRuns, dirtyRuns, cur, out, file, pins,
                   pinsLost, appended>>

-----------------------------------------------------------------------------
(* resolve_rps: a rate row is offered a fraction of the saturating row's     *)
(* qps, of this invocation or of the file it left.                           *)
Saturation == \/ out[SaturationRow].status = "ok"
              \/ file[pass][SaturationRow].status = "ok"

(* run_one: the warm-up, the bracket and the bfb process, the writer reaped  *)
(* beside it.  An upload is neither short nor rerun.                         *)
RunOne(i, f) ==
    /\ \E st \in {"ok", "na", "failed", "no_output"}, sh \in BOOLEAN, fo \in BOOLEAN :
          /\ st # "ok" => ~sh /\ ~fo
          /\ Kind(i) = "upload" => ~sh /\ st # "no_output"
          /\ Odd(Count(st # "ok") + Count(sh) + Count(fo))
          /\ cur' = Measurement(st, sh, fo)
    /\ appended' = IF Kind(i) = "write" THEN [appended EXCEPT ![i] = @ + 1] ELSE appended
    /\ factor' = f
    /\ stage' = "short?"

(* The factor a pass before this one pinned, or the command line's.          *)
BaseFactor(i) == IF pins[i] = 0 THEN 1 ELSE pins[i]

RunRow ==
    /\ stage = "row" /\ next \in RowsOfRun
    /\ Kind(next) = "rate" => Saturation
    /\ RunOne(next, BaseFactor(next))
    /\ shortRuns' = 0 /\ dirtyRuns' = 0
    /\ UNCHANGED <<pass, gate, gateAsks, next, out, file, pins, pinsLost>>

Skipped(i) == [status |-> "failed", factor |-> 1, foreign |-> FALSE, gate |-> gate]

SkipRow ==
    /\ stage = "row" /\ next \in RowsOfRun
    /\ Kind(next) = "rate" /\ ~Saturation
    /\ out' = [out EXCEPT ![next] = Skipped(next)]
    /\ next' = next + 1
    /\ UNCHANGED <<pass, gate, gateAsks, stage, factor, shortRuns, dirtyRuns, cur,
                   file, pins, pinsLost, appended, odd>>

(* min_duration_action: twice at most, never a row with a writer, never a    *)
(* pinned one.                                                               *)
MayRunShortAgain ==
    /\ cur.status = "ok" /\ cur.short
    /\ Kind(next) \notin {"upload", "write"}
    /\ shortRuns < 2
    /\ pins[next] = 0

RunShortAgain ==
    /\ stage = "short?" /\ MayRunShortAgain
    /\ shortRuns' = shortRuns + 1
    /\ RunOne(next, factor * 2)
    /\ UNCHANGED <<pass, gate, gateAsks, next, dirtyRuns, out, file, pins, pinsLost>>

(* The verdict is written as soon as the row has one, and only if it ran.    *)
PinFactor ==
    /\ stage = "short?" /\ ~MayRunShortAgain
    /\ stage' = "dirty?"
    /\ IF Kind(next) = "upload" \/ cur.status # "ok"
       THEN UNCHANGED <<pins, pinsLost, odd>>
       ELSE \E written \in BOOLEAN :
               /\ Odd(Count(~written))
               /\ pins' = IF written THEN [pins EXCEPT ![next] = factor] ELSE pins
               /\ pinsLost' = (pinsLost \/ ~written)
    /\ UNCHANGED <<pass, gate, gateAsks, next, factor, shortRuns, dirtyRuns, cur,
                   out, file, appended>>

(* contaminated_action: the same guard, its own count, the same factor.      *)
MayRunDirtyAgain ==
    /\ cur.status = "ok" /\ cur.foreign
    /\ Kind(next) \notin {"upload", "write"}
    /\ dirtyRuns < DirtyRetries

RunDirtyAgain ==
    /\ stage = "dirty?" /\ MayRunDirtyAgain
    /\ dirtyRuns' = dirtyRuns + 1
    /\ \E st \in {"ok", "failed"}, fo \in BOOLEAN :
          /\ st = "failed" => ~fo
          /\ Odd(Count(st # "ok") + Count(fo))
          /\ cur' = Measurement(st, cur.short, fo)
    /\ UNCHANGED <<pass, gate, gateAsks, next, stage, factor, shortRuns, out, file,
                   pins, pinsLost, appended>>

KeepRow ==
    /\ stage = "dirty?" /\ ~MayRunDirtyAgain
    /\ out' = [out EXCEPT ![next] = [status |-> cur.status, factor |-> factor,
                                     foreign |-> cur.foreign, gate |-> gate]]
    /\ next' = next + 1 /\ stage' = "row" /\ cur' = Unmeasured
    /\ UNCHANGED <<pass, gate, gateAsks, factor, shortRuns, dirtyRuns, file, pins,
                   pinsLost, appended, odd>>

(* rows.json keeps what this invocation did not measure, unless it cannot be *)
(* read and is moved aside.                                                  *)
Merged(prev) ==
    [i \in RowsOfRun |-> IF out[i] # Unmeasured THEN out[i] ELSE prev[i]]

WriteRows ==
    /\ stage = "row" /\ next = Len(RunRows) + 1
    /\ \E readable \in BOOLEAN :
          /\ Odd(Count(~readable))
          /\ file' = [file EXCEPT ![pass] = Merged(IF readable THEN file[pass] ELSE NoRows)]
    /\ stage' = "between" /\ next' = 0
    /\ UNCHANGED <<pass, gate, gateAsks, factor, shortRuns, dirtyRuns, cur, out, pins,
                   pinsLost, appended>>

(* The harness dies: the rows it held go with it, the pins stay, unless it   *)
(* died writing them.                                                        *)
Die ==
    /\ stage # "between"
    /\ Odd(1)
    /\ stage' = "between" /\ next' = 0 /\ cur' = Unmeasured
    /\ \/ UNCHANGED <<pins, pinsLost>>
       \/ stage = "short?" /\ pins' = [i \in RowsOfRun |-> 0] /\ pinsLost' = TRUE
    /\ UNCHANGED <<pass, gate, gateAsks, factor, shortRuns, dirtyRuns, out, file, appended>>

RunnerNext ==
    \/ StartPass \/ Gate \/ RunRow \/ SkipRow \/ RunShortAgain \/ PinFactor
    \/ RunDirtyAgain \/ KeepRow \/ WriteRows \/ Die

-----------------------------------------------------------------------------
RunnerTypeOK ==
    /\ pass \in 0..Passes /\ gate \in {"ask", "pass", "FAIL"}
    /\ gateAsks \in 0..GateRetries /\ next \in 0..(Len(RunRows) + 1)
    /\ factor \in {1, 2, 4} /\ shortRuns \in 0..2 /\ dirtyRuns \in 0..DirtyRetries
    /\ pins \in [RowsOfRun -> {0, 1, 2, 4}]

(* aggregate.fold takes a row that every pass measured with one status.      *)
FoldsRow(i) == \A p, q \in 1..Passes :
                  file[p][i] # Unmeasured /\ file[p][i].status = file[q][i].status

(* A folded row is the median of one configuration: its passes ran it with   *)
(* the same number of queries, whatever was short, contaminated, failed or   *)
(* interrupted on the way, unless the pins themselves were lost; and no pass *)
(* ran a writer twice, for the second would search another collection.       *)
FoldsOneConfiguration ==
    /\ ~pinsLost =>
          \A i \in RowsOfRun : FoldsRow(i) /\ file[1][i].status = "ok" =>
              \A p \in 1..Passes : file[p][i].factor = file[1][i].factor
    /\ \A i \in RowsOfRun : appended[i] <= 1

(* Why it holds: a row that has an ok measurement ran with its pin, or once   *)
(* if it is an upload, and a pin does not change.                             *)
Rightly(i, r) ==
    r.status = "ok" => IF Kind(i) = "upload" THEN r.factor = 1
                       ELSE pins[i] # 0 /\ r.factor = pins[i]
Running == stage \in {"short?", "dirty?"}
PinsHeld ==
    /\ pins \in [RowsOfRun -> Nat] /\ factor \in Nat \ {0}
    /\ stage \in {"between", "gate", "row", "short?", "dirty?"}
    /\ next \in Nat /\ (stage = "row" => next # 0) /\ (Running => next \in RowsOfRun)
    /\ ~pinsLost =>
          /\ \A i \in RowsOfRun : Kind(i) = "upload" => pins[i] = 0
          /\ Running => IF Kind(next) = "upload" THEN factor = 1 ELSE pins[next] \in {0, factor}
          /\ stage = "dirty?" /\ cur.status = "ok" /\ Kind(next) # "upload" => pins[next] = factor
FilesHeld ==
    /\ DOMAIN out = RowsOfRun /\ DOMAIN file = 1..Passes
    /\ ~pinsLost => \A i \in RowsOfRun : /\ Rightly(i, out[i])
                                        /\ \A p \in 1..Passes : Rightly(i, file[p][i])
WritersHeld ==
    /\ appended \in [RowsOfRun -> {0, 1}]
    /\ \A i \in RowsOfRun : appended[i] = 1 =>
          /\ stage # "gate"
          /\ stage = "row" => i \in 1..(next - 1)
          /\ Running => i \in 1..next
RunnerInv == PinsHeld /\ FilesHeld /\ WritersHeld
=============================================================================
