------------------------------- MODULE PassFold -------------------------------
(* bench/harness/aggregate.py, fold: one row of several passes made one.     *)
(* What describes the configuration is the first pass's; a number is the     *)
(* median, or nothing when a pass lacks it; what condemns a pass condemns    *)
(* the fold.                                                                 *)
EXTENDS Integers, Sequences, FiniteSets, Functions, FiniteSetsExt

CONSTANTS
    Reps,        \* the passes of a label
    QpsValues    \* the throughputs a pass may have read

VARIABLE
    got          \* the row, as each pass so far measured it

PassRows ==
    [status : {"ok"}, qps : QpsValues, foreign : BOOLEAN, gate : {"pass", "FAIL"}]
    \cup {[status |-> st, qps |-> 0, foreign |-> FALSE, gate |-> "pass"] :
             st \in {"failed", "na"}}

FoldInit == got = <<>>

(* A pass is measured; two of them at most are condemned.                    *)
MeasurePass ==
    /\ Len(got) < Reps
    /\ \E r \in PassRows :
          /\ Cardinality({i \in DOMAIN got : got[i].foreign \/ got[i].gate = "FAIL"})
               + (IF r.foreign \/ r.gate = "FAIL" THEN 1 ELSE 0) <= 2
          /\ got' = Append(got, r)

FoldNext == MeasurePass

-----------------------------------------------------------------------------
(* Within a tenth is noise: DRIFT_MIN.  In integers, a move of x from m is   *)
(* a tenth when ten of it are m.                                             *)
Apart(x, m) == 10 * x >= m

Values(rows) == [i \in DOMAIN rows |-> rows[i].qps]
AllRead(v) == \A i \in DOMAIN v : v[i] > 0

(* _rep_outlier: two passes within half of DRIFT_MIN, the third a tenth off  *)
(* their midpoint.  The midpoint is kept doubled.                            *)
Odd(v, i) ==
    LET pair == {v[j] : j \in DOMAIN v \ {i}}
        mid2 == Max(pair) + Min(pair)
    IN  /\ 40 * (Max(pair) - Min(pair)) <= mid2
        /\ Apart(IF 2 * v[i] > mid2 THEN 2 * v[i] - mid2 ELSE mid2 - 2 * v[i], mid2)
Outliers(v) == IF Len(v) = 3 /\ AllRead(v) THEN {i \in DOMAIN v : Odd(v, i)} ELSE {}
RepOutlier(v) == IF Outliers(v) = {} THEN 0 ELSE v[Min(Outliers(v))]

(* _rep_drift: three passes or more, one way only, and by a tenth.           *)
Rising(v) == \A i \in 1..(Len(v) - 1) : v[i] < v[i + 1]
Falling(v) == \A i \in 1..(Len(v) - 1) : v[i] > v[i + 1]
RepDrift(v) ==
    IF Len(v) < 3 \/ ~AllRead(v) THEN 0
    ELSE IF Rising(v) /\ Apart(v[Len(v)] - v[1], v[1]) THEN 1
    ELSE IF Falling(v) /\ Apart(v[1] - v[Len(v)], v[1]) THEN -1 ELSE 0

(* A row is folded when every pass has it and they agree on its status.      *)
Agreed(rows) == \A i, j \in DOMAIN rows : rows[i].status = rows[j].status

(* statistics.median, doubled: the reading in the middle, or the two of an    *)
(* even number of passes.                                                    *)
Middles(v) == {m \in Range(v) :
                 /\ 2 * Cardinality({i \in DOMAIN v : v[i] < m}) <= Len(v)
                 /\ 2 * Cardinality({i \in DOMAIN v : v[i] > m}) <= Len(v)}
Median(v) == Min(Middles(v)) + Max(Middles(v))

\* Mutant: the first pass's gate stands for all.
FirstGate(rows) == rows[1].gate

(* The worst of the passes' gates, and every pass's foreign load.            *)
FoldedGate(rows) == IF \E i \in DOMAIN rows : rows[i].gate = "FAIL" THEN "FAIL" ELSE "pass"
FoldedForeign(rows) == \E i \in DOMAIN rows : rows[i].foreign

FoldRow(rows) ==
    [status |-> rows[1].status,
     qps |-> Median(Values(rows)),
     foreign |-> FoldedForeign(rows),
     gate |-> FoldedGate(rows),
     outlier |-> RepOutlier(Values(rows)),
     drift |-> IF RepOutlier(Values(rows)) # 0 THEN 0 ELSE RepDrift(Values(rows))]

-----------------------------------------------------------------------------
Orders == {f \in [1..Reps -> 1..Reps] : IsInjective(f)}
Reordered(f) == [i \in 1..Reps |-> got[f[i]]]

FoldTypeOK == got \in Seq(PassRows) /\ Len(got) <= Reps

(* Which pass was unlucky does not matter: in whatever order the passes were *)
(* taken, the folded row reads the same, bears the same load and gate and    *)
(* the same odd pass, and only a drift depends on the order.  A row is never *)
(* both odd and drifting.                                                    *)
OrderHidesNothing ==
    Len(got) = Reps /\ Agreed(got) =>
        LET r == FoldRow(got)
        IN  /\ \A f \in Orders :
                  LET o == FoldRow(Reordered(f))
                  IN  /\ [o EXCEPT !.drift = 0] = [r EXCEPT !.drift = 0]
                      /\ f = [i \in 1..Reps |-> Reps + 1 - i] /\ r.drift = 1
                            => o.drift \in {0, -1}
                      /\ r.drift * o.drift # 0 => f \in {[i \in 1..Reps |-> i],
                                                         [i \in 1..Reps |-> Reps + 1 - i]}
            /\ Cardinality(Outliers(Values(got))) <= 1
            /\ ~(r.outlier # 0 /\ r.drift # 0)
=============================================================================
