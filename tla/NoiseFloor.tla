------------------------------ MODULE NoiseFloor -----------------------------
(* Which spread may band a difference: a fold leaves its label a noise.json  *)
(* of its own (aggregate.py), --measure-noise writes the global one, and     *)
(* regression.py and compare.py choose, combine and refuse them.  A row's    *)
(* spread is abstracted to where, on which engine and from which passes it   *)
(* was measured.                                                             *)
EXTENDS Naturals, FiniteSets

CONSTANTS
    MaxFolds          \* bound: folds and global measurements

Label == {"sm-a", "sm-b", "qd-a"}
EngineOf(l) == IF l = "qd-a" THEN "qdrant" ELSE "strawmann"
Place == [dataset : {"sift", "dbp"}, env : {"smt", "nosmt"}]
Unnamed == "none"                          \* a key that names nothing
NoFloor == {}

VARIABLES
    here,             \* the corpus and the host of the next measurement
    label,            \* label -> where it was measured and its passes: set of at most one
    floor,            \* label -> the noise.json beside it, as a set
    global,           \* bench/results/noise.json
    folds

nvars == <<here, label, floor, global, folds>>

FloorInit ==
    /\ here = [dataset |-> "sift", env |-> "smt"]
    /\ label = [l \in Label |-> {}] /\ floor = [l \in Label |-> NoFloor]
    /\ global = NoFloor /\ folds = 0

Move ==
    /\ here' \in Place \ {here}
    /\ UNCHANGED <<label, floor, global, folds>>

(* aggregate.py's main: rows.json and run.json are rewritten whatever the    *)
(* number of passes; a spread needs three (_rsd), and a fold without one     *)
(* leaves the noise.json that was there.  It discards no pass.               *)
Fold(l) ==
    /\ folds < MaxFolds /\ folds' = folds + 1
    /\ \E n \in 1..3, dirty \in {0, 1} :
          /\ dirty <= n
          /\ label' = [label EXCEPT ![l] = {[place |-> here, passes |-> n, dirty |-> dirty]}]
          /\ floor' = IF n < 3 THEN floor
                      ELSE [floor EXCEPT ![l] =
                               {[dataset |-> here.dataset, env |-> here.env,
                                 arms |-> {EngineOf(l)}, spread |-> TRUE, of |-> {here},
                                 clean |-> n - dirty, discards |-> FALSE]}]
    /\ UNCHANGED <<here, global>>

(* measure_noise, over the -repN directories of labels somebody globbed:     *)
(* contaminated passes are discarded; keys the directories disagree on name  *)
(* nothing.                                                                  *)
Agreed(values) == IF Cardinality(values) = 1 THEN CHOOSE v \in values : TRUE ELSE Unnamed

CleanPasses(ls) ==
    Cardinality({p \in ls \X (1..3) : \E m \in label[p[1]] : p[2] <= m.passes - m.dirty})

MeasureNoise ==
    /\ folds < MaxFolds /\ folds' = folds + 1
    /\ \E ls \in (SUBSET Label) \ {{}} :
          /\ \A l \in ls : label[l] # {}
          /\ LET places == {m.place : m \in UNION {label[l] : l \in ls}}
             IN  global' = {[dataset |-> Agreed({p.dataset : p \in places}),
                             env |-> Agreed({p.env : p \in places}),
                             arms |-> {EngineOf(l) : l \in ls},
                             spread |-> CleanPasses(ls) >= 3, of |-> places,
                             clean |-> CleanPasses(ls), discards |-> TRUE]}
    /\ UNCHANGED <<here, label, floor>>

FloorNext == Move \/ MeasureNoise \/ \E l \in Label : Fold(l)

-----------------------------------------------------------------------------
(* floor_for: the labels' own floors where any has one, combined; a key they *)
(* disagree on names nothing.                                                *)
Found(ls) == UNION {floor[l] : l \in ls}
FloorFor(ls) ==
    LET found == Found(ls)
    IN  IF found = {} THEN global
        ELSE {[dataset |-> Agreed({f.dataset : f \in found}),
               env |-> Agreed({f.env : f \in found}),
               arms |-> UNION {f.arms : f \in found}, spread |-> TRUE,
               of |-> UNION {f.of : f \in found},
               clean |-> 0, discards |-> FALSE]}

Places(ls) == {m.place : m \in UNION {label[l] : l \in ls}}

(* floor_refusals, env_matches: only a disagreement with a key it names.     *)
Refuses(f, ls) ==
    \/ f.dataset # Unnamed /\ \E p \in Places(ls) : p.dataset # f.dataset
    \/ f.env # Unnamed /\ \E p \in Places(ls) : p.env # f.env

(* cmd_compare gives verdicts; parity_band bands a ratio of two engines,     *)
(* with a floor measured on both.                                            *)
GivesVerdict(ls) == {f \in FloorFor(ls) : f.spread /\ ~Refuses(f, ls)}
ParityBand(ls) == {f \in GivesVerdict(ls) : {EngineOf(l) : l \in ls} \subseteq f.arms}

Measured(ls) == \A l \in ls : label[l] # {}
Named(f) == f.dataset # Unnamed /\ f.env # Unnamed

-----------------------------------------------------------------------------
FloorTypeOK ==
    /\ here \in Place /\ folds \in 0..MaxFolds
    /\ \A l \in Label : Cardinality(label[l]) <= 1 /\ Cardinality(floor[l]) <= 1
    /\ \A f \in global : f.discards /\ f.arms # {}

(* A difference is banded only by a spread measured where both its labels'   *)
(* rows were, by a floor that names a place: whatever noise.json an earlier  *)
(* fold left beside a label that was folded again with too few passes, and   *)
(* whatever the global file came from.  A ratio of the engines, only by one  *)
(* measured on both; and the global file, only from three clean passes.      *)
BandIsTheRows ==
    \A ls \in SUBSET Label : Cardinality(ls) = 2 /\ Measured(ls) =>
        /\ \A f \in GivesVerdict(ls) : Named(f) => f.of = Places(ls)
        /\ "qd-a" \in ls /\ ParityBand(ls) # {} /\ Found(ls) # {} =>
              \A l \in ls : floor[l] # NoFloor
        /\ \A f \in GivesVerdict(ls) : Found(ls) = {} => f.clean >= 3

(* Why it holds: a floor names the one place its passes were made, and what  *)
(* they were not all made at it does not name.                               *)
Names(f) ==
    /\ f.of \subseteq Place /\ f.of # {}
    /\ f.dataset = Agreed({p.dataset : p \in f.of}) /\ f.env = Agreed({p.env : p \in f.of})
FloorsHeld ==
    /\ here \in Place /\ DOMAIN label = Label /\ DOMAIN floor = Label
    /\ \A l \in Label :
          /\ \A m \in label[l] : m.place \in Place
          /\ \A f \in floor[l] : Names(f) /\ f.arms = {EngineOf(l)}
    /\ \A f \in global : Names(f) /\ (f.spread => f.clean >= 3)
=============================================================================
