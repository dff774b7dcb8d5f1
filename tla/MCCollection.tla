----------------------------- MODULE MCCollection -----------------------------
(* The instances of Collection that are model-checked. *)
EXTENDS Collection, TLC

CONSTANTS w1, w2, g1, g2, g3, s1, s2, s3

OneWorker == {w1}
OtherWorker == {w2}
TwoWorkers == {w1, w2}
NoWorkers == {}
TwoGraphs == {g1, g2}
ThreeGraphs == {g1, g2, g3}
NoStores == {}
TwoStores == {s1, s2}
ThreeStores == {s1, s2, s3}

\* The allocations are interchangeable.
AllocSymmetry == Permutations(Graphs) \cup Permutations(Stores)

\* So are workers, where every one of them may do everything.
FullSymmetry == AllocSymmetry \cup Permutations(Workers)
=============================================================================
