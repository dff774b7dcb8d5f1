----------------------------- MODULE MCWorkQueue -----------------------------
(* The instances of WorkQueue that are model-checked. *)
EXTENDS WorkQueue

CONSTANTS io1, w1, w2, i1, i2, i3

OneProducer == {io1}
TwoWorkers == {w1, w2}
ThreeItems == {i1, i2, i3}
=============================================================================
