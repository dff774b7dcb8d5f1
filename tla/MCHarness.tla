------------------------------ MODULE MCHarness ------------------------------
(* The harness on a table of ten rows, of every kind Plan tells apart; the    *)
(* other bounds are in Parts.cfg.                                             *)
EXTENDS Harness

R(id, c, up, bg) == [id |-> id, coll |-> c, upload |-> up, background |-> bg]
BenchTable == <<
    R("W0-upload", "bench0", TRUE, FALSE), R("W0", "bench0", FALSE, FALSE),
    R("W1", "bench1", TRUE, FALSE),
    R("W2", "bench2", TRUE, FALSE), R("W4", "bench2", FALSE, FALSE),
    R("W7-2bit-upload", "bench7b2", TRUE, FALSE), R("W7-2bit", "bench7b2", FALSE, FALSE),
    R("W14-4bit-upload", "bench14t4", TRUE, FALSE), R("W14-4bit", "bench14t4", FALSE, FALSE),
    R("W11", "bench2", FALSE, TRUE)>>
BenchSwept == {"bench2", "bench7b2", "bench14t4"}
BenchEncodings == <<[search |-> "W7-2bit", coll |-> "bench7b2"],
                    [search |-> "W14-4bit", coll |-> "bench14t4"]>>
DatasetFiles == {"train", "test", "archive"}

SomeRows == <<[id |-> "W2", kind |-> "upload"], [id |-> "W4", kind |-> "search"],
              [id |-> "W4-sat50", kind |-> "rate"], [id |-> "W11", kind |-> "write"]>>
SomeSteps == <<"kernels", "warm", "probe">>
=============================================================================
