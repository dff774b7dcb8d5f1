------------------------------ MODULE MCFullRun ------------------------------
EXTENDS FullRun
CommandLines ==
    {[skip |-> {}, reps |-> 2, qdrant |-> "native", lax |-> FALSE],
     [skip |-> {}, reps |-> 1, qdrant |-> "container", lax |-> TRUE],
     [skip |-> {"conformance"}, reps |-> 1, qdrant |-> "container", lax |-> FALSE],
     [skip |-> {"qdrant"}, reps |-> 1, qdrant |-> "native", lax |-> FALSE],
     [skip |-> {"strawmann", "qdrant"}, reps |-> 2, qdrant |-> "native", lax |-> FALSE]}
=============================================================================
