------------------------------- MODULE Engines -------------------------------
(* The engine processes a run starts and the storage they leave              *)
(* (bench/harness/fullrun.py).  A process outlives the harness that started  *)
(* it, so what an earlier run left is as real as what this one starts.       *)
EXTENDS Naturals, FiniteSets

CONSTANTS
    Scopes       \* a systemd user manager: an engine runs in a named scope

VARIABLES
    live,        \* the engine processes: [eng, port, run, bin]
    disk         \* per storage directory: who filled it last, or "empty"

Kinds == {"sm", "native", "container"}
ArmPort == 6334       \* STRAWMANN_PORT and QDRANT_GRPC
ConfPort == 6344      \* STRAWMANN_CONF_PORT
Stores == {"sm", "qd"}

StoreOf(kind) == IF kind = "sm" THEN "sm" ELSE "qd"

EnginesInit ==
    /\ live = {}
    /\ disk = [s \in Stores |-> "empty"]

(* strawmANN listens with SO_REUSEPORT: a second one on a port joins the     *)
(* first.  Qdrant's two ports are one here; a busy one ends its start.       *)
Serving(port) == {p \in live : p.port = port}

(* ports_in_use: the harness's own leftover container is removed, anything   *)
(* else on one of the run's ports is reported.                               *)
WithoutContainer == {p \in live : p.eng # "container"}
\* Mutant: the differ's port is not looked at.
ArmPortInUse == {p.port : p \in WithoutContainer} \cap {ArmPort}

PortsInUse == {p.port : p \in WithoutContainer} \cap {ArmPort, ConfPort}

(* stop_scope: by name, so it reaches what an interrupted run left.          *)
AfterStopScope(kind, procs) ==
    IF Scopes THEN {p \in procs : p.eng # kind} ELSE procs

(* wipe_strawmann_storage goes on after a file it could not remove;          *)
(* wipe_qdrant_storage reports it and its caller refuses.                    *)
Wiped(store, works) == IF works THEN [disk EXCEPT ![store] = "empty"] ELSE disk

(* start_strawmann: the arenas of an earlier run go, then the engine maps    *)
(* its own, or exited at once.                                               *)
StartStrawmann(port, run, bin, up) ==
    LET rest == AfterStopScope("sm", live)
    IN  /\ live' = IF up THEN rest \cup {[eng |-> "sm", port |-> port,
                                          run |-> run, bin |-> bin]}
                   ELSE rest
        /\ disk' = [disk EXCEPT !["sm"] = IF up THEN "used" ELSE "empty"]

(* stop_qdrant reaches this process's own native child, or the container by  *)
(* its name.                                                                 *)
AfterStopQdrant(run, procs) ==
    {p \in procs : p.eng # "container" /\ ~(p.eng = "native" /\ p.run = run)}

(* start_qdrant and start_qdrant_binary: stop the old one, refuse a held     *)
(* port (the harness itself for the binary, before it touches the storage;   *)
(* for a container docker does, which cannot bind it), refuse a storage that *)
(* could not be emptied, then wait for the answer.                           *)
Others(kind, run) == AfterStopScope(kind, AfterStopQdrant(run, live))
PortHeld(kind, run) == \E p \in Others(kind, run) : p.port = ArmPort
QdrantMayStart(kind, run, works) == works /\ ~PortHeld(kind, run)

StartQdrant(kind, run, works, answers) ==
    LET up == QdrantMayStart(kind, run, works) /\ answers
    IN  /\ live' = Others(kind, run) \cup
                      IF up THEN {[eng |-> kind, port |-> ArmPort, run |-> run, bin |-> 0]}
                      ELSE {}
        /\ disk' = IF up THEN [disk EXCEPT !["qd"] = "used"]
                   ELSE IF kind = "native" /\ PortHeld(kind, run) THEN disk
                   ELSE Wiped("qd", works)

(* finish_strawmann_arm, finish_qdrant_arm and finish_conformance.           *)
AfterStopStrawmann(run, procs) == {p \in procs : ~(p.eng = "sm" /\ p.run = run)}

FinishStrawmannArm(run, works) ==
    /\ live' = AfterStopScope("sm", AfterStopStrawmann(run, live))
    /\ disk' = Wiped("sm", works)

FinishQdrantArm(run, works) ==
    /\ live' = AfterStopQdrant(run, live)
    /\ disk' = Wiped("qd", works)

\* Mutant: only strawmANN is stopped after the differ.
FinishConformanceHalf(run, works) ==
    /\ live' = AfterStopStrawmann(run, live)
    /\ disk' = IF works THEN [s \in Stores |-> "empty"] ELSE disk

FinishConformance(run, works) ==
    /\ live' = AfterStopQdrant(run, AfterStopStrawmann(run, live))
    /\ disk' = IF works THEN [s \in Stores |-> "empty"] ELSE disk
=============================================================================
