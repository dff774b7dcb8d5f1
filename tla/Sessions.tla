------------------------------ MODULE Sessions -------------------------------
(* The A/B drivers of bench/harness beside fullrun.py: each runs a plan of   *)
(* engine sessions, one engine at a time, and files what it measures under   *)
(* the session's arm.  commit_ab, qdrant_build_ab, qdrant_ab ("image"),      *)
(* w9_ab, upload_order_ab ("order"), qdrant_w4_probe ("probe"), isa_sweep.   *)
EXTENDS Naturals, Sequences, FiniteSets, SequencesExt

CONSTANTS
    Reps,             \* --reps, --passes
    MaxTroubles       \* bound: crashes, failures and interrupts

Drivers == {"commit", "build", "image", "w9", "order", "probe", "isa"}
Arms(d) == IF d = "w9" THEN <<"stream7", "stream4", "batch8">> ELSE <<"a", "b">>

(* What an engine was started as: the arm, or for w9 its worker count.       *)
ConfigOf(d, arm) ==
    IF d # "w9" THEN arm ELSE IF arm = "stream4" THEN "4" ELSE "7"

VARIABLES
    driver, keep,
    todo,             \* the sessions left; the first is the one under way
    engine,           \* the engines alive: [of, config]
    data,             \* what the collection holds: the config that served its upload, whole or not
    phase, runs,      \* where the session is; the rows it has left
    measured,         \* [arm, rep, by, over]
    setting,          \* MST_ENV in the driver's environment
    rc, troubles

ssvars == <<driver, keep, todo, engine, data, phase, runs, measured, setting, rc, troubles>>

-----------------------------------------------------------------------------
(* The plans: the order rotated by one each rep; in turn; arm by arm; arms   *)
(* that share a start-up flag in one session.                                *)
Rotated(arms) ==
    [i \in 1..(Reps * Len(arms)) |->
        LET rep == (i - 1) \div Len(arms)
        IN  [arm |-> arms[((i - 1 + rep) % Len(arms)) + 1], rep |-> rep + 1]]
InTurn(arms) ==
    [i \in 1..(Reps * Len(arms)) |->
        [arm |-> arms[((i - 1) % Len(arms)) + 1], rep |-> ((i - 1) \div Len(arms)) + 1]]
ArmByArm(arms) ==
    [i \in 1..(Reps * Len(arms)) |->
        [arm |-> arms[((i - 1) \div Reps) + 1], rep |-> ((i - 1) % Reps) + 1]]

Alone(plan, d) == [i \in DOMAIN plan |-> [config |-> ConfigOf(d, plan[i].arm), runs |-> <<plan[i]>>]]
Sharing(config) == InTurn(IF config = "7" THEN <<"stream7", "batch8">> ELSE <<"stream4">>)

Plan(d) ==
    CASE d \in {"commit", "build"}         -> Alone(Rotated(Arms(d)), d)
      [] d \in {"image", "probe", "isa"}   -> Alone(InTurn(Arms(d)), d)
      [] d = "order"                       -> Alone(ArmByArm(Arms(d)), d)
      [] d = "w9" -> <<[config |-> "7", runs |-> Sharing("7")], [config |-> "4", runs |-> Sharing("4")]>>

-----------------------------------------------------------------------------
Nothing == [config |-> "none", whole |-> FALSE]

SessionsInit ==
    /\ driver = "none" /\ keep = FALSE /\ todo = <<>> /\ engine = {}
    /\ data = Nothing /\ phase = "idle" /\ runs = <<>> /\ measured = {}
    /\ setting = "unset" /\ rc = 0 /\ troubles = 0

(* An engine an interrupted run left, or one somebody else runs; beside      *)
(* start_strawmann a second strawmann shares the port, which the drivers     *)
(* only warn about, and qdrant_ab asks nothing of the port: these start      *)
(* beside no stranger here.                                                  *)
Choose ==
    /\ phase = "idle"
    /\ driver' \in Drivers /\ keep' \in (IF driver' = "image" THEN BOOLEAN ELSE {FALSE})
    /\ engine' \in {{}, {[of |-> "left", config |-> "old"]}} \cup
                   (IF driver' \in {"build", "probe", "isa"}
                    THEN {{[of |-> "stranger", config |-> "old"]}} ELSE {})
    /\ data' \in {Nothing, [config |-> "old", whole |-> TRUE]}
    /\ todo' = Plan(driver') /\ phase' = "start"
    /\ UNCHANGED <<runs, measured, setting, rc, troubles>>

Trouble == troubles < MaxTroubles /\ troubles' = troubles + 1
Session == Head(todo)

(* What a start leaves alive: it stops the scope or the container by name    *)
(* and this driver's own Qdrant; isa_sweep every strawmann that takes a      *)
(* SIGTERM.                                                                  *)
Strangers == {e \in engine : e.of = "stranger"}
Survivors == IF driver = "isa" THEN SUBSET Strangers ELSE {Strangers}

(* The probe keeps the storage of its first start; a strawmann starts with   *)
(* no collection, wiped or not.                                              *)
First == Len(todo) = Len(Plan(driver))
Reloads == driver = "probe" /\ ~First

\* Mutant: a collection that is already loaded is not uploaded again.
UpOverLoaded(left) ==
    /\ engine' = left \cup {[of |-> "mine", config |-> Session.config]}
    /\ data' = data
    /\ phase' = IF data.whole THEN "load" ELSE "upload"

Up(left) ==
    /\ engine' = left \cup {[of |-> "mine", config |-> Session.config]}
    /\ data' = IF Reloads THEN data ELSE Nothing
    /\ phase' = IF Reloads THEN "load" ELSE "upload"

(* A start that failed ends the driver, or the arm: upload_order_ab goes on  *)
(* to the next one, whose passes come after all of this one's.               *)
Rest(arm) ==
    SubSeq(todo, 1 + Cardinality({i \in DOMAIN todo : todo[i].config = arm}), Len(todo))
GivenUp ==
    IF driver = "order"
    THEN /\ todo' = Rest(Session.config) /\ phase' = IF todo' = <<>> THEN "finally" ELSE "start"
         /\ rc' = rc
    ELSE todo' = todo /\ phase' = "finally" /\ rc' = 1

Start ==
    /\ phase = "start"
    /\ runs' = Session.runs
    /\ setting' = IF driver # "probe" THEN setting
                  ELSE IF Session.config = "a" THEN "unset" ELSE "set"
    /\ \E left \in Survivors :
          \/ left = {} /\ Up(left) /\ UNCHANGED <<todo, rc, troubles>>
          \/ /\ IF left = {} THEN Trouble ELSE UNCHANGED troubles    \* the port is held
             /\ engine' = left /\ GivenUp
             /\ UNCHANGED data
    /\ UNCHANGED <<driver, keep, measured>>

(* The stop in a session's finally; the container and the probe's Qdrant     *)
(* stay up until the next start or the driver's own finally.                 *)
StopMine == {e \in engine : e.of # "mine"}
SessionStop == IF driver \in {"image", "probe"} THEN engine ELSE StopMine

Mine == {e \in engine : e.of = "mine"}

(* The session's upload, on whatever answers; upload_order_ab's "b" starts   *)
(* bench1 alongside first.  A status other than ok ends the session.         *)
Upload ==
    /\ phase = "upload"
    /\ \/ /\ Mine # {}
          /\ data' = [config |-> Session.config, whole |-> TRUE]
          /\ phase' = "rows"
          /\ UNCHANGED <<engine, todo, rc, troubles>>
       \/ /\ IF Mine = {} THEN UNCHANGED troubles ELSE Trouble
          /\ data' = [data EXCEPT !.whole = FALSE]
          /\ engine' = SessionStop /\ GivenUp
    /\ UNCHANGED <<driver, keep, runs, measured, setting>>

(* wait_loaded: green with every point, or the probe ends.                   *)
Load ==
    /\ phase = "load"
    /\ \/ Mine # {} /\ data.whole /\ phase' = "rows" /\ UNCHANGED <<rc, troubles>>
       \/ /\ IF Mine = {} \/ ~data.whole THEN UNCHANGED troubles ELSE Trouble
          /\ phase' = "finally" /\ rc' = 1
    /\ UNCHANGED <<driver, keep, todo, engine, data, runs, measured, setting>>

(* A row after its settle; one whose engine died carries no qps.             *)
Measure ==
    /\ phase = "rows" /\ runs # <<>>
    /\ measured' = measured \cup
          {[arm |-> Head(runs).arm, rep |-> Head(runs).rep, by |-> e, over |-> data] : e \in engine}
    /\ runs' = Tail(runs)
    /\ UNCHANGED <<driver, keep, todo, engine, data, phase, setting, rc, troubles>>

EndSession ==
    /\ phase = "rows" /\ runs = <<>>
    /\ engine' = SessionStop
    /\ todo' = Tail(todo)
    /\ phase' = IF Tail(todo) = <<>> THEN "finally" ELSE "start"
    /\ UNCHANGED <<driver, keep, data, runs, measured, setting, rc, troubles>>

Crash ==
    /\ phase \in {"upload", "load", "rows"} /\ Mine # {} /\ Trouble
    /\ engine' = StopMine
    /\ UNCHANGED <<driver, keep, todo, data, phase, runs, measured, setting, rc>>

(* Ctrl-C: the session's finally, then the driver's.                         *)
Interrupt ==
    /\ phase \in {"start", "upload", "load", "rows"} /\ Trouble
    /\ engine' = SessionStop
    /\ data' = IF phase = "upload" THEN [data EXCEPT !.whole = FALSE] ELSE data
    /\ phase' = "finally" /\ rc' = 1
    /\ UNCHANGED <<driver, keep, todo, runs, measured, setting>>

Finally ==
    /\ phase = "finally" /\ phase' = "done"
    /\ engine' = IF driver = "probe" \/ (driver = "image" /\ ~keep) THEN StopMine ELSE engine
    /\ setting' = "unset"
    /\ UNCHANGED <<driver, keep, todo, data, runs, measured, rc, troubles>>

SessionsNext ==
    \/ Choose \/ Start \/ Upload \/ Load \/ Measure \/ EndSession
    \/ Crash \/ Interrupt \/ Finally

-----------------------------------------------------------------------------
SessionsTypeOK ==
    /\ driver \in Drivers \cup {"none"} /\ rc \in {0, 1} /\ troubles \in 0..MaxTroubles
    /\ phase \in {"idle", "start", "upload", "load", "rows", "finally", "done"}
    /\ Cardinality(Mine) <= 1 /\ Cardinality(engine) <= 2

(* What is filed under an arm was served by an engine this driver started as *)
(* that arm, over a corpus uploaded whole to that arm's engine (the probe's  *)
(* arms share the first one's); a driver that ended well measured each arm   *)
(* --reps times, at each place in the order equally often where it rotates;  *)
(* and however it ended, nothing it started is left, unless --keep.          *)
ArmsMeasuredAsNamed ==
    /\ \A m \in measured :
          /\ m.by = [of |-> "mine", config |-> ConfigOf(driver, m.arm)]
          /\ m.over = [config |-> IF driver = "probe" THEN "a" ELSE m.by.config, whole |-> TRUE]
    /\ phase = "done" =>
          /\ Mine # {} => driver = "image" /\ keep
          /\ setting = "unset"
          /\ rc = 0 /\ troubles = 0 =>
                \A a \in ToSet(Arms(driver)) :
                    Cardinality({m \in measured : m.arm = a}) = Reps
    /\ \A d \in {"commit", "build"} :
          LET plan == Plan(d)
              n == Len(Arms(d))
              At(a, k) == {i \in DOMAIN plan : plan[i].config = a /\ (i - 1) % n = k}
          IN  Reps % n = 0 => \A a \in ToSet(Arms(d)), j, k \in 0..(n - 1) :
                                  Cardinality(At(a, j)) = Cardinality(At(a, k))

(* Why it holds.  Runs(d, c) are the rows of a driver's sessions of one config *)
(* and Row(a, k) is what its k-th of an arm must be.                          *)
Runs(d, c) == {r \in [arm : ToSet(Arms(d)), rep : 1..Reps] : ConfigOf(d, r.arm) = c}
Configs == {"a", "b", "7", "4"}
SessionSet(d) ==
    {s \in [config : Configs, runs : Seq([arm : ToSet(Arms(d)), rep : 1..Reps])] :
        \A j \in DOMAIN s.runs : ConfigOf(d, s.runs[j].arm) = s.config}
Row(a, k) ==
    [arm |-> a, rep |-> k, by |-> [of |-> "mine", config |-> ConfigOf(driver, a)],
     over |-> [config |-> IF driver = "probe" THEN "a" ELSE ConfigOf(driver, a), whole |-> TRUE]]
Serving == {"upload", "load", "rows"}
Untroubled == rc = 0 /\ troubles = 0

PlanHeld ==
    /\ phase \in Serving \cup {"idle", "start", "finally", "done"} /\ troubles \in Nat
    /\ phase = "idle" => /\ driver = "none" /\ Untroubled /\ todo = <<>>
                         /\ measured = {} /\ setting = "unset" /\ engine = {}
    /\ phase # "idle" => /\ driver \in Drivers /\ todo \in Seq(SessionSet(driver))
                         /\ Len(todo) <= Len(Plan(driver))
    /\ phase \in Serving \cup {"start"} => todo # <<>>
    /\ phase \in Serving => runs \in Seq(Runs(driver, Session.config))
EnginesHeld ==
    /\ driver \notin {"build", "probe", "isa"} => Strangers = {}
    /\ phase \in Serving => /\ engine \subseteq {[of |-> "mine", config |-> Session.config]}
                            /\ troubles = 0 => engine # {}
    /\ phase \in {"start", "finally"} /\ driver \notin {"image", "probe"} => Mine = {}
    /\ phase = "done" => setting = "unset" /\ (Mine # {} => driver = "image" /\ keep)
DataHeld ==
    /\ phase = "rows" =>
          data = [config |-> IF driver = "probe" THEN "a" ELSE Session.config, whole |-> TRUE]
    /\ phase = "load" => driver = "probe"
    /\ driver = "probe" =>
          /\ phase = "upload" => First
          /\ phase \in {"start", "upload"} /\ First => Session.config = "a"
          /\ phase = "load" \/ (phase = "start" /\ ~First) =>
                (data.whole => data = [config |-> "a", whole |-> TRUE])
MeasuredHeld == measured \subseteq {Row(a, k) : a \in ToSet(Arms(driver)), k \in 1..Reps}
Left(a, k) ==
    \/ phase \in Serving /\ \E j \in DOMAIN runs : runs[j] = [arm |-> a, rep |-> k]
    \/ \E i \in DOMAIN todo : /\ phase = "start" \/ i > 1
                              /\ \E j \in DOMAIN todo[i].runs :
                                    todo[i].runs[j] = [arm |-> a, rep |-> k]
CoverHeld ==
    Untroubled /\ phase # "idle" =>
        /\ phase \in {"finally", "done"} => todo = <<>>
        /\ \A a \in ToSet(Arms(driver)), k \in 1..Reps : Row(a, k) \in measured \/ Left(a, k)
SessionsInv == PlanHeld /\ EnginesHeld /\ DataHeld /\ MeasuredHeld /\ CoverHeld
=============================================================================
