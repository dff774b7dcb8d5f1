------------------------------ MODULE HostSetup ------------------------------
(* bench/setup.py: check judges the host and hashes what identifies it;      *)
(* apply writes the settings that can be changed at run time, one by one,    *)
(* and delegates the cgroup io controller level by level.                    *)
EXTENDS Naturals, Sequences, SequencesExt

CONSTANTS
    Cpus,             \* with cpufreq
    MaxMeddling       \* bound: failed writes, and changes somebody else makes

Knobs == {"no_turbo", "boost", "numa_balancing", "paranoid", "delayacct"}
Levels == <<"user.slice", "user-UID.slice", "user@UID.service", "app.slice">>

VARIABLES
    has,              \* the knobs this machine has
    governor, online, \* of each CPU
    knob,             \* "set" or "unset"
    io,               \* the levels whose subtree_control carries io
    todo,             \* what apply has still to write; <<>> when it is not running
    applied,          \* an apply ended with every write taken, nothing changed since
    meddling

uvars == <<has, governor, online, knob, io, todo, applied, meddling>>

SetupInit ==
    /\ has = {}
    /\ governor = [c \in Cpus |-> "powersave"]
    /\ online = [c \in Cpus |-> TRUE]
    /\ knob = [k \in Knobs |-> "unset"]
    /\ io = {}
    /\ todo = <<>> /\ applied = FALSE /\ meddling = 0

Boot ==
    /\ has = {}
    /\ has' \in {k \cup {"paranoid", "delayacct"} :
                    k \in SUBSET {"no_turbo", "boost", "numa_balancing"}}
    /\ online' \in [Cpus -> BOOLEAN] /\ \E c \in Cpus : online'[c]
    /\ io' \in {{}, {"user.slice"}}
    /\ UNCHANGED <<governor, knob, todo, applied, meddling>>

Meddle == meddling < MaxMeddling /\ meddling' = meddling + 1

-----------------------------------------------------------------------------
(* check_governor reads what can be read: an offline CPU cannot.             *)
GovernorOk == {governor[c] : c \in {d \in Cpus : online[d]}} = {"performance"}

(* check_turbo: no_turbo speaks where there is one.                          *)
TurboOk ==
    IF "no_turbo" \in has THEN knob["no_turbo"] = "set"
    ELSE "boost" \in has /\ knob["boost"] = "set"
MemoryOk == "numa_balancing" \in has => knob["numa_balancing"] = "set"
PerfOk == "paranoid" \in has /\ knob["paranoid"] = "set"

(* check_instruments: observed, never a failure.                             *)
IoMissing == {i \in DOMAIN Levels : Levels[i] \notin io}
Instrumented == IoMissing = {} /\ knob["delayacct"] = "set"

Failures ==
    {x \in {"governor", "turbo", "memory", "perf"} :
        CASE x = "governor" -> ~GovernorOk
          [] x = "turbo"    -> ~TurboOk
          [] x = "memory"   -> ~MemoryOk
          [] x = "perf"     -> ~PerfOk}

(* What the environment hash is of; what is observed is not in it.           *)
Hashed == <<{governor[c] : c \in {d \in Cpus : online[d]}}, knob["boost"],
            knob["no_turbo"], knob["numa_balancing"], knob["paranoid"]>>

-----------------------------------------------------------------------------
(* apply: the governors of the CPUs online now, the knobs there are, then    *)
(* io from the top level down, where it is not there already.                *)
GovernorWrites ==
    LET up == SetToSeq({c \in Cpus : online[c]})
    IN  [i \in DOMAIN up |-> <<"governor", up[i]>>]
KnobWrites ==
    LET write(k) == IF k \in has THEN <<<<"knob", k>>>> ELSE <<>>
    IN  write("no_turbo") \o write("boost") \o write("numa_balancing")
            \o write("paranoid") \o write("delayacct")
IoWrites == [i \in DOMAIN Levels |-> <<"io", i>>]

StartApply ==
    /\ has # {} /\ todo = <<>>
    /\ todo' = GovernorWrites \o KnobWrites \o IoWrites \o <<<<"done", "all">>>>
    /\ applied' = TRUE
    /\ UNCHANGED <<has, governor, online, knob, io, meddling>>

(* A level takes io only when its parent carries it.                         *)
IoTaken(i) == IF i = 1 THEN TRUE ELSE Levels[i - 1] \in io

Taken(w) ==
    CASE w[1] = "governor" -> online[w[2]]
      [] w[1] = "knob"     -> TRUE
      [] w[1] = "io"       -> IoTaken(w[2])

Write ==
    /\ Len(todo) > 1
    /\ LET w == Head(todo)
       IN  \/ /\ Taken(w)
              /\ governor' = IF w[1] = "governor"
                             THEN [governor EXCEPT ![w[2]] = "performance"] ELSE governor
              /\ knob' = IF w[1] = "knob" THEN [knob EXCEPT ![w[2]] = "set"] ELSE knob
              /\ io' = IF w[1] = "io" THEN io \cup {Levels[w[2]]} ELSE io
              /\ UNCHANGED <<applied, meddling>>
           \/ /\ IF Taken(w) THEN Meddle ELSE UNCHANGED meddling
              /\ applied' = FALSE
              /\ UNCHANGED <<governor, knob, io>>
    /\ todo' = Tail(todo)
    /\ UNCHANGED <<has, online>>

EndApply ==
    /\ Len(todo) = 1 /\ todo' = <<>>
    /\ UNCHANGED <<has, governor, online, knob, io, applied, meddling>>

(* A CPU goes on or off line, with the governor it had; a desktop sets one   *)
(* back; a login makes systemd rewrite the delegated levels.                 *)
Hotplug ==
    /\ has # {} /\ Meddle
    /\ \E c \in Cpus :
          /\ online' = [online EXCEPT ![c] = ~@]
          /\ \E d \in Cpus : online'[d]
          /\ applied' = (applied /\ ~online'[c])
    /\ UNCHANGED <<has, governor, knob, io, todo>>
SetBack ==
    /\ has # {} /\ Meddle
    /\ \/ \E c \in Cpus : governor' = [governor EXCEPT ![c] = "powersave"] /\ UNCHANGED knob
       \/ \E k \in has : knob' = [knob EXCEPT ![k] = "unset"] /\ UNCHANGED governor
    /\ applied' = FALSE
    /\ UNCHANGED <<has, online, io, todo>>
Login ==
    /\ has # {} /\ Meddle
    /\ io' = io \ {"user@UID.service", "app.slice"} /\ applied' = FALSE
    /\ UNCHANGED <<has, governor, online, knob, todo>>

SetupNext == Boot \/ StartApply \/ Write \/ EndApply \/ Hotplug \/ SetBack \/ Login

-----------------------------------------------------------------------------
SetupTypeOK ==
    /\ has \subseteq Knobs /\ io \subseteq {Levels[i] : i \in DOMAIN Levels}
    /\ governor \in [Cpus -> {"powersave", "performance"}]
    /\ knob \in [Knobs -> {"set", "unset"}] /\ meddling \in 0..MaxMeddling

(* An apply whose writes were all taken is enough: unless somebody has       *)
(* changed a setting or brought a CPU up since, no check of something        *)
(* settable fails, save the clock of a machine that has no switch for it,    *)
(* and every level down to the engines' own scope carries io.                *)
ApplyIsEnough ==
    (applied /\ todo = <<>>) =>
        /\ Failures \subseteq (IF has \cap {"no_turbo", "boost"} = {} THEN {"turbo"} ELSE {})
        /\ Instrumented

(* Why it holds: until an apply ends, what it has not set yet it has still   *)
(* to write, and whoever undoes a setting takes the claim back.              *)
HostHeld ==
    /\ SetupTypeOK /\ online \in [Cpus -> BOOLEAN]
    /\ has = {} => todo = <<>> /\ ~applied
    /\ has # {} => {"paranoid", "delayacct"} \subseteq has /\ \E c \in Cpus : online[c]
TheEnd == <<"done", "all">>
Writes ==
    {"governor"} \X Cpus \cup {"knob"} \X Knobs \cup {"io"} \X DOMAIN Levels \cup {TheEnd}
TodoHeld ==
    /\ todo \in Seq(Writes)
    /\ \A i \in DOMAIN todo : todo[i] = TheEnd <=> i = Len(todo)
Due(w) == \E i \in DOMAIN todo : todo[i] = w
SetOrDue ==
    applied =>
        /\ \A c \in Cpus : online[c] => governor[c] = "performance" \/ Due(<<"governor", c>>)
        /\ \A k \in has : knob[k] = "set" \/ Due(<<"knob", k>>)
        /\ \A i \in DOMAIN Levels : Levels[i] \in io \/ Due(<<"io", i>>)
SetupInv == HostHeld /\ TodoHeld /\ SetOrDue
=============================================================================
