------------------------------ MODULE HostLoad -------------------------------
(* bench/harness/host_load.py and the quiescence check of bench/setup.py:    *)
(* what else ran between two samples of /proc.  A sample reads the           *)
(* processes, then what the harness's reaped children used and the machine's *)
(* busy time; the harness that samples reaps none meanwhile.                 *)
EXTENDS Integers

CONSTANTS
    Budget,           \* FOREIGN_BUDGET_CORES over the interval, in units of CPU
    MaxBursts,        \* bound: units of CPU used in a behaviour
    MaxEvents         \* bound: starts, exits and execs

(* The engine, a child of the harness, a kernel thread, two strangers.       *)
Procs == {"engine", "bfb", "kthread", "rustc", "editor"}
Foreign == {"rustc", "editor"}             \* what _is_ours says no to
Strange(cmd) == cmd \in {"rustc", "editor", "other"}

VARIABLES
    at,               \* "idle", "row", "after", "judged"
    used,             \* CPU of each process so far; -1: not running
    cmd,              \* its command line
    busy,             \* the machine's non-idle time
    children,         \* RUSAGE_CHILDREN of the harness
    s0, s1,           \* the samples: [procs, cmds, busy, children]
    sampling,         \* what the sample at hand still lacks
    foreignWork,      \* what strangers really used inside the interval
    unowned,          \* what foreign_between may charge to nobody's account
    verdict, gate,
    events

hvars == <<at, used, cmd, busy, children, s0, s1, sampling, foreignWork, unowned,
           verdict, gate, events>>

Running == {p \in Procs : used[p] >= 0}
NoSample == [procs |-> [p \in {} |-> 0], cmds |-> [p \in {} |-> ""],
             busy |-> 0, children |-> 0]

LoadInit ==
    /\ at = "idle"
    /\ used = [p \in Procs |-> IF p = "bfb" THEN -1 ELSE 1]
    /\ cmd = [p \in Procs |-> p]
    /\ busy = 4 /\ children = 1
    /\ s0 = NoSample /\ s1 = NoSample /\ sampling = "no"
    /\ foreignWork = 0 /\ unowned = 0
    /\ verdict = "none" /\ gate = "none" /\ events = 0

InRow == at = "row" \/ sampling # "no"

-----------------------------------------------------------------------------
(* The machine, inside the interval.                                         *)
Burst ==
    /\ busy < 4 + MaxBursts /\ InRow
    /\ \E p \in Running :
          /\ used' = [used EXCEPT ![p] = @ + 1]
          /\ foreignWork' = foreignWork + (IF Strange(cmd[p]) THEN 1 ELSE 0)
          /\ unowned' = unowned + (IF sampling # "no" THEN 1 ELSE 0)
    /\ busy' = busy + 1
    /\ UNCHANGED <<at, cmd, children, s0, s1, sampling, verdict, gate, events>>

Event == events < MaxEvents /\ events' = events + 1 /\ InRow

(* run_one starts bfb inside the bracket and reaps it there.                 *)
ChildStarts ==
    /\ at = "row" /\ sampling = "no" /\ used["bfb"] = -1 /\ Event
    /\ used' = [used EXCEPT !["bfb"] = 0]
    /\ UNCHANGED <<at, cmd, busy, children, s0, s1, sampling, foreignWork, unowned,
                   verdict, gate>>
ChildReaped ==
    /\ at = "row" /\ sampling = "no" /\ used["bfb"] >= 0
    /\ children' = children + used["bfb"]
    /\ used' = [used EXCEPT !["bfb"] = -1]
    /\ UNCHANGED <<at, cmd, busy, s0, s1, sampling, foreignWork, unowned, verdict, gate,
                   events>>

(* A stranger exits unseen, or an engine dies: nobody reaps it here.         *)
Exits ==
    /\ Event
    /\ \E p \in Running \ {"bfb", "kthread"} :
          /\ used' = [used EXCEPT ![p] = -1]
          /\ unowned' = unowned + (IF Strange(cmd[p]) THEN 0 ELSE used[p] - s0.procs[p])
    /\ UNCHANGED <<at, cmd, busy, children, s0, s1, sampling, foreignWork, verdict, gate>>
Starts ==
    /\ Event
    /\ \E p \in Foreign \ Running :
          used' = [used EXCEPT ![p] = 0] /\ cmd' = [cmd EXCEPT ![p] = "other"]
    /\ UNCHANGED <<at, busy, children, s0, s1, sampling, foreignWork, unowned, verdict, gate>>
(* A running stranger becomes another program: its whole time counts.        *)
Execs ==
    /\ Event
    /\ \E p \in Foreign \cap Running :
          /\ cmd' = [cmd EXCEPT ![p] = "other"]
          /\ unowned' = unowned + (IF p \in DOMAIN s0.procs THEN s0.procs[p] ELSE 0)
    /\ UNCHANGED <<at, used, busy, children, s0, s1, sampling, foreignWork, verdict, gate>>

-----------------------------------------------------------------------------
(* cpu_sample: the processes, then getrusage and the busy line.              *)
ReadProcs ==
    /\ sampling = "no" /\ at \in {"idle", "row"}
    /\ at = "row" => used["bfb"] = -1       \* run_one has waited for it
    /\ LET got == [NoSample EXCEPT !.procs = [p \in Running |-> used[p]],
                                   !.cmds = [p \in Running |-> cmd[p]]]
       IN  IF at = "idle" THEN s0' = got /\ s1' = s1 ELSE s1' = got /\ s0' = s0
    /\ sampling' = "busy"
    /\ UNCHANGED <<at, used, cmd, busy, children, foreignWork, unowned, verdict, gate, events>>

ReadBusy ==
    /\ sampling = "busy"
    /\ IF at = "idle"
       THEN s0' = [s0 EXCEPT !.busy = busy, !.children = children] /\ s1' = s1
       ELSE s1' = [s1 EXCEPT !.busy = busy, !.children = children] /\ s0' = s0
    /\ at' = IF at = "idle" THEN "row" ELSE "after"
    /\ sampling' = "no"
    /\ UNCHANGED <<used, cmd, busy, children, foreignWork, unowned, verdict, gate, events>>

-----------------------------------------------------------------------------
Larger(a, b) == IF a > b THEN a ELSE b

(* What a process used between the samples: all of it when it is new, or is  *)
(* not the program it was.                                                   *)
Earlier(a, b, p) ==
    IF p \in DOMAIN a.procs /\ a.cmds[p] = b.cmds[p] THEN a.procs[p] ELSE 0
During(a, b, p) == Larger(0, b.procs[p] - Earlier(a, b, p))
SumOver(a, b, S) ==
    LET part(p) == IF p \in S THEN During(a, b, p) ELSE 0
    IN  part("engine") + part("bfb") + part("kthread") + part("rustc") + part("editor")

Strangers(b) == {p \in DOMAIN b.procs : Strange(b.cmds[p])}
SeenForeign(a, b) == SumOver(a, b, Strangers(b))
SeenOwn(a, b) == SumOver(a, b, DOMAIN b.procs \ Strangers(b))
Accounted(a, b) == SeenOwn(a, b) + Larger(0, b.children - a.children)

\* Mutant: what ran and exited between two samples is nobody's.
NoneExited(a, b) == 0

(* foreign_between: what the machine did that nobody visible accounts for is *)
(* charged to processes that exited.                                         *)
Exited(a, b) == Larger(0, b.busy - a.busy - Accounted(a, b) - SeenForeign(a, b))
ForeignBetween(a, b) ==
    IF SeenForeign(a, b) + Exited(a, b) <= Budget THEN "quiet" ELSE "foreign"

(* check_quiescent: the visible strangers, and the load average for the rest.*)
CheckQuiescent(a, b, calm) ==
    IF SeenForeign(a, b) > Budget THEN "fail"
    ELSE IF SeenForeign(a, b) > 0 \/ calm THEN "ok" ELSE "fail"

Judge ==
    /\ at = "after" /\ at' = "judged"
    /\ verdict' = ForeignBetween(s0, s1)
    /\ \E calm \in BOOLEAN : gate' = CheckQuiescent(s0, s1, calm)
    /\ UNCHANGED <<used, cmd, busy, children, s0, s1, sampling, foreignWork, unowned, events>>

LoadNext ==
    \/ Burst \/ ChildStarts \/ ChildReaped \/ Exits \/ Starts \/ Execs
    \/ ReadProcs \/ ReadBusy \/ Judge

-----------------------------------------------------------------------------
LoadTypeOK ==
    /\ at \in {"idle", "row", "after", "judged"} /\ sampling \in {"no", "busy"}
    /\ used \in [Procs -> -1..(MaxBursts + 2)] /\ busy \in 4..(4 + MaxBursts)
    /\ verdict \in {"none", "quiet", "foreign"} /\ gate \in {"none", "ok", "fail"}

(* A row beside more foreign work than the budget is condemned, whether the  *)
(* strangers were there throughout, came, left, or lived only inside it; and *)
(* a row is condemned for strangers, the exit of an engine, a program that   *)
(* became another, or what ran while a sample was read, never for the engine *)
(* or for the load generator the harness itself reaped.                      *)
ForeignIsSeen ==
    at = "judged" =>
        /\ foreignWork > Budget + unowned => verdict = "foreign"
        /\ verdict = "foreign" => foreignWork + unowned > Budget

(* Why it holds: whatever is used is in some account.  The first sample is   *)
(* of the machine as it was found; since then each process has used what a   *)
(* sample taken now would see, and the children what was reaped.             *)
Fields == DOMAIN NoSample
Found == [p \in Procs \ {"bfb"} |-> 1]
FoundCmds == [p \in Procs \ {"bfb"} |-> p]
Since(p) == IF used[p] < 0 THEN 0
            ELSE used[p] - (IF p # "bfb" /\ cmd[p] = p THEN 1 ELSE 0)
OwnSince == Since("engine") + Since("bfb") + Since("kthread") + children - 1
ForeignSince == Since("rustc") + Since("editor")

ProcsHeld ==
    /\ used \in [Procs -> Int] /\ used["kthread"] >= 1
    /\ cmd \in [Procs -> Procs \cup {"other"}]
    /\ \A p \in Procs : Since(p) >= 0 /\ (cmd[p] = p \/ (p \in Foreign /\ cmd[p] = "other"))
    /\ busy \in Nat /\ children \in Nat \ {0} /\ foreignWork \in Nat /\ unowned \in Nat
FirstHeld ==
    /\ at = "idle" => used["bfb"] = -1 /\ children = 1
    /\ at = "idle" /\ sampling = "no" =>
          /\ used = [p \in Procs |-> IF p = "bfb" THEN -1 ELSE 1] /\ cmd = [p \in Procs |-> p]
          /\ busy = 4 /\ foreignWork = 0 /\ unowned = 0
    /\ at # "idle" \/ sampling # "no" =>
          DOMAIN s0 = Fields /\ s0.procs = Found /\ s0.cmds = FoundCmds
    /\ at # "idle" => s0.busy \in Nat /\ s0.busy >= 4 /\ s0.children = 1
    /\ at \in {"idle", "row", "after", "judged"} /\ sampling \in {"no", "busy"}
    /\ at \in {"after", "judged"} => sampling = "no"
    /\ at = "row" /\ sampling = "busy" => DOMAIN s1 = Fields
    /\ at = "after" => s1.busy = busy /\ s1.children = children

(* The machine's time is the foreign work and its own; of either at most     *)
(* what nobody owns is seen too much or too little of.                       *)
Balanced(foreign, own, first) ==
    /\ foreign \in Int /\ own \in Int
    /\ foreign <= foreignWork + unowned
    /\ own <= busy - 4 - foreignWork
    /\ (busy - 4 - foreignWork) - own + (first - 4) <= unowned
WorkHeld ==
    /\ at = "idle" => Balanced(ForeignSince, OwnSince, busy)
    /\ at = "row" /\ sampling = "no" => Balanced(ForeignSince, OwnSince, s0.busy)
    /\ (at = "row" /\ sampling = "busy") \/ at = "after" =>
          /\ SeenOwn(s0, s1) \in Int
          /\ Balanced(SeenForeign(s0, s1), SeenOwn(s0, s1) + children - 1, s0.busy)
LoadInv == ProcsHeld /\ FirstHeld /\ WorkHeld /\ ForeignIsSeen
=============================================================================
