-------------------------------- MODULE Settle -------------------------------
(* The waits before something is measured: fullrun.py's settle before a gate *)
(* is asked, workloads.py's waits before a row is tried again, and its wait  *)
(* for the engine's own work after an upload.  Load is in steps of a few     *)
(* percent per core; a wait polls until one of its reasons to stop.          *)
EXTENDS Integers, Sequences

CONSTANTS
    MaxPolls,         \* bound: polls before the deadline
    MaxShifts         \* bound: times the machine's work changes

Target == 2           \* SETTLE_TARGET_PCT, below
GateMax == 3          \* LOAD_PER_CORE_MAX_PCT
PlateauPolls == 3     \* SETTLE_PLATEAU_POLLS; equal steps are within its 5%
IdleStable == 3       \* ENGINE_IDLE_STABLE

VARIABLES
    work, foreign,    \* what runs now; whether a foreign process is over budget
    load1,            \* the decaying average of work
    used,             \* the engine's CPU time, in units that count; -1: it is gone
    waiting, polls,   \* which wait is on, its polls so far
    recent,           \* settle's readings
    stable,           \* settle_engine's windows in a row
    left,             \* how the last wait ended
    shifts,
    lately,           \* what ran when the wait last slept
    last,             \* settle_engine's reading of used
    silence           \* windows since the engine last ran in this wait; -1: in this one

wvars == <<work, foreign, load1, used, waiting, polls, recent, stable, left, shifts,
           lately, last, silence>>

Never == [wait |-> "none", why |-> "none", foreign |-> FALSE, load |-> 0, ran |-> 0,
          silence |-> 0, rate |-> "none"]

SettleInit ==
    /\ work = 0 /\ foreign = FALSE /\ load1 = 0 /\ used = 0
    /\ waiting = "none" /\ polls = 0 /\ recent = <<>> /\ stable = 0
    /\ left = Never /\ shifts = 0
    /\ lately = 0 /\ last = 0 /\ silence = 0

(* Work comes and goes; a foreign process over its budget moves a many-core  *)
(* average little; the engine optimises on after green, or dies.             *)
Shift ==
    /\ shifts < MaxShifts /\ shifts' = shifts + 1
    /\ \/ /\ work' \in {0, 3, 4} /\ foreign' \in BOOLEAN
          /\ UNCHANGED <<used, silence>>
       \/ /\ used # -1 /\ used' \in {used + 1, -1} /\ silence' = -1
          /\ UNCHANGED <<work, foreign>>
    /\ UNCHANGED <<load1, waiting, polls, recent, stable, left, lately, last>>

Begin ==
    /\ waiting = "none"
    /\ waiting' \in {"settle", "retry", "retry_load", "engine"}
    /\ load1' \in {work, 6} /\ polls' = 0 /\ recent' = <<>> /\ stable' = 0
    /\ last' = used /\ silence' = 0
    /\ UNCHANGED <<work, foreign, used, left, shifts, lately>>

Decayed == IF load1 > work THEN load1 - 1 ELSE IF load1 < work THEN load1 + 1 ELSE load1

Leave(why, rate) ==
    /\ waiting' = "none"
    /\ left' = [wait |-> waiting, why |-> why, foreign |-> foreign, load |-> load1,
                ran |-> lately, silence |-> silence + 1, rate |-> rate]
    /\ UNCHANGED <<work, foreign, load1, used, polls, recent, stable, shifts, lately,
                   last, silence>>

Sleep ==
    /\ polls' = polls + 1 /\ load1' = Decayed /\ lately' = work
    /\ UNCHANGED <<work, foreign, used, waiting, left, shifts>>

TimedOut == polls >= MaxPolls

-----------------------------------------------------------------------------
(* settle: the average low, or no longer falling, and in either case nothing *)
(* foreign by the gate's own instrument; or the deadline.                    *)
Readings == LET all == Append(recent, load1)
            IN  IF Len(all) > PlateauPolls THEN Tail(all) ELSE all
Plateau == Len(Readings) = PlateauPolls /\ \A i, j \in DOMAIN Readings : Readings[i] = Readings[j]
Quiet == load1 <= Target /\ ~foreign
AtFloor == Plateau /\ ~foreign

SettlePoll ==
    /\ waiting = "settle"
    /\ \/ Quiet /\ Leave("quiet", "none")
       \/ ~Quiet /\ AtFloor /\ Leave("floor", "none")
       \/ ~Quiet /\ ~AtFloor /\ TimedOut /\ Leave("deadline", "none")
       \/ /\ ~Quiet /\ ~AtFloor /\ ~TimedOut
          /\ Sleep /\ recent' = Readings /\ UNCHANGED <<stable, last, silence>>

(* settle_for_retry, settle_load_for_retry: the instrument that condemned    *)
(* the row; silent about giving up.                                          *)
RetryPoll ==
    /\ waiting \in {"retry", "retry_load"}
    /\ LET clear == IF waiting = "retry" THEN ~foreign ELSE load1 <= GateMax
       IN  \/ TimedOut /\ Leave("deadline", "none")
           \/ ~TimedOut /\ clear /\ Leave("quiet", "none")
           \/ ~TimedOut /\ ~clear /\ Sleep /\ UNCHANGED <<recent, stable, last, silence>>

\* Mutant: windows that are idle, in a row or not.
WindowsInAll == IF used = last THEN stable + 1 ELSE stable

(* settle_engine: idle windows in a row, by the difference of two readings   *)
(* of the engine's time; an engine that is gone leaves no rate.              *)
Windows == IF used = last THEN stable + 1 ELSE 0
Rate == IF used = last THEN "idle" ELSE "busy"
EnginePoll ==
    /\ waiting = "engine"
    /\ \/ used = -1 /\ Leave("gone", "none")
       \/ used # -1 /\ Windows >= IdleStable /\ Leave("quiet", Rate)
       \/ used # -1 /\ Windows < IdleStable /\ TimedOut /\ Leave("deadline", Rate)
       \/ /\ used # -1 /\ Windows < IdleStable /\ ~TimedOut
          /\ Sleep /\ stable' = Windows /\ last' = used /\ silence' = silence + 1
          /\ UNCHANGED recent

SettleNext == Shift \/ Begin \/ SettlePoll \/ RetryPoll \/ EnginePoll

-----------------------------------------------------------------------------
SettleTypeOK ==
    /\ load1 \in 0..6 /\ polls \in 0..MaxPolls /\ shifts \in 0..MaxShifts
    /\ Len(recent) <= PlateauPolls /\ stable \in 0..IdleStable

(* What a wait that ended believes of the machine is so: an average that has *)
(* stopped falling is of what runs, not of the phase before, and of nothing  *)
(* foreign; an engine called idle has used nothing for that many windows in  *)
(* a row, however it ran and rested before; and the rate a row is given is   *)
(* that of the last window.                                                  *)
WaitsAreTrue ==
    /\ left.why = "floor" => left.load = left.ran /\ ~left.foreign
    /\ left.wait = "engine" /\ left.why = "quiet" => left.silence >= IdleStable
    /\ left.rate = "idle" => left.silence > 0
    /\ left.rate = "busy" => left.silence = 0

(* Why it holds: settle's last reading has fallen by a step towards what ran *)
(* then, and stands only where it has arrived; and the windows in a row are  *)
(* windows the engine was silent in, unless it has run since.                *)
PollsHeld ==
    /\ work \in Nat /\ load1 \in Nat /\ lately \in Nat /\ recent \in Seq(Nat)
    /\ stable \in Nat /\ used \in Nat \cup {-1} /\ last \in Int /\ silence \in Int
ReadingsHeld ==
    waiting = "settle" /\ recent # <<>> =>
        LET was == recent[Len(recent)]
        IN  load1 = was => was = lately
WindowsHeld ==
    waiting = "engine" =>
        /\ silence >= -1 /\ (used # -1 => last \in 0..used)
        /\ IF used = last THEN silence >= stable ELSE silence = -1
WaitInv == PollsHeld /\ ReadingsHeld /\ WindowsHeld /\ WaitsAreTrue
=============================================================================
