------------------------------ MODULE FutexMutex ------------------------------
(***************************************************************************)
(* The three-state mutex of src/lock.zig.  Every critical section of the   *)
(* server is one of these, so the other modules may take mutual exclusion  *)
(* from it and model a critical section as one action.                     *)
(*                                                                         *)
(* The kernel's side: FUTEX_WAIT compares and goes to sleep in one step,   *)
(* FUTEX_WAKE of one wakes any one sleeper, and a sleeper may wake for no  *)
(* reason.                                                                 *)
(***************************************************************************)
CONSTANT Threads

VARIABLES
  state,    \* the futex word
  pc        \* where each thread is: in lock, in the section, in unlock

vars == <<state, pc>>

Steps == {"idle", "try", "swap", "wait", "asleep", "held", "wake"}

TypeOK ==
  /\ state \in {"unlocked", "locked", "contended"}
  /\ pc \in [Threads -> Steps]

Init == state = "unlocked" /\ pc = [t \in Threads |-> "idle"]

At(step) == {t \in Threads : pc[t] = step}
Move(t, step) == pc' = [pc EXCEPT ![t] = step]

Call(t) == pc[t] = "idle" /\ Move(t, "try") /\ UNCHANGED state

\* cmpxchgWeak(unlocked, locked): it may fail although the word matches.
Try(t) ==
  /\ pc[t] = "try"
  /\ \/ state = "unlocked" /\ state' = "locked" /\ Move(t, "held")
     \/ Move(t, "swap") /\ UNCHANGED state

\* Mutant: a thread that finds it free holds it as the fast path does.
SwapLocked(t) ==
  /\ pc[t] = "swap"
  /\ state' = IF state = "unlocked" THEN "locked" ELSE "contended"
  /\ Move(t, IF state = "unlocked" THEN "held" ELSE "wait")

\* Mutant: only a contended word is taken to be held.
SwapContended(t) ==
  /\ pc[t] = "swap"
  /\ state' = "contended"
  /\ Move(t, IF state = "contended" THEN "wait" ELSE "held")

\* swap(contended): whoever comes this way holds it as contended, because it
\* cannot know that it was the only waiter.
Swap(t) ==
  /\ pc[t] = "swap"
  /\ state' = "contended"
  /\ Move(t, IF state = "unlocked" THEN "held" ELSE "wait")

\* futexWait(state, contended)
Wait(t) ==
  /\ pc[t] = "wait"
  /\ Move(t, IF state = "contended" THEN "asleep" ELSE "swap")
  /\ UNCHANGED state

SpuriousWake(t) == pc[t] = "asleep" /\ Move(t, "swap") /\ UNCHANGED state

\* Mutant: unlock never enters the kernel.
UnlockQuietly(t) ==
  /\ pc[t] = "held"
  /\ state' = "unlocked"
  /\ Move(t, "idle")

\* swap(unlocked); the old word says whether anyone can be asleep.
Unlock(t) ==
  /\ pc[t] = "held"
  /\ state' = "unlocked"
  /\ Move(t, IF state = "contended" THEN "wake" ELSE "idle")

\* futexWake(state, 1)
Wake(t) ==
  /\ pc[t] = "wake"
  /\ \/ \E s \in At("asleep") : pc' = [pc EXCEPT ![t] = "idle", ![s] = "swap"]
     \/ At("asleep") = {} /\ Move(t, "idle")
  /\ UNCHANGED state

Run(t) == Try(t) \/ Swap(t) \/ Wait(t) \/ Unlock(t) \/ Wake(t)

Next == \E t \in Threads : Call(t) \/ Run(t) \/ SpuriousWake(t)

Spec == Init /\ [][Next]_vars

\* Threads that are not asleep run, and critical sections end.
FairSpec == Spec /\ \A t \in Threads : WF_vars(Run(t))

----------------------------------------------------------------------------
\* At most one thread is inside.
MutualExclusion == \A s, t \in At("held") : s = t

\* A sleeper is not forgotten: the word is contended, so that the next unlock
\* wakes one, or a thread that will set it so, or wake one, is on its way.
\* Any interleaving of unlock's swap and its wake with newcomers that take the
\* fast path in between is a chance to lose this.
NoLostWakeup ==
  At("asleep") # {} =>
    state = "contended" \/ At("swap") \cup At("wait") \cup At("wake") # {}

\* Someone who wants it is never left with no one inside for ever.
Progress == (\E t \in Threads : pc[t] \in {"try", "swap", "wait", "asleep"})
              ~> At("held") # {}

\* Who is inside a call of lock, up to its return.
Asking == At("try") \cup At("swap") \cup At("wait") \cup At("asleep")

\* It keeps the contract its callers rely on: nobody comes into the section but
\* one that asked, alone, and only the one inside opens it again.
Kept == INSTANCE MutexContract WITH asking <- Asking, inside <- At("held")
ImplementsLock == Kept!Contract
=============================================================================
