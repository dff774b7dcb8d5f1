--------------------------- MODULE FutexMutex_proofs ---------------------------
(***************************************************************************)
(* The mutex excludes, loses no wakeup and keeps its contract, for any set *)
(* of threads.                                                             *)
(***************************************************************************)
EXTENDS FutexMutex, TLAPS

\* The word says whether anyone is inside.
WordTells == state = "unlocked" <=> At("held") = {}

MutexInv == TypeOK /\ MutualExclusion /\ WordTells /\ NoLostWakeup

LEMMA MutexInit == Init => MutexInv
PROOF
  BY DEF Init, MutexInv, TypeOK, MutualExclusion, WordTells, NoLostWakeup, At, Steps

\* Types, exclusion and the word: one step of any thread.
LEMMA MutexExcludes ==
  ASSUME MutexInv, NEW t \in Threads, Call(t) \/ Run(t) \/ SpuriousWake(t)
  PROVE  TypeOK' /\ MutualExclusion' /\ WordTells'
PROOF
  <1> USE DEF MutexInv, TypeOK, MutualExclusion, WordTells, At, Steps, Move
  <1>1. CASE Call(t) BY <1>1 DEF Call
  <1>2. CASE Try(t) BY <1>2 DEF Try
  <1>3. CASE Swap(t) BY <1>3 DEF Swap
  <1>4. CASE Wait(t) BY <1>4 DEF Wait
  <1>5. CASE Unlock(t) BY <1>5 DEF Unlock
  <1>6. CASE Wake(t) BY <1>6 DEF Wake
  <1>7. CASE SpuriousWake(t) BY <1>7 DEF SpuriousWake
  <1> QED BY <1>1, <1>2, <1>3, <1>4, <1>5, <1>6, <1>7 DEF Run

\* No wakeup is lost in one step: a thread leaves swap only by making the word
\* contended, falls asleep only on a contended word, and clears it only on its
\* way to wake a sleeper.
LEMMA MutexWakes ==
  ASSUME MutexInv, NEW t \in Threads, Call(t) \/ Run(t) \/ SpuriousWake(t)
  PROVE  NoLostWakeup'
PROOF
  <1> USE DEF MutexInv, TypeOK, NoLostWakeup, At, Steps, Move
  <1>1. CASE Call(t) BY <1>1 DEF Call
  <1>2. CASE Try(t) BY <1>2 DEF Try
  <1>3. CASE Swap(t) BY <1>3 DEF Swap
  <1>4. CASE Wait(t) BY <1>4 DEF Wait
  <1>5. CASE Unlock(t) BY <1>5 DEF Unlock
  <1>6. CASE Wake(t) BY <1>6 DEF Wake
  <1>7. CASE SpuriousWake(t) BY <1>7 DEF SpuriousWake
  <1> QED BY <1>1, <1>2, <1>3, <1>4, <1>5, <1>6, <1>7 DEF Run

LEMMA MutexNext == MutexInv /\ [Next]_vars => MutexInv'
PROOF
  <1> SUFFICES ASSUME MutexInv, [Next]_vars PROVE MutexInv'
    OBVIOUS
  <1>1. CASE UNCHANGED vars
    BY <1>1 DEF vars, MutexInv, TypeOK, MutualExclusion, WordTells, NoLostWakeup, At
  <1>2. CASE Next
    <2>1. PICK t \in Threads : Call(t) \/ Run(t) \/ SpuriousWake(t)
      BY <1>2 DEF Next
    <2> QED BY <2>1, MutexExcludes, MutexWakes DEF MutexInv
  <1> QED BY <1>1, <1>2

\* In every behaviour at most one thread is in the critical section.
THEOREM MutexSafe == Spec => []MutualExclusion
PROOF
  <1>1. MutexInv => MutualExclusion
    BY DEF MutexInv
  <1> QED BY <1>1, MutexInit, MutexNext, PTL DEF Spec

\* In every behaviour a sleeping thread has someone who will wake it.
THEOREM WakeupsKept == Spec => []NoLostWakeup
PROOF
  <1>1. MutexInv => NoLostWakeup
    BY DEF MutexInv
  <1> QED BY <1>1, MutexInit, MutexNext, PTL DEF Spec

----------------------------------------------------------------------------
(* Refinement. *)

\* A thread that calls asks, one whose exchange finds the word unlocked enters,
\* unlock's swap leaves; a wait, a wake or a failed exchange changes neither who
\* asks nor who is inside.
LEMMA StepKeepsContract ==
  ASSUME MutexInv, NEW t \in Threads, Call(t) \/ Run(t) \/ SpuriousWake(t)
  PROVE  [Kept!Calls]_<<Asking, At("held")>>
PROOF
  <1> USE DEF MutexInv, TypeOK, WordTells, At, Asking, Steps, Move
  <1>1. CASE Call(t)
    <2>1. Kept!Asks(t)
      BY <1>1 DEF Call, Kept!Asks
    <2> QED BY <2>1 DEF Kept!Calls
  <1>2. ASSUME pc[t] \in {"try", "swap"}, state = "unlocked", Move(t, "held")
        PROVE  Kept!Calls
    <2>1. Kept!Enters(t)
      BY <1>2 DEF Kept!Enters
    <2> QED BY <2>1 DEF Kept!Calls
  <1>3. ASSUME pc[t] \in {"try", "swap", "wait", "asleep"},
               Move(t, "swap") \/ Move(t, "wait") \/ Move(t, "asleep")
        PROVE  UNCHANGED <<Asking, At("held")>>
    BY <1>3
  <1>4. CASE Try(t)
    BY <1>2, <1>3, <1>4 DEF Try
  <1>5. CASE Swap(t)
    BY <1>2, <1>3, <1>5 DEF Swap
  <1>6. CASE Wait(t) \/ SpuriousWake(t)
    BY <1>3, <1>6 DEF Wait, SpuriousWake
  <1>7. CASE Unlock(t)
    <2>1. Kept!Leaves(t)
      BY <1>7 DEF Unlock, MutualExclusion, Kept!Leaves
    <2> QED BY <2>1 DEF Kept!Calls
  <1>8. CASE Wake(t)
    BY <1>8 DEF Wake
  <1> QED BY <1>1, <1>4, <1>5, <1>6, <1>7, <1>8 DEF Run

\* The mutex keeps its contract: every behaviour of the futex word is one of
\* calls that ask, come in alone and leave.
THEOREM MutexIsLock == Spec => ImplementsLock
PROOF
  <1>1. Init => Kept!NobodyThere
    BY DEF Init, Kept!NobodyThere, Asking, At
  <1>2. MutexInv /\ [Next]_vars => [Kept!Calls]_<<Asking, At("held")>>
    <2> SUFFICES ASSUME MutexInv, [Next]_vars
                 PROVE  [Kept!Calls]_<<Asking, At("held")>>
      OBVIOUS
    <2>1. CASE UNCHANGED vars
      BY <2>1 DEF vars, Asking, At
    <2>2. CASE Next
      BY <2>2, StepKeepsContract DEF Next
    <2> QED BY <2>1, <2>2
  <1> QED
    BY <1>1, <1>2, MutexInit, MutexNext, PTL DEF Spec, ImplementsLock, Kept!Contract
=============================================================================
