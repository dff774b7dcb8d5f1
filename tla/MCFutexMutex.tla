---------------------------- MODULE MCFutexMutex ----------------------------
(* The instance of FutexMutex that is model-checked. *)
EXTENDS FutexMutex, FiniteSets

CONSTANTS t1, t2, t3, t4

FourThreads == {t1, t2, t3, t4}
=============================================================================
