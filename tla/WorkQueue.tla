------------------------------ MODULE WorkQueue ------------------------------
(***************************************************************************)
(* The queue between the I/O threads and the worker pool (Queue and        *)
(* workerMain, src/net/server.zig), from a request's push to the worker    *)
(* that takes it, and Server.stop's close and join.                        *)
(*                                                                         *)
(* What runs under the queue's mutex is one action: FutexMutex keeps       *)
(* its contract.  The sequence word, on which workers park, and the closed *)
(* flag, which pop reads after it has let go of the mutex, are steps of    *)
(* their own.  The word is taken to be wider than the pushes of a run; the *)
(* code's wraps at 2^32.                                                   *)
(***************************************************************************)
EXTENDS Integers, Sequences, FiniteSets

CONSTANTS
  Producers,    \* I/O threads
  Workers,
  Stopper,      \* the thread that calls Server.stop
  Items,        \* the requests there are, each pushed once
  NoItem,       \* what an unused slot of the ring holds
  Room          \* capacity

ASSUME RoomAssumption == Room \in Nat \ {0}
ASSUME ThreadsAssumption ==
  /\ Producers \cap Workers = {} /\ Stopper \notin Producers \cup Workers
  /\ IsFiniteSet(Producers) /\ IsFiniteSet(Workers)
ASSUME ItemsAssumption == NoItem \notin Items

VARIABLES
  ring, head, tail, count,
  seq, closed,
  pc,           \* where each thread is
  observed,     \* the word a worker read before it looked at the queue
  sent,         \* requests that have been pushed or refused
  taken         \* history: requests in the order in which they were taken

ringVars == <<ring, head, tail, count>>
vars == <<ringVars, seq, closed, pc, observed, sent, taken>>

Threads == Producers \cup Workers \cup {Stopper}

\* A worker inside pop, and awake.
Looking == {"look", "section", "closed", "wait"}

TypeOK ==
  /\ ring \in [0 .. Room - 1 -> Items \cup {NoItem}]
  /\ head \in 0 .. Room - 1 /\ tail \in 0 .. Room - 1 /\ count \in 0 .. Room
  /\ seq \in Nat /\ closed \in BOOLEAN
  /\ pc \in [Threads -> Looking \cup {"idle", "serve", "bump", "wake", "asleep",
                                      "join", "done"}]
  /\ observed \in [Workers -> Nat]
  /\ sent \subseteq Items /\ taken \in Seq(Items)

Init ==
  /\ ring = [k \in 0 .. Room - 1 |-> NoItem]
  /\ head = 0 /\ tail = 0 /\ count = 0
  /\ seq = 0 /\ closed = FALSE
  /\ pc = [t \in Threads |-> IF t \in Workers THEN "look" ELSE "idle"]
  /\ observed = [w \in Workers |-> 0]
  /\ sent = {} /\ taken = <<>>

Move(t, step) == pc' = [pc EXCEPT ![t] = step]
At(step) == {t \in Threads : pc[t] = step}

----------------------------------------------------------------------------
(* push: an I/O thread dispatches a request, or a worker hands a piece of   *)
(* the one it serves to the pool (submitSub).                               *)

Pushing(t) == \/ t \in Producers /\ pc[t] = "idle"
              \/ t \in Workers /\ pc[t] = "serve"

\* Mutant: only a full queue refuses.
RefusesFull == count = Room

Refuses == count = Room \/ closed

Push(t, i) ==
  /\ Pushing(t) /\ i \notin sent /\ ~ Refuses
  /\ sent' = sent \cup {i}
  /\ ring' = [ring EXCEPT ![tail] = i]
  /\ tail' = (tail + 1) % Room
  /\ count' = count + 1
  /\ Move(t, "bump")
  /\ UNCHANGED <<head, seq, closed, observed, taken>>

\* The I/O thread answers the client, the worker runs the piece itself.
PushRefused(t, i) ==
  /\ Pushing(t) /\ i \notin sent /\ Refuses
  /\ sent' = sent \cup {i}
  /\ UNCHANGED <<ringVars, seq, closed, pc, observed, taken>>

\* Mutant: a push leaves the word alone.
BumpOnClose(t) ==
  /\ pc[t] = "bump"
  /\ seq' = IF t = Stopper THEN seq + 1 ELSE seq
  /\ Move(t, "wake")
  /\ UNCHANGED <<ringVars, closed, observed, sent, taken>>

\* seq.fetchAdd, outside the mutex.
Bump(t) ==
  /\ pc[t] = "bump"
  /\ seq' = seq + 1
  /\ Move(t, "wake")
  /\ UNCHANGED <<ringVars, closed, observed, sent, taken>>

\* Where a thread goes on after the wake that ends push and close.
After(t) == CASE t \in Producers -> "idle" [] t \in Workers -> "serve" [] OTHER -> "join"

\* futexWake(seq, 1) of push.
WakeOne(t) ==
  /\ t # Stopper /\ pc[t] = "wake"
  /\ \/ \E s \in At("asleep") : pc' = [pc EXCEPT ![t] = After(t), ![s] = "look"]
     \/ At("asleep") = {} /\ Move(t, After(t))
  /\ UNCHANGED <<ringVars, seq, closed, observed, sent, taken>>

----------------------------------------------------------------------------
(* pop, in the loop of workerMain. *)

Look(w) ==
  /\ pc[w] = "look"
  /\ observed' = [observed EXCEPT ![w] = seq]
  /\ Move(w, "section")
  /\ UNCHANGED <<ringVars, seq, closed, sent, taken>>

Take(w) ==
  /\ pc[w] = "section" /\ count > 0
  /\ taken' = Append(taken, ring[head])
  /\ ring' = [ring EXCEPT ![head] = NoItem]
  /\ head' = (head + 1) % Room
  /\ count' = count - 1
  /\ Move(w, "serve")
  /\ UNCHANGED <<tail, seq, closed, observed, sent>>

FindEmpty(w) ==
  /\ pc[w] = "section" /\ count = 0
  /\ Move(w, "closed")
  /\ UNCHANGED <<ringVars, seq, closed, observed, sent, taken>>

\* A closed queue ends the worker, whatever it holds by now.
ReadClosed(w) ==
  /\ pc[w] = "closed"
  /\ Move(w, IF closed THEN "done" ELSE "wait")
  /\ UNCHANGED <<ringVars, seq, closed, observed, sent, taken>>

\* Mutant: the word is read after the look at the queue, not before it.
WaitOnPresent(w) ==
  /\ pc[w] = "wait"
  /\ Move(w, "asleep")
  /\ UNCHANGED <<ringVars, seq, closed, observed, sent, taken>>

\* futexWait(seq, observed)
Wait(w) ==
  /\ pc[w] = "wait"
  /\ Move(w, IF seq = observed[w] THEN "asleep" ELSE "look")
  /\ UNCHANGED <<ringVars, seq, closed, observed, sent, taken>>

SpuriousWake(w) ==
  /\ pc[w] = "asleep"
  /\ Move(w, "look")
  /\ UNCHANGED <<ringVars, seq, closed, observed, sent, taken>>

\* The handler returns and the worker pops again.
Served(w) ==
  /\ pc[w] = "serve"
  /\ Move(w, "look")
  /\ UNCHANGED <<ringVars, seq, closed, observed, sent, taken>>

----------------------------------------------------------------------------
(* Server.stop: close, then join the workers. *)

Close ==
  /\ pc[Stopper] = "idle"
  /\ closed' = TRUE
  /\ Move(Stopper, "bump")
  /\ UNCHANGED <<ringVars, seq, observed, sent, taken>>

\* Mutant: close wakes one worker, as a count of maxInt(u32) does.
WakeJustOne ==
  /\ pc[Stopper] = "wake"
  /\ \/ \E s \in At("asleep") : pc' = [pc EXCEPT ![Stopper] = "join", ![s] = "look"]
     \/ At("asleep") = {} /\ Move(Stopper, "join")
  /\ UNCHANGED <<ringVars, seq, closed, observed, sent, taken>>

\* futexWake(seq, wake_all) of close.
WakeAll ==
  /\ pc[Stopper] = "wake"
  /\ pc' = [t \in Threads |-> IF t = Stopper THEN "join"
                              ELSE IF pc[t] = "asleep" THEN "look" ELSE pc[t]]
  /\ UNCHANGED <<ringVars, seq, closed, observed, sent, taken>>

Join ==
  /\ pc[Stopper] = "join" /\ \A w \in Workers : pc[w] = "done"
  /\ Move(Stopper, "done")
  /\ UNCHANGED <<ringVars, seq, closed, observed, sent, taken>>

\* The server has stopped.
Stopped == pc[Stopper] = "done" /\ UNCHANGED vars

WorkerStep(w) ==
  \/ Look(w) \/ Take(w) \/ FindEmpty(w) \/ ReadClosed(w) \/ Wait(w) \/ Served(w)

StopStep == Bump(Stopper) \/ WakeAll \/ Join

Next ==
  \/ \E t \in Threads, i \in Items : Push(t, i) \/ PushRefused(t, i)
  \/ \E t \in Threads : Bump(t) \/ WakeOne(t)
  \/ \E w \in Workers : WorkerStep(w) \/ SpuriousWake(w)
  \/ Close \/ WakeAll \/ Join \/ Stopped

Spec == Init /\ [][Next]_vars

\* Threads that are not asleep run, handlers return, and a stop that has begun
\* goes on.  Nobody has to push, to stop or to wake for no reason.
FairSpec ==
  /\ Spec
  /\ \A w \in Workers : WF_vars(WorkerStep(w))
  /\ \A t \in Producers \cup Workers : WF_vars(Bump(t) \/ WakeOne(t))
  /\ WF_vars(StopStep)

----------------------------------------------------------------------------
\* The ring as a sequence, oldest first.
Queued == [k \in 1 .. count |-> ring[(head + k - 1) % Room]]

\* Queue is a bounded FIFO: the two indices, the count and the wrap give every
\* request once, in order, and none after the close.
Abstract == INSTANCE ClosableQueue WITH queue <- Queued
ImplementsQueue == Abstract!Spec

\* No request waits for a busy worker while another worker sleeps: there are
\* at least as many workers awake in pop, and wakes on their way, as requests.
\* It holds only because the word is read before the look at the queue.
NoneSleepsOverWork ==
  /\ ~closed /\ \E w \in Workers : pc[w] = "asleep"
  => count <= Cardinality({w \in Workers : pc[w] \in Looking})
                + Cardinality(At("bump") \cup At("wake"))

\* A request that was accepted is served, unless the server stops.
Accepted(i) == \E k \in DOMAIN Queued : Queued[k] = i
Given(i) == \E k \in DOMAIN taken : taken[k] = i
EachServed == \A i \in Items : Accepted(i) ~> (Given(i) \/ closed)

\* A stop ends: no worker stays parked after the close.
StopEnds == closed ~> pc[Stopper] = "done"

\* Server.stop: "the queue is drained"; pop: "Returns null once closed and
\* drained."  The last worker to leave leaves nothing behind.
NothingLeftBehind == (\A w \in Workers : pc[w] = "done") => count = 0
=============================================================================
