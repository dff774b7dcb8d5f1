--------------------------- MODULE WorkQueue_proofs ---------------------------
(***************************************************************************)
(* The pool's queue is a bounded FIFO that closes, and no worker sleeps    *)
(* over a request, for any number of I/O threads, workers and slots.       *)
(***************************************************************************)
EXTENDS WorkQueue, TLAPS, FiniteSetTheorems, SequenceTheorems

----------------------------------------------------------------------------
(* The inductive invariant. *)

\* Only workers park, and the queue is closed once a stop is past the store.
PlacesHeld ==
  /\ \A t \in Threads \ Workers : pc[t] \in {"idle", "bump", "wake", "join", "done"}
  /\ pc[Stopper] # "idle" => closed

\* Where the k-th request is, oldest first from zero.
Slot(k) == IF head + k < Room THEN head + k ELSE head + k - Room

\* The slots from head to tail, round the end of the ring, hold requests.
RingHeld ==
  /\ tail = Slot(count)
  /\ \A k \in 0 .. count - 1 : ring[Slot(k)] \in Items

\* A worker that is about to park on the present word has seen an empty queue:
\* what is in it now came with pushes that have not reached the word yet.
WordHeld ==
  /\ \A w \in Workers : observed[w] <= seq
  /\ ~closed =>
       \A w \in Workers : pc[w] \in {"closed", "wait"} /\ observed[w] = seq =>
         count <= Cardinality(At("bump"))

QueueInv == TypeOK /\ PlacesHeld /\ RingHeld /\ WordHeld /\ NoneSleepsOverWork

----------------------------------------------------------------------------
(* The wrap of an index. *)

\* An index that is less than a turn too far wraps by one turn.
LEMMA Wraps ==
  ASSUME NEW x \in 0 .. 2 * Room - 1
  PROVE  x % Room = IF x < Room THEN x ELSE x - Room
PROOF
  <1>1. CASE x < Room
    BY <1>1, RoomAssumption
  <1>2. CASE ~ x < Room
    BY <1>2, RoomAssumption
  <1> QED BY <1>1, <1>2

\* So does the next index.
LEMMA NextIndex ==
  ASSUME NEW x \in 0 .. Room - 1
  PROVE  (x + 1) % Room = IF x + 1 < Room THEN x + 1 ELSE 0
PROOF
  <1>1. CASE x + 1 < Room
    BY <1>1, RoomAssumption
  <1>2. CASE x + 1 = Room
    BY <1>2, RoomAssumption
  <1> QED BY <1>1, <1>2, RoomAssumption

----------------------------------------------------------------------------
(* The ring. *)

\* A push fills the slot at tail, which none of the requests is in.
LEMMA PushRing ==
  ASSUME TypeOK, RingHeld, NEW t \in Threads, NEW i \in Items, Push(t, i)
  PROVE  /\ RingHeld'
         /\ tail' \in 0 .. Room - 1 /\ count' \in 0 .. Room
         /\ \A k \in 0 .. count - 1 : ring'[Slot(k)] = ring[Slot(k)]
         /\ ring'[Slot(count)] = i
PROOF
  <1> USE RoomAssumption
  <1>1. /\ head \in 0 .. Room - 1 /\ tail \in 0 .. Room - 1 /\ count \in 0 .. Room - 1
        /\ ring \in [0 .. Room - 1 -> Items \cup {NoItem}]
    BY DEF TypeOK, Push, Refuses
  <1>2. /\ head' = head /\ tail' = (tail + 1) % Room /\ count' = count + 1
        /\ ring' = [ring EXCEPT ![tail] = i]
    BY DEF Push
  <1>3. tail' = IF tail + 1 < Room THEN tail + 1 ELSE 0
    BY <1>1, <1>2, NextIndex
  <1>4. tail = Slot(count) /\ \A k \in 0 .. count - 1 : ring[Slot(k)] \in Items
    BY DEF RingHeld
  <1>5. ring'[Slot(count)] = i
    BY <1>1, <1>2, <1>4
  <1>6. ASSUME NEW k \in 0 .. count - 1 PROVE ring'[Slot(k)] = ring[Slot(k)]
    <2>1. Slot(k) # Slot(count)
      BY <1>1 DEF Slot
    <2>2. Slot(k) \in 0 .. Room - 1
      BY <1>1 DEF Slot
    <2> QED BY <1>1, <1>2, <1>4, <2>1, <2>2
  <1>7. tail' = Slot(count)'
    BY <1>1, <1>2, <1>3, <1>4 DEF Slot
  <1>8. ASSUME NEW k \in 0 .. count' - 1 PROVE ring'[Slot(k)'] \in Items
    <2>1. Slot(k)' = Slot(k)
      BY <1>2 DEF Slot
    <2>2. k \in 0 .. count - 1 \/ k = count
      BY <1>1, <1>2
    <2> QED BY <1>4, <1>5, <1>6, <2>1, <2>2
  <1>9. tail' \in 0 .. Room - 1 /\ count' \in 0 .. Room
    BY <1>1, <1>2, <1>3
  <1> QED BY <1>5, <1>6, <1>7, <1>8, <1>9 DEF RingHeld

\* A pop empties the slot at head and steps over it.
LEMMA TakeRing ==
  ASSUME TypeOK, RingHeld, NEW w \in Workers, Take(w)
  PROVE  /\ RingHeld'
         /\ head' \in 0 .. Room - 1 /\ count' \in 0 .. Room
         /\ ring[head] \in Items /\ Slot(0) = head
         /\ \A k \in 0 .. count' - 1 : ring'[Slot(k)'] = ring[Slot(k + 1)]
PROOF
  <1> USE RoomAssumption
  <1>1. /\ head \in 0 .. Room - 1 /\ tail \in 0 .. Room - 1 /\ count \in 1 .. Room
        /\ ring \in [0 .. Room - 1 -> Items \cup {NoItem}]
    BY DEF TypeOK, Take
  <1>2. /\ head' = (head + 1) % Room /\ tail' = tail /\ count' = count - 1
        /\ ring' = [ring EXCEPT ![head] = NoItem]
    BY DEF Take
  <1>3. head' = IF head + 1 < Room THEN head + 1 ELSE 0
    BY <1>1, <1>2, NextIndex
  <1>4. tail = Slot(count) /\ \A k \in 0 .. count - 1 : ring[Slot(k)] \in Items
    BY DEF RingHeld
  <1>5. Slot(0) = head
    BY <1>1 DEF Slot
  <1>6. ring[head] \in Items
    BY <1>1, <1>4, <1>5
  <1>7. \A k \in 0 .. count - 1 : Slot(k)' = Slot(k + 1)
    BY <1>1, <1>2, <1>3 DEF Slot
  <1>8. ASSUME NEW k \in 0 .. count' - 1 PROVE ring'[Slot(k)'] = ring[Slot(k + 1)]
    <2>1. Slot(k)' = Slot(k + 1)
      BY <1>1, <1>2, <1>7
    <2>2. Slot(k + 1) # head /\ Slot(k + 1) \in 0 .. Room - 1
      BY <1>1, <1>2 DEF Slot
    <2> QED BY <1>1, <1>2, <2>1, <2>2
  <1>9. tail' = Slot(count)'
    BY <1>1, <1>2, <1>3, <1>4 DEF Slot
  <1>10. ASSUME NEW k \in 0 .. count' - 1 PROVE ring'[Slot(k)'] \in Items
    BY <1>1, <1>2, <1>4, <1>8
  <1>11. head' \in 0 .. Room - 1 /\ count' \in 0 .. Room
    BY <1>1, <1>2, <1>3
  <1> QED BY <1>5, <1>6, <1>8, <1>9, <1>10, <1>11 DEF RingHeld

----------------------------------------------------------------------------
(* Steps. *)

\* Every variable keeps its type, and every thread its places.
LEMMA TypesStep ==
  ASSUME TypeOK, PlacesHeld, RingHeld, Next
  PROVE  TypeOK' /\ PlacesHeld'
PROOF
  <1> USE ThreadsAssumption, RoomAssumption
      DEF TypeOK, PlacesHeld, Threads, Looking, Move, After, At, ringVars
  <1>1. ASSUME NEW t \in Threads, NEW i \in Items, Push(t, i) PROVE TypeOK' /\ PlacesHeld'
    <2>1. tail' \in 0 .. Room - 1 /\ count' \in 0 .. Room
      BY <1>1, PushRing
    <2>2. ring' \in [0 .. Room - 1 -> Items \cup {NoItem}]
      BY <1>1 DEF Push
    <2> QED BY <1>1, <2>1, <2>2 DEF Push, Pushing, Refuses
  <1>2. ASSUME NEW t \in Threads, NEW i \in Items, PushRefused(t, i)
        PROVE  TypeOK' /\ PlacesHeld'
    BY <1>2 DEF PushRefused
  <1>3. ASSUME NEW t \in Threads, Bump(t) PROVE TypeOK' /\ PlacesHeld'
    BY <1>3 DEF Bump
  <1>4. ASSUME NEW t \in Threads, WakeOne(t) PROVE TypeOK' /\ PlacesHeld'
    BY <1>4 DEF WakeOne
  <1>5. ASSUME NEW w \in Workers, Look(w) PROVE TypeOK' /\ PlacesHeld'
    BY <1>5 DEF Look
  <1>6. ASSUME NEW w \in Workers, Take(w) PROVE TypeOK' /\ PlacesHeld'
    <2>1. head' \in 0 .. Room - 1 /\ count' \in 0 .. Room /\ ring[head] \in Items
      BY <1>6, TakeRing
    <2>2. taken' \in Seq(Items)
      BY <1>6, <2>1 DEF Take
    <2>3. ring' \in [0 .. Room - 1 -> Items \cup {NoItem}]
      BY <1>6 DEF Take
    <2> QED BY <1>6, <2>1, <2>2, <2>3 DEF Take
  <1>7. ASSUME NEW w \in Workers, FindEmpty(w) PROVE TypeOK' /\ PlacesHeld'
    BY <1>7 DEF FindEmpty
  <1>8. ASSUME NEW w \in Workers, ReadClosed(w) PROVE TypeOK' /\ PlacesHeld'
    BY <1>8 DEF ReadClosed
  <1>9. ASSUME NEW w \in Workers, Wait(w) PROVE TypeOK' /\ PlacesHeld'
    BY <1>9 DEF Wait
  <1>10. ASSUME NEW w \in Workers, SpuriousWake(w) PROVE TypeOK' /\ PlacesHeld'
    BY <1>10 DEF SpuriousWake
  <1>11. ASSUME NEW w \in Workers, Served(w) PROVE TypeOK' /\ PlacesHeld'
    BY <1>11 DEF Served
  <1>12. CASE Close
    BY <1>12 DEF Close
  <1>13. CASE WakeAll
    BY <1>13 DEF WakeAll
  <1>14. CASE Join
    BY <1>14 DEF Join
  <1>15. CASE Stopped
    BY <1>15 DEF Stopped, vars
  <1> QED
    BY <1>1, <1>2, <1>3, <1>4, <1>5, <1>6, <1>7, <1>8, <1>9, <1>10, <1>11, <1>12, <1>13,
       <1>14, <1>15 DEF Next, WorkerStep

\* Only a push and a pop touch the ring.
LEMMA RingStep ==
  ASSUME TypeOK, RingHeld, Next
  PROVE  RingHeld'
PROOF
  <1>1. ASSUME NEW t \in Threads, NEW i \in Items, Push(t, i) PROVE RingHeld'
    BY <1>1, PushRing
  <1>2. ASSUME NEW w \in Workers, Take(w) PROVE RingHeld'
    BY <1>2, TakeRing
  <1>3. CASE UNCHANGED ringVars
    BY <1>3 DEF RingHeld, Slot, ringVars
  <1> QED
    BY <1>1, <1>2, <1>3
    DEF Next, WorkerStep, PushRefused, Bump, WakeOne, Look, FindEmpty, ReadClosed, Wait,
        SpuriousWake, Served, Close, WakeAll, Join, Stopped, vars

----------------------------------------------------------------------------
(* No worker sleeps over a request. *)

\* Any set of threads is finite, and has a size.
LEMMA ThreadsFinite ==
  ASSUME NEW S \in SUBSET Threads
  PROVE  IsFiniteSet(S) /\ Cardinality(S) \in Nat
PROOF
  <1>1. IsFiniteSet(Threads)
    BY ThreadsAssumption, FS_Union, FS_Singleton DEF Threads
  <1> QED BY <1>1, FS_Subset, FS_CardinalityType

\* A thread that joins a set adds one to its size.
LEMMA OneJoins ==
  ASSUME NEW S \in SUBSET Threads, NEW t \in Threads, t \notin S
  PROVE  Cardinality(S \cup {t}) = Cardinality(S) + 1
PROOF
  BY ThreadsFinite, FS_AddElement

\* A thread that leaves one takes no more than one from it.
LEMMA OneLeaves ==
  ASSUME NEW S \in SUBSET Threads, NEW T \in SUBSET Threads, NEW t \in Threads,
         S \subseteq T \cup {t}
  PROVE  Cardinality(S) <= Cardinality(T) + 1
PROOF
  <1>1. IsFiniteSet(T) /\ IsFiniteSet(T \cup {t})
    BY ThreadsFinite
  <1>2. Cardinality(S) <= Cardinality(T \cup {t})
    BY <1>1, FS_Subset
  <1>3. Cardinality(T \cup {t}) <= Cardinality(T) + 1
    BY <1>1, FS_AddElement, ThreadsFinite
  <1> QED BY <1>2, <1>3, ThreadsFinite

\* What a worker has seen of the queue before it parks.
LEMMA WordStep ==
  ASSUME TypeOK, TypeOK', PlacesHeld, WordHeld, Next
  PROVE  WordHeld'
PROOF
  <1> USE ThreadsAssumption DEF TypeOK, PlacesHeld, WordHeld, Threads, Looking, Move
  <1>0. At("bump") \subseteq Threads /\ Cardinality(At("bump")) \in Nat
    BY ThreadsFinite DEF At
  <1>1. ASSUME NEW t \in Threads, NEW i \in Items, Push(t, i) PROVE WordHeld'
    <2>1. pc[t] \in {"idle", "serve"} /\ pc' = [pc EXCEPT ![t] = "bump"]
      BY <1>1 DEF Push, Pushing
    <2>2. At("bump")' = At("bump") \cup {t} /\ t \notin At("bump")
      BY <2>1 DEF At
    <2>3. Cardinality(At("bump")') = Cardinality(At("bump")) + 1
      BY <1>0, <2>2, OneJoins
    <2>4. count' = count + 1 /\ UNCHANGED <<seq, closed, observed>>
      BY <1>1 DEF Push
    <2>5. \A w \in Workers : pc'[w] \in {"closed", "wait"} => pc'[w] = pc[w]
      BY <2>1
    <2> QED BY <1>0, <2>3, <2>4, <2>5
  <1>2. ASSUME NEW t \in Threads, Bump(t) PROVE WordHeld'
    BY <1>2 DEF Bump
  <1>3. ASSUME UNCHANGED <<seq, observed>>, closed' \/ (~closed /\ ~closed'),
               At("bump")' = At("bump"), count' <= count,
               \A w \in Workers : pc'[w] \in {"closed", "wait"} =>
                 count' = 0 \/ pc[w] \in {"closed", "wait"}
        PROVE  WordHeld'
    <2> SUFFICES ASSUME ~closed', NEW w \in Workers, pc'[w] \in {"closed", "wait"},
                        observed'[w] = seq'
                 PROVE  count' <= Cardinality(At("bump")')
      BY <1>3
    <2>1. ~closed
      BY <1>3
    <2>2. count' = 0 \/ count <= Cardinality(At("bump"))
      BY <1>3, <2>1
    <2>3. Cardinality(At("bump")') = Cardinality(At("bump"))
      BY <1>3
    <2> QED BY <1>0, <1>3, <2>2, <2>3
  <1>4. ASSUME NEW t \in Threads, NEW i \in Items, PushRefused(t, i) PROVE WordHeld'
    BY <1>3, <1>4 DEF At, PushRefused, ringVars
  <1>5. ASSUME NEW t \in Threads, WakeOne(t) PROVE WordHeld'
    <2>1. At("bump")' = At("bump")
      BY <1>5 DEF At, WakeOne, After
    <2>2. \A w \in Workers : pc'[w] \in {"closed", "wait"} => pc[w] \in {"closed", "wait"}
      BY <1>5 DEF WakeOne, After
    <2> QED BY <1>3, <1>5, <2>1, <2>2 DEF WakeOne, ringVars
  <1>6. ASSUME NEW w \in Workers, Look(w) PROVE WordHeld'
    <2>1. At("bump")' = At("bump")
      BY <1>6 DEF Look, At
    <2>2. UNCHANGED <<count, seq, closed>>
      BY <1>6 DEF Look, ringVars
    <2>3. \A v \in Workers : pc'[v] \in {"closed", "wait"} =>
            pc'[v] = pc[v] /\ observed'[v] = observed[v]
      BY <1>6 DEF Look
    <2>4. \A v \in Workers : observed'[v] <= seq
      BY <1>6 DEF Look
    <2> QED BY <2>1, <2>2, <2>3, <2>4
  <1>7. ASSUME NEW w \in Workers, Take(w) PROVE WordHeld'
    BY <1>3, <1>7 DEF At, Take
  <1>8. ASSUME NEW w \in Workers, FindEmpty(w) PROVE WordHeld'
    BY <1>3, <1>8 DEF At, FindEmpty, ringVars
  <1>9. ASSUME NEW w \in Workers, ReadClosed(w) PROVE WordHeld'
    BY <1>3, <1>9 DEF At, ReadClosed, ringVars
  <1>10. ASSUME NEW w \in Workers, Wait(w) PROVE WordHeld'
    BY <1>3, <1>10 DEF At, Wait, ringVars
  <1>11. ASSUME NEW w \in Workers, SpuriousWake(w) \/ Served(w) PROVE WordHeld'
    BY <1>3, <1>11 DEF At, SpuriousWake, Served, ringVars
  <1>12. CASE Close
    BY <1>12 DEF Close
  <1>13. CASE WakeAll
    BY <1>13 DEF WakeAll
  <1>14. CASE Join \/ Stopped
    BY <1>3, <1>14 DEF At, Join, Stopped, vars, ringVars
  <1> QED
    BY <1>1, <1>2, <1>4, <1>5, <1>6, <1>7, <1>8, <1>9, <1>10, <1>11, <1>12, <1>13, <1>14
    DEF Next, WorkerStep

\* Those who will look at the queue before they sleep, and those who will wake one.
Awake == {w \in Workers : pc[w] \in Looking}
Waking == At("bump") \cup At("wake")

\* A push adds a wake to come, a pop serves, a wake makes one look.
LEMMA SleepStep ==
  ASSUME TypeOK, TypeOK', PlacesHeld, WordHeld, NoneSleepsOverWork, Next
  PROVE  NoneSleepsOverWork'
PROOF
  <1> USE ThreadsAssumption
      DEF TypeOK, PlacesHeld, Threads, Looking, Move
  <1>a. /\ Awake \in SUBSET Threads /\ Cardinality(Awake) \in Nat
        /\ Waking \in SUBSET Threads /\ Cardinality(Waking) \in Nat
    BY ThreadsFinite DEF Awake, Waking, At
  <1>b. /\ Awake' \in SUBSET Threads /\ Cardinality(Awake') \in Nat
        /\ Waking' \in SUBSET Threads /\ Cardinality(Waking') \in Nat
    BY ThreadsFinite DEF Awake, Waking, At
  <1> DEFINE Someone == \E w \in Workers : pc[w] = "asleep"
             Enough  == count <= Cardinality(Awake) + Cardinality(Waking)
  <1>c. ASSUME ~closed, Someone PROVE Enough
    BY <1>c DEF NoneSleepsOverWork, Awake, Waking
  <1> SUFFICES ASSUME ~closed', Someone' PROVE Enough'
    BY DEF NoneSleepsOverWork, Awake, Waking
  <1>1. ASSUME NEW t \in Threads, NEW i \in Items, Push(t, i) PROVE Enough'
    <2>1. pc[t] \in {"idle", "serve"} /\ pc' = [pc EXCEPT ![t] = "bump"]
      BY <1>1 DEF Push, Pushing
    <2>2. Waking' = Waking \cup {t} /\ t \notin Waking /\ Awake' = Awake
      BY <2>1 DEF Awake, Waking, At
    <2>3. Cardinality(Waking') = Cardinality(Waking) + 1
      BY <1>a, <2>2, OneJoins
    <2>4. Enough
      BY <1>1, <1>c, <2>1 DEF Push
    <2> QED BY <1>1, <1>a, <2>2, <2>3, <2>4 DEF Push
  <1>2. ASSUME UNCHANGED closed, count' <= count, Someone, Awake' = Awake, Waking' = Waking
        PROVE  Enough'
    <2>1. ~closed
      BY <1>2
    <2>2. Enough
      BY <1>2, <1>c, <2>1
    <2> QED BY <1>2, <1>a, <2>2
  <1>3. ASSUME NEW t \in Threads, NEW i \in Items, PushRefused(t, i) PROVE Enough'
    BY <1>2, <1>3 DEF Awake, Waking, At, PushRefused, ringVars
  <1>4. ASSUME NEW t \in Threads, Bump(t) PROVE Enough'
    BY <1>2, <1>4 DEF Awake, Waking, At, Bump, ringVars
  <1>5. ASSUME NEW t \in Threads, WakeOne(t) PROVE Enough'
    <2>1. PICK s \in At("asleep") : pc' = [pc EXCEPT ![t] = After(t), ![s] = "look"]
      BY <1>5 DEF WakeOne, After, At
    <2>2. s \in Workers /\ s \notin Awake /\ s # t /\ Awake' = Awake \cup {s}
      BY <1>5, <2>1 DEF WakeOne, After, Awake, At
    <2>3. Waking \subseteq Waking' \cup {t}
      BY <1>5, <2>1 DEF WakeOne, Waking, At
    <2>4. Cardinality(Awake') = Cardinality(Awake) + 1
      BY <1>a, <2>2, OneJoins
    <2>5. Cardinality(Waking) <= Cardinality(Waking') + 1
      BY <1>a, <1>b, <2>3, OneLeaves
    <2>6. Enough /\ count' = count
      BY <1>5, <1>c, <2>1 DEF WakeOne, ringVars, At
    <2> QED BY <1>a, <1>b, <2>4, <2>5, <2>6
  <1>6. ASSUME NEW w \in Workers, Take(w) PROVE Enough'
    <2>1. Waking' = Waking /\ Awake \subseteq Awake' \cup {w}
      BY <1>6 DEF Take, Awake, Waking, At
    <2>2. Cardinality(Awake) <= Cardinality(Awake') + 1
      BY <1>a, <1>b, <2>1, OneLeaves
    <2>3. Enough /\ count' = count - 1
      BY <1>6, <1>c DEF Take
    <2> QED BY <1>a, <1>b, <2>1, <2>2, <2>3
  <1>7. ASSUME NEW w \in Workers, Look(w) PROVE Enough'
    BY <1>2, <1>7 DEF Awake, Waking, At, Look, ringVars
  <1>8. ASSUME NEW w \in Workers, FindEmpty(w) PROVE Enough'
    BY <1>2, <1>8 DEF Awake, Waking, At, FindEmpty, ringVars
  <1>9. ASSUME NEW w \in Workers, ReadClosed(w) PROVE Enough'
    BY <1>2, <1>9 DEF Awake, Waking, At, ReadClosed, ringVars
  <1>10. ASSUME NEW w \in Workers, Wait(w) PROVE Enough'
    <2>1. CASE seq = observed[w]
      <3>1. count <= Cardinality(At("bump"))
        BY <1>10, <2>1 DEF Wait, WordHeld
      <3>2. Cardinality(At("bump")) <= Cardinality(Waking)
        BY ThreadsFinite, FS_Subset DEF Waking, At
      <3>3. Waking' = Waking /\ count' = count
        BY <1>10 DEF Wait, ringVars, Waking, At
      <3>4. Cardinality(At("bump")) \in Nat
        BY ThreadsFinite DEF At
      <3> QED BY <1>a, <1>b, <3>1, <3>2, <3>3, <3>4
    <2>2. CASE seq # observed[w]
      BY <1>2, <1>10, <2>2 DEF Wait, ringVars, Awake, Waking, At
    <2> QED BY <2>1, <2>2
  <1>11. ASSUME NEW w \in Workers, SpuriousWake(w) \/ Served(w) PROVE Enough'
    <2>1. w \notin Awake /\ Awake' = Awake \cup {w} /\ Waking' = Waking
      BY <1>11 DEF SpuriousWake, Served, Awake, Waking, At
    <2>2. Cardinality(Awake') = Cardinality(Awake) + 1
      BY <1>a, <2>1, OneJoins
    <2>3. Enough /\ count' = count
      BY <1>11, <1>c DEF SpuriousWake, Served, ringVars
    <2> QED BY <1>a, <2>1, <2>2, <2>3
  <1>12. ~ Close /\ ~ WakeAll
    BY DEF Close, WakeAll
  <1>13. CASE Join
    BY <1>13 DEF Join
  <1>14. CASE Stopped
    BY <1>2, <1>14 DEF Awake, Waking, At, Stopped, vars, ringVars
  <1> QED
    BY <1>1, <1>3, <1>4, <1>5, <1>6, <1>7, <1>8, <1>9, <1>10, <1>11, <1>12, <1>13, <1>14
    DEF Next, WorkerStep

----------------------------------------------------------------------------
(* The invariant holds. *)

LEMMA QueueInit == Init => QueueInv
PROOF
  <1> SUFFICES ASSUME Init PROVE QueueInv
    OBVIOUS
  <1> USE ThreadsAssumption, RoomAssumption DEF Init
  <1>1. TypeOK
    <2>1. taken \in Seq(Items)
      BY EmptySeq
    <2>2. ring \in [0 .. Room - 1 -> Items \cup {NoItem}]
      OBVIOUS
    <2>3. head \in 0 .. Room - 1 /\ tail \in 0 .. Room - 1 /\ count \in 0 .. Room
      OBVIOUS
    <2>4. /\ seq \in Nat /\ closed \in BOOLEAN /\ sent \subseteq Items
          /\ observed \in [Workers -> Nat]
      OBVIOUS
    <2>5. pc \in [Threads -> {"look", "idle"}]
      BY DEF Threads
    <2> QED BY <2>1, <2>2, <2>3, <2>4, <2>5 DEF TypeOK, Looking
  <1>2. PlacesHeld
    BY DEF PlacesHeld, Threads
  <1>3. RingHeld
    BY DEF RingHeld, Slot
  <1>4. WordHeld
    BY DEF WordHeld, Threads
  <1>5. NoneSleepsOverWork
    BY DEF NoneSleepsOverWork, Threads
  <1> QED BY <1>1, <1>2, <1>3, <1>4, <1>5 DEF QueueInv

LEMMA QueueNext == QueueInv /\ [Next]_vars => QueueInv'
PROOF
  <1>1. ASSUME QueueInv, Next PROVE QueueInv'
    BY <1>1, TypesStep, RingStep, WordStep, SleepStep DEF QueueInv
  <1>2. ASSUME QueueInv, UNCHANGED vars PROVE QueueInv'
    <2> USE <1>2 DEF QueueInv, vars, ringVars
    <2>1. TypeOK'
      BY DEF TypeOK
    <2>2. PlacesHeld'
      BY DEF PlacesHeld
    <2>3. RingHeld'
      BY DEF RingHeld, Slot
    <2>4. WordHeld'
      BY DEF WordHeld, At
    <2>5. NoneSleepsOverWork'
      BY DEF NoneSleepsOverWork, At
    <2> QED BY <2>1, <2>2, <2>3, <2>4, <2>5
  <1> QED BY <1>1, <1>2

LEMMA QueueSafe == Spec => []QueueInv
PROOF
  BY QueueInit, QueueNext, PTL DEF Spec

\* The types, and the bounds: the ring's indices stay in it, and it holds no
\* more than its capacity.
THEOREM TypeCorrect == Spec => []TypeOK
PROOF
  <1>1. QueueInv => TypeOK
    BY DEF QueueInv
  <1> QED BY <1>1, QueueSafe, PTL

\* No worker sleeps while more requests wait than there are workers to look at
\* the queue and wakes to come: the word is read before the look, so a push in
\* between either is seen or keeps the worker from parking.
THEOREM NoneSleeps == Spec => []NoneSleepsOverWork
PROOF
  <1>1. QueueInv => NoneSleepsOverWork
    BY DEF QueueInv
  <1> QED BY <1>1, QueueSafe, PTL

----------------------------------------------------------------------------
(* The ring implements the bounded queue that closes. *)

SlotsInOrder ==
  /\ Queued \in Seq(Items) /\ Len(Queued) = count
  /\ \A k \in 1 .. count : Queued[k] = ring[Slot(k - 1)]

\* The slots of the ring in the order of the queue.
LEMMA QueuedSlots == TypeOK /\ RingHeld => SlotsInOrder
PROOF
  <1> SUFFICES ASSUME TypeOK, RingHeld PROVE SlotsInOrder
    OBVIOUS
  <1> USE RoomAssumption
  <1>1. head \in 0 .. Room - 1 /\ count \in 0 .. Room
    BY DEF TypeOK
  <1>2. ASSUME NEW k \in 1 .. count
        PROVE  (head + k - 1) % Room = Slot(k - 1) /\ ring[Slot(k - 1)] \in Items
    <2>1. head + k - 1 \in 0 .. 2 * Room - 1
      BY <1>1
    <2>2. \A x \in 0 .. 2 * Room - 1 : x % Room = IF x < Room THEN x ELSE x - Room
      BY Wraps
    <2>3. (head + k - 1) % Room = Slot(k - 1)
      BY <1>1, <2>1, <2>2 DEF Slot
    <2>4. k - 1 \in 0 .. count - 1
      BY <1>1
    <2> QED BY <2>3, <2>4 DEF RingHeld
  <1>3. \A k \in 1 .. count : Queued[k] = ring[Slot(k - 1)] /\ Queued[k] \in Items
    BY <1>2 DEF Queued
  <1>4. Queued \in [1 .. count -> Items]
    BY <1>3 DEF Queued
  <1>5. Queued \in Seq(Items) /\ Len(Queued) = count
    BY <1>1, <1>4
  <1> QED BY <1>3, <1>5 DEF SlotsInOrder

\* So they are after a step.
LEMMA QueuedSlotsNext == TypeOK' /\ RingHeld' => SlotsInOrder'
PROOF
  BY QueuedSlots, PTL

\* A push appends.
LEMMA PushAppends ==
  ASSUME TypeOK, TypeOK', RingHeld, RingHeld', NEW t \in Threads, NEW i \in Items, Push(t, i)
  PROVE  Abstract!Push(i)
PROOF
  <1>1. /\ Queued \in Seq(Items) /\ Len(Queued) = count
        /\ \A k \in 1 .. count : Queued[k] = ring[Slot(k - 1)]
    BY QueuedSlots DEF SlotsInOrder
  <1>2. /\ Queued' \in Seq(Items) /\ Len(Queued') = count'
        /\ \A k \in 1 .. count' : Queued'[k] = ring'[Slot(k - 1)']
    BY QueuedSlotsNext DEF SlotsInOrder
  <1>3. count \in 0 .. Room - 1 /\ count' = count + 1 /\ head' = head
    BY RoomAssumption DEF TypeOK, Push, Refuses
  <1>4. ~closed /\ UNCHANGED <<closed, taken>>
    BY DEF Push, Refuses
  <1>5. /\ \A k \in 0 .. count - 1 : ring'[Slot(k)] = ring[Slot(k)]
        /\ ring'[Slot(count)] = i
    BY PushRing
  <1>6. \A k \in Nat : Slot(k)' = Slot(k)
    BY <1>3 DEF Slot
  <1>7. /\ Append(Queued, i) \in Seq(Items) /\ Len(Append(Queued, i)) = count + 1
        /\ \A k \in 1 .. count : Append(Queued, i)[k] = Queued[k]
        /\ Append(Queued, i)[count + 1] = i
    BY <1>1, AppendProperties
  <1>8. ASSUME NEW k \in 1 .. count + 1 PROVE Queued'[k] = Append(Queued, i)[k]
    <2>1. Queued'[k] = ring'[Slot(k - 1)]
      BY <1>2, <1>3, <1>6
    <2>2. CASE k \in 1 .. count
      BY <1>1, <1>3, <1>5, <1>7, <2>1, <2>2
    <2>3. CASE k = count + 1
      BY <1>3, <1>5, <1>7, <2>1, <2>3
    <2>4. k \in 1 .. count \/ k = count + 1
      BY <1>3
    <2> QED BY <2>2, <2>3, <2>4
  <1>9. Queued' = Append(Queued, i)
    BY <1>2, <1>3, <1>7, <1>8, SeqEqual
  <1>10. Len(Queued) < Room
    BY <1>1, <1>3, RoomAssumption
  <1> QED BY <1>4, <1>9, <1>10 DEF Abstract!Push

\* A pop takes the oldest.
LEMMA TakePops ==
  ASSUME TypeOK, TypeOK', RingHeld, RingHeld', NEW w \in Workers, Take(w)
  PROVE  Abstract!Pop
PROOF
  <1>1. /\ Queued \in Seq(Items) /\ Len(Queued) = count
        /\ \A k \in 1 .. count : Queued[k] = ring[Slot(k - 1)]
    BY QueuedSlots DEF SlotsInOrder
  <1>2. /\ Queued' \in Seq(Items) /\ Len(Queued') = count'
        /\ \A k \in 1 .. count' : Queued'[k] = ring'[Slot(k - 1)']
    BY QueuedSlotsNext DEF SlotsInOrder
  <1>3. count \in 1 .. Room /\ count' = count - 1
    BY RoomAssumption DEF TypeOK, Take
  <1>4. /\ ring[head] \in Items /\ Slot(0) = head
        /\ \A k \in 0 .. count' - 1 : ring'[Slot(k)'] = ring[Slot(k + 1)]
    BY TakeRing
  <1>5. Queued # <<>>
    BY <1>1, <1>3
  <1>6. Head(Queued) = ring[head]
    BY <1>1, <1>3, <1>4, <1>5
  <1>7. /\ Tail(Queued) \in Seq(Items) /\ Len(Tail(Queued)) = count - 1
        /\ \A k \in 1 .. count - 1 : Tail(Queued)[k] = Queued[k + 1]
    BY <1>1, <1>5, HeadTailProperties
  <1>8. ASSUME NEW k \in 1 .. count - 1 PROVE Queued'[k] = Tail(Queued)[k]
    <2>1. Queued'[k] = ring'[Slot(k - 1)'] /\ k - 1 \in 0 .. count' - 1 /\ k - 1 + 1 = k
      BY <1>2, <1>3
    <2>2. Queued'[k] = ring[Slot(k)]
      BY <1>4, <2>1
    <2>3. Queued[k + 1] = ring[Slot(k)]
      <3>1. k + 1 \in 1 .. count /\ k + 1 - 1 = k
        BY <1>3
      <3> QED BY <1>1, <3>1
    <2> QED BY <1>7, <2>2, <2>3
  <1>9. Queued' = Tail(Queued)
    BY <1>2, <1>3, <1>7, <1>8, SeqEqual
  <1>10. UNCHANGED closed /\ taken' = Append(taken, Head(Queued))
    BY <1>6 DEF Take
  <1> QED BY <1>5, <1>9, <1>10 DEF Abstract!Pop

\* Queue is a bounded FIFO that closes: a request is in it once, leaves it in
\* its turn, and enters neither a full queue nor a closed one.  The place of
\* the k-th request is the wrapped index of the ring.
THEOREM QueueRefines == Spec => ImplementsQueue
PROOF
  <1>1. Init => Abstract!Init
    <2> SUFFICES ASSUME Init PROVE Abstract!Init
      OBVIOUS
    <2>1. Queued = <<>>
      BY DEF Init, Queued
    <2> QED BY <2>1 DEF Init, Abstract!Init
  <1>2. QueueInv /\ QueueInv' /\ [Next]_vars => [Abstract!Next]_<<Queued, closed, taken>>
    <2> SUFFICES ASSUME QueueInv, QueueInv', [Next]_vars
                 PROVE  Abstract!Next \/ UNCHANGED <<Queued, closed, taken>>
      OBVIOUS
    <2> USE DEF QueueInv
    <2>1. ASSUME NEW t \in Threads, NEW i \in Items, Push(t, i) PROVE Abstract!Next
      BY <2>1, PushAppends DEF Abstract!Next
    <2>2. ASSUME NEW w \in Workers, Take(w) PROVE Abstract!Next
      BY <2>2, TakePops DEF Abstract!Next
    <2>3. CASE Close
      <3>1. Queued' = Queued
        BY <2>3 DEF Close, ringVars, Queued
      <3> QED BY <2>3, <3>1 DEF Close, Abstract!Next, Abstract!Close
    <2>4. CASE UNCHANGED <<ringVars, closed, taken>>
      BY <2>4 DEF ringVars, Queued
    <2> QED
      BY <2>1, <2>2, <2>3, <2>4
      DEF Next, WorkerStep, PushRefused, Bump, WakeOne, Look, FindEmpty, ReadClosed, Wait,
          SpuriousWake, Served, WakeAll, Join, Stopped, vars
  <1> QED BY <1>1, <1>2, QueueSafe, PTL DEF Spec, ImplementsQueue, Abstract!Spec
=============================================================================
