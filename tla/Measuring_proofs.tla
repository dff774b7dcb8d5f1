--------------------------- MODULE Measuring_proofs ---------------------------
(* How a row comes to be measured, for every table and bound: the dataset and *)
(* the host it is measured with (datasets.py, setup.py), the waits and gates  *)
(* before it (host_load.py), the passes it is taken in (workloads.py), their  *)
(* fold (aggregate.py) and its counters (procstat.py).                        *)
EXTENDS Harness, FiniteSetTheorems, SequenceTheorems, WellFoundedInduction, TLAPS

pvars == <<part, vars, fvars, After0>>

(* A behaviour stays with its part.                                           *)
LEMMA PartStays == [PartsNext]_pvars => UNCHANGED part
PROOF
  BY DEF PartsNext, pvars

(* A set of numbers that is not empty has a least one.                         *)
LEMMA LeastExists ==
  ASSUME NEW S, S \subseteq Nat, S # {}
  PROVE  VerdictPart!Min(S) \in S /\ \A n \in S : VerdictPart!Min(S) <= n
PROOF
  <1>1. \E m \in S : \A n \in S : ~(<<n, m>> \in OpToRel(<, Nat))
    <2> DEFINE less == OpToRel(<, Nat)
    <2>1. IsWellFoundedOn(less, Nat)
      BY NatLessThanWellFounded
    <2> HIDE DEF less
    <2>2. \E m \in S : \A n \in S : ~(<<n, m>> \in less)
      BY <2>1, WFMin
    <2> QED BY <2>2 DEF less
  <1>2. PICK m \in S : \A n \in S : ~(n < m)
    BY <1>1 DEF OpToRel
  <1>3. \A n \in S : m <= n
    BY <1>2
  <1> QED BY <1>3 DEF VerdictPart!Min

(* Two sets that are matched one to one are of one size.                      *)
LEMMA SameCount ==
  ASSUME NEW S, NEW T, IsFiniteSet(S), NEW f \in [S -> T],
         \A x, y \in S : f[x] = f[y] => x = y, \A t \in T : \E x \in S : f[x] = t
  PROVE  Cardinality(T) = Cardinality(S)
PROOF
  <1>1. f \in Injection(S, T)
    BY DEF Injection, IsInjective
  <1>2. f \in Surjection(S, T)
    BY DEF Surjection
  <1>3. ExistsBijection(S, T)
    BY <1>1, <1>2, Zenon DEF ExistsBijection, Bijection
  <1> QED BY <1>3, FS_Bijection

-----------------------------------------------------------------------------
(* Fetch: one dataset of any set of files.  Fetch and verify vouch for it only *)
(* when it is the upstream one.                                               *)

(* What a fetch that is under way has still to see to is all that is wrong.  *)
Progress ==
    /\ content \in [DataFiles -> Contents]
    /\ doing = "fetch" => /\ Missing \subseteq todo /\ todo \subseteq DataFiles
                          /\ todo # {} /\ ~vouched
    /\ vouched => Missing = {}

LEMMA MissingAre == Missing = {f \in DataFiles : content[f] # "whole"}
  BY DEF Missing, FilePresent, RightSize

LEMMA MissingAreNext == Missing' = {f \in DataFiles : content'[f] # "whole"}
  BY DEF Missing, FilePresent, RightSize

LEMMA ProgressStarts == FetchInit => Progress
  BY DEF FetchInit, Progress, Contents

(* A step that leaves the files alone.                                       *)
LEMMA FilesAlone == UNCHANGED content => Missing' = Missing
  BY MissingAre, MissingAreNext

LEMMA ProgressKept == Progress /\ [FetchNext]_fvars => Progress'
  <1> SUFFICES ASSUME Progress, [FetchNext]_fvars PROVE Progress'
    OBVIOUS
  <1>1. CASE StartFetch
    BY <1>1, FilesAlone, MissingAre DEF StartFetch, Ended, Progress
  <1>2. CASE FetchFile
    <2>1. PICK f \in todo, done \in BOOLEAN : \E got \in Transferred(content[f]) :
            /\ done => got \in {"whole", "rotten"}
            /\ content' = [content EXCEPT ![f] = IF done /\ got = "rotten" THEN "none" ELSE got]
            /\ IF ~done \/ got = "rotten" THEN Ended(FALSE)
               ELSE IF todo = {f} THEN doing' = "extract" /\ todo' = {} /\ vouched' = TRUE
               ELSE todo' = todo \ {f} /\ UNCHANGED <<doing, vouched>>
      BY <1>2 DEF FetchFile
    <2>2. PICK got \in Transferred(content[f]) :
            /\ done => got \in {"whole", "rotten"}
            /\ content' = [content EXCEPT ![f] = IF done /\ got = "rotten" THEN "none" ELSE got]
            /\ IF ~done \/ got = "rotten" THEN Ended(FALSE)
               ELSE IF todo = {f} THEN doing' = "extract" /\ todo' = {} /\ vouched' = TRUE
               ELSE todo' = todo \ {f} /\ UNCHANGED <<doing, vouched>>
      BY <2>1
    <2>3. /\ doing = "fetch" /\ Missing \subseteq todo /\ todo \subseteq DataFiles
          /\ content \in [DataFiles -> Contents]
      BY <1>2 DEF FetchFile, Progress
    <2>4. got \in Contents
      BY <2>1, <2>2, <2>3 DEF Transferred, Contents
    <2>5. content' \in [DataFiles -> Contents]
      BY <2>2, <2>3, <2>4 DEF Contents
    <2>6. CASE ~done \/ got = "rotten"
      BY <2>2, <2>5, <2>6 DEF Ended, Progress
    <2>7. CASE done /\ got # "rotten"
      <3>1. got = "whole"
        BY <2>2, <2>7
      <3>2. content' = [content EXCEPT ![f] = "whole"]
        BY <2>2, <2>7, <3>1
      <3>3. Missing' \subseteq todo \ {f}
        BY <2>3, <3>2, MissingAre, MissingAreNext
      <3>4. CASE todo = {f}
        BY <2>2, <2>5, <2>7, <3>3, <3>4 DEF Progress
      <3>5. CASE todo # {f}
        <4>1. todo' = todo \ {f} /\ UNCHANGED <<doing, vouched>>
          BY <2>2, <2>7, <3>5
        <4>2. todo \ {f} # {}
          BY <3>5
        <4> QED
          BY <2>3, <2>5, <3>3, <4>1, <4>2 DEF Progress
      <3> QED
        BY <3>4, <3>5
    <2> QED
      BY <2>6, <2>7
  <1>3. CASE Extract
    BY <1>3, FilesAlone DEF Extract, Progress
  <1>4. CASE Verify
    BY <1>4, FilesAlone DEF Verify, Ended, Progress
  <1>5. CASE StartLink
    BY <1>5, FilesAlone DEF StartLink, Progress
  <1>6. CASE LinkShard
    BY <1>6, FilesAlone DEF LinkShard, Progress
  <1>7. CASE ConvertBeir
    BY <1>7, FilesAlone DEF ConvertBeir, Progress
  <1>8. CASE Interrupted
    BY <1>8, FilesAlone DEF Interrupted, Ended, Progress
  <1>9. CASE Rot
    BY <1>9 DEF Rot, Progress, Contents
  <1>10. CASE MoveRoot
    BY <1>10, FilesAlone DEF MoveRoot, Progress
  <1>11. CASE UNCHANGED fvars
    BY <1>11, FilesAlone DEF fvars, Progress
  <1> QED
    BY <1>1, <1>2, <1>3, <1>4, <1>5, <1>6, <1>7, <1>8, <1>9, <1>10, <1>11 DEF FetchNext

LEMMA ProgressVouches == Progress => VouchedIsWhole
  <1> SUFFICES ASSUME Progress, vouched
               PROVE  /\ \A f \in DataFiles : content[f] = "whole"
                      /\ InventoryState(TRUE) = "complete"
    BY DEF VouchedIsWhole
  <1>1. \A f \in DataFiles : content[f] = "whole"
    BY MissingAre DEF Progress
  <1>2. WrongDigest = {}
    BY <1>1 DEF WrongDigest
  <1>3. {f \in DataFiles : FilePresent(f, TRUE)} = DataFiles
    BY <1>1 DEF FilePresent, RightSize
  <1> QED
    BY <1>1, <1>2, <1>3 DEF InventoryState

(* Whatever a transfer, an interrupt, a resumed download or a rotting disk   *)
(* left, a dataset that fetch or verify vouched for last is the upstream one *)
(* to the last file, and the inventory says so.                              *)
THEOREM VouchingIsSound == FetchSpec => []VouchedIsWhole
  BY ProgressStarts, ProgressKept, ProgressVouches, PTL DEF FetchSpec

-----------------------------------------------------------------------------
(* HostSetup: r1 has, r2 governor, r3 online, r4 knob, r5 io, r6 todo,        *)
(* r7 applied, r8 meddling.                                                   *)

SetupHeld == part = "setup" => HostSetupPart!SetupInv

LEMMA SetupInit == PartsInit => SetupHeld
PROOF
  <1> SUFFICES ASSUME PartsInit, part = "setup" PROVE HostSetupPart!SetupInv
    BY DEF SetupHeld
  <1>1. HostSetupPart!SetupInit
    BY DEF PartsInit
  <1>2. HostSetupPart!HostHeld
    BY <1>1, HarnessAssumption
       DEF HostSetupPart!SetupInit, HostSetupPart!HostHeld, HostSetupPart!SetupTypeOK
  <1>3. HostSetupPart!TodoHeld
    BY <1>1, EmptySeq DEF HostSetupPart!SetupInit, HostSetupPart!TodoHeld
  <1>4. HostSetupPart!SetOrDue
    BY <1>1 DEF HostSetupPart!SetupInit, HostSetupPart!SetOrDue
  <1> QED BY <1>2, <1>3, <1>4 DEF HostSetupPart!SetupInv

(* What is in one of two sequences is in the one after the other.             *)
In(s, w) == \E i \in DOMAIN s : s[i] = w

LEMMA InConcat ==
  ASSUME NEW S, NEW s \in Seq(S), NEW t \in Seq(S), NEW w
  PROVE  s \o t \in Seq(S) /\ (In(s \o t, w) <=> In(s, w) \/ In(t, w))
PROOF
  <1>1. /\ s \o t \in Seq(S) /\ Len(s) \in Nat /\ Len(t) \in Nat
        /\ DOMAIN s = 1..Len(s) /\ DOMAIN t = 1..Len(t)
        /\ DOMAIN (s \o t) = 1..(Len(s) + Len(t))
        /\ \A i \in 1..(Len(s) + Len(t)) :
              (s \o t)[i] = IF i <= Len(s) THEN s[i] ELSE t[i - Len(s)]
    BY ConcatProperties, LenProperties
  <1>2. ASSUME NEW i \in DOMAIN s PROVE i \in DOMAIN (s \o t) /\ (s \o t)[i] = s[i]
    BY <1>1
  <1>3. ASSUME NEW i \in DOMAIN t
        PROVE  i + Len(s) \in DOMAIN (s \o t) /\ (s \o t)[i + Len(s)] = t[i]
    BY <1>1
  <1>4. ASSUME NEW i \in DOMAIN (s \o t)
        PROVE  \/ i \in DOMAIN s /\ (s \o t)[i] = s[i]
               \/ i - Len(s) \in DOMAIN t /\ (s \o t)[i] = t[i - Len(s)]
    BY <1>1
  <1> QED BY <1>1, <1>2, <1>3, <1>4 DEF In

(* apply goes through every CPU that is online.                               *)
LEMMA EachOnline ==
  LET up == HostSetupPart!SetToSeq({c \in Cpus : r3[c]})
  IN  up \in Seq({c \in Cpus : r3[c]}) /\ \A c \in Cpus : r3[c] => In(up, c)
PROOF
  <1> DEFINE S == {c \in Cpus : r3[c]}
             up == HostSetupPart!SetToSeq(S)
  <1>1. IsFiniteSet(S)
    BY HarnessAssumption, FS_Subset
  <1>2. HostSetupPart!Cardinality(S) = Cardinality(S)
    BY DEF HostSetupPart!Cardinality, Cardinality
  <1>3. Cardinality(S) \in Nat /\ ExistsBijection(1..Cardinality(S), S)
    BY <1>1, FS_CardinalityType
  <1> HIDE DEF S
  <1>4. PICK f \in [1..Cardinality(S) -> S] : HostSetupPart!IsInjective(f)
    <2>1. PICK f : f \in Bijection(1..Cardinality(S), S)
      BY <1>3 DEF ExistsBijection
    <2>2. f \in [1..Cardinality(S) -> S]
          /\ \A a, b \in 1..Cardinality(S) : f[a] = f[b] => a = b
      BY <2>1 DEF Bijection, Injection, IsInjective
    <2> QED BY <2>2 DEF HostSetupPart!IsInjective
  <1>5. up \in [1..Cardinality(S) -> S] /\ HostSetupPart!IsInjective(up)
    BY <1>2, <1>4, Zenon DEF HostSetupPart!SetToSeq
  <1> HIDE DEF up
  <1>6. up \in Injection(1..Cardinality(S), S)
    BY <1>5 DEF Injection, IsInjective, HostSetupPart!IsInjective
  <1>7. IsFiniteSet(1..Cardinality(S)) /\ Cardinality(1..Cardinality(S)) = Cardinality(S)
    BY <1>3, FS_Interval
  <1>8. up \in Surjection(1..Cardinality(S), S)
    BY <1>1, <1>6, <1>7, FS_Injection
  <1>9. up \in Seq(S)
    BY <1>3, <1>5
  <1>10. \A c \in S : In(up, c)
    BY <1>5, <1>8 DEF Surjection, In
  <1> QED BY <1>9, <1>10 DEF S, up

(* What apply has to write, in the order of its file; the end of it is last.  *)
Steps == HostSetupPart!Writes \ {HostSetupPart!TheEnd}

LEMMA WritesAre ==
  /\ \A c \in Cpus : <<"governor", c>> \in Steps
  /\ \A k \in HostSetupPart!Knobs : <<"knob", k>> \in Steps
  /\ DOMAIN HostSetupPart!Levels = 1..4
  /\ \A i \in 1..4 : <<"io", i>> \in Steps
  /\ HostSetupPart!TheEnd \in HostSetupPart!Writes
PROOF
  <1>1. DOMAIN HostSetupPart!Levels = 1..4
    BY DEF HostSetupPart!Levels
  <1> QED BY <1>1 DEF Steps, HostSetupPart!Writes, HostSetupPart!TheEnd

LEMMA GovernorsWritten ==
  /\ HostSetupPart!GovernorWrites \in Seq(Steps)
  /\ \A c \in Cpus : r3[c] => In(HostSetupPart!GovernorWrites, <<"governor", c>>)
PROOF
  <1> DEFINE S == {c \in Cpus : r3[c]}
             up == HostSetupPart!SetToSeq(S)
  <1>1. up \in Seq(S) /\ \A c \in Cpus : r3[c] => In(up, c)
    BY EachOnline
  <1>2. HostSetupPart!GovernorWrites = [i \in DOMAIN up |-> <<"governor", up[i]>>]
    BY DEF HostSetupPart!GovernorWrites
  <1> HIDE DEF up
  <1>3. Len(up) \in Nat /\ DOMAIN up = 1..Len(up) /\ \A i \in DOMAIN up : up[i] \in Cpus
    BY <1>1, LenProperties
  <1>4. \A i \in 1..Len(up) : <<"governor", up[i]>> \in Steps
    BY <1>3, WritesAre
  <1>5. HostSetupPart!GovernorWrites \in Seq(Steps)
    BY <1>2, <1>3, <1>4
  <1>6. ASSUME NEW c \in Cpus, r3[c] PROVE In(HostSetupPart!GovernorWrites, <<"governor", c>>)
    BY <1>1, <1>2, <1>6 DEF In
  <1> QED BY <1>5, <1>6

LEMMA KnobsWritten ==
  ASSUME r1 \subseteq HostSetupPart!Knobs
  PROVE  /\ HostSetupPart!KnobWrites \in Seq(Steps)
         /\ \A k \in r1 : In(HostSetupPart!KnobWrites, <<"knob", k>>)
PROOF
  <1> DEFINE write(k) == IF k \in r1 THEN <<<<"knob", k>>>> ELSE <<>>
  <1>1. ASSUME NEW k \in HostSetupPart!Knobs
        PROVE  write(k) \in Seq(Steps) /\ (k \in r1 => In(write(k), <<"knob", k>>))
    <2>1. <<"knob", k>> \in Steps
      BY WritesAre
    <2>2. CASE k \in r1
      <3>1. write(k) = <<<<"knob", k>>>>
        BY <2>2
      <3>2. \A x : x \in Steps => <<x>> \in Seq(Steps) /\ In(<<x>>, x)
        <4>1. \A x : DOMAIN <<x>> = {1} /\ <<x>>[1] = x
          OBVIOUS
        <4> QED BY <4>1 DEF In
      <3> QED BY <2>1, <3>1, <3>2, Zenon
    <2>3. CASE k \notin r1
      BY <2>3, EmptySeq
    <2> QED BY <2>2, <2>3
  <1>2. HostSetupPart!KnobWrites = write("no_turbo") \o write("boost")
          \o write("numa_balancing") \o write("paranoid") \o write("delayacct")
    BY DEF HostSetupPart!KnobWrites
  <1>3. /\ "no_turbo" \in HostSetupPart!Knobs /\ "boost" \in HostSetupPart!Knobs
        /\ "numa_balancing" \in HostSetupPart!Knobs /\ "paranoid" \in HostSetupPart!Knobs
        /\ "delayacct" \in HostSetupPart!Knobs
        /\ \A k \in r1 : k \in {"no_turbo", "boost", "numa_balancing", "paranoid", "delayacct"}
    BY DEF HostSetupPart!Knobs
  <1> HIDE DEF write
  <1> DEFINE w1 == write("no_turbo") \o write("boost")
             w2 == w1 \o write("numa_balancing")
             w3 == w2 \o write("paranoid")
             w4 == w3 \o write("delayacct")
  <1>4. /\ w1 \in Seq(Steps)
        /\ \A w : In(w1, w) <=> In(write("no_turbo"), w) \/ In(write("boost"), w)
    BY <1>1, <1>3, InConcat
  <1> HIDE DEF w1
  <1>5. w2 \in Seq(Steps) /\ \A w : In(w2, w) <=> In(w1, w) \/ In(write("numa_balancing"), w)
    BY <1>1, <1>3, <1>4, InConcat
  <1> HIDE DEF w2
  <1>6. w3 \in Seq(Steps) /\ \A w : In(w3, w) <=> In(w2, w) \/ In(write("paranoid"), w)
    BY <1>1, <1>3, <1>5, InConcat
  <1> HIDE DEF w3
  <1>7. w4 \in Seq(Steps) /\ \A w : In(w4, w) <=> In(w3, w) \/ In(write("delayacct"), w)
    BY <1>1, <1>3, <1>6, InConcat
  <1>8. HostSetupPart!KnobWrites = w4
    BY <1>2 DEF w1, w2, w3, w4
  <1> HIDE DEF w4
  <1>9. \A k \in r1 : In(write(k), <<"knob", k>>)
    BY <1>1
  <1>10. ASSUME NEW k \in r1 PROVE In(w4, <<"knob", k>>)
    BY <1>3, <1>4, <1>5, <1>6, <1>7, <1>9
  <1> QED BY <1>7, <1>8, <1>10

LEMMA LevelsWritten ==
  /\ HostSetupPart!IoWrites \in Seq(Steps)
  /\ \A i \in DOMAIN HostSetupPart!Levels : In(HostSetupPart!IoWrites, <<"io", i>>)
PROOF
  <1>1. HostSetupPart!IoWrites = [i \in 1..4 |-> <<"io", i>>]
    BY WritesAre DEF HostSetupPart!IoWrites
  <1>2. HostSetupPart!IoWrites \in Seq(Steps)
    BY <1>1, WritesAre
  <1> QED BY <1>1, <1>2, WritesAre DEF In

LEMMA ApplyWritesAll ==
  ASSUME HostSetupPart!StartApply, r1 \subseteq HostSetupPart!Knobs
  PROVE  /\ HostSetupPart!TodoHeld'
         /\ \A c \in Cpus : r3[c] => In(r6', <<"governor", c>>)
         /\ \A k \in r1 : In(r6', <<"knob", k>>)
         /\ \A i \in DOMAIN HostSetupPart!Levels : In(r6', <<"io", i>>)
PROOF
  <1> DEFINE g == HostSetupPart!GovernorWrites
             k == HostSetupPart!KnobWrites
             l == HostSetupPart!IoWrites
             all == (g \o k) \o l
             end == HostSetupPart!TheEnd
  <1>1. r6' = all \o <<end>>
    BY DEF HostSetupPart!StartApply, HostSetupPart!TheEnd
  <1>2. g \in Seq(Steps) /\ k \in Seq(Steps) /\ l \in Seq(Steps)
    BY GovernorsWritten, KnobsWritten, LevelsWritten
  <1> HIDE DEF g, k, l, end
  <1>3. g \o k \in Seq(Steps) /\ \A w : In(g \o k, w) <=> In(g, w) \/ In(k, w)
    BY <1>2, InConcat
  <1>4. all \in Seq(Steps) /\ \A w : In(all, w) <=> In(g \o k, w) \/ In(l, w)
    BY <1>2, <1>3, InConcat
  <1> HIDE DEF all
  <1>5. Steps \subseteq HostSetupPart!Writes /\ end \in HostSetupPart!Writes /\ end \notin Steps
    BY WritesAre DEF Steps, end
  <1>6. all \in Seq(HostSetupPart!Writes) /\ <<end>> \in Seq(HostSetupPart!Writes)
    BY <1>4, <1>5, SeqMonotonic
  <1>7. r6' \in Seq(HostSetupPart!Writes) /\ \A w : In(all, w) => In(r6', w)
    BY <1>1, <1>6, InConcat
  <1>8. /\ DOMAIN r6' = 1..(Len(all) + 1) /\ Len(r6') = Len(all) + 1 /\ Len(all) \in Nat
        /\ \A i \in 1..Len(all) : r6'[i] = all[i] /\ all[i] \in Steps
        /\ r6'[Len(all) + 1] = end
    BY <1>1, <1>4, <1>6, ElementOfSeq
  <1>9. \A i \in DOMAIN r6' : r6'[i] = end <=> i = Len(r6')
    BY <1>5, <1>8
  <1>10. HostSetupPart!TodoHeld'
    BY <1>7, <1>9 DEF HostSetupPart!TodoHeld, end, HostSetupPart!TheEnd, HostSetupPart!Writes,
                      HostSetupPart!Knobs, HostSetupPart!Levels
  <1>11. \A c \in Cpus : r3[c] => In(r6', <<"governor", c>>)
    BY <1>3, <1>4, <1>7, GovernorsWritten DEF g
  <1>12. \A x \in r1 : In(r6', <<"knob", x>>)
    BY <1>3, <1>4, <1>7, KnobsWritten DEF k
  <1>13. \A i \in DOMAIN HostSetupPart!Levels : In(r6', <<"io", i>>)
    BY <1>4, <1>7, LevelsWritten DEF l
  <1> QED BY <1>10, <1>11, <1>12, <1>13

(* A write that is done is off the list; the others stay on it.               *)
LEMMA TailDue ==
  ASSUME HostSetupPart!TodoHeld, Len(r6) > 1, r6' = Tail(r6)
  PROVE  /\ HostSetupPart!TodoHeld'
         /\ Head(r6) \in Steps
         /\ \A w : HostSetupPart!Due(w) => w = Head(r6) \/ HostSetupPart!Due(w)'
PROOF
  <1>1. r6 \in Seq(HostSetupPart!Writes) /\ Len(r6) \in Nat /\ DOMAIN r6 = 1..Len(r6)
    BY LenProperties DEF HostSetupPart!TodoHeld
  <1>2. /\ Tail(r6) \in Seq(HostSetupPart!Writes) /\ Len(r6') = Len(r6) - 1
        /\ DOMAIN r6' = 1..(Len(r6) - 1)
        /\ \A i \in 1..(Len(r6) - 1) : r6'[i] = r6[i + 1]
        /\ Head(r6) = r6[1] /\ r6[1] \in HostSetupPart!Writes
    BY <1>1, ElementOfSeq
  <1>3. \A i \in DOMAIN r6 : r6[i] = HostSetupPart!TheEnd <=> i = Len(r6)
    BY DEF HostSetupPart!TodoHeld
  <1>4. \A i \in DOMAIN r6' : r6'[i] = HostSetupPart!TheEnd <=> i = Len(r6')
    BY <1>1, <1>2, <1>3
  <1>5. HostSetupPart!TodoHeld'
    BY <1>2, <1>4 DEF HostSetupPart!TodoHeld, HostSetupPart!TheEnd, HostSetupPart!Writes,
                      HostSetupPart!Knobs, HostSetupPart!Levels
  <1>6. Head(r6) \in Steps
    BY <1>1, <1>2, <1>3 DEF Steps
  <1>7. ASSUME NEW w, HostSetupPart!Due(w), w # Head(r6) PROVE HostSetupPart!Due(w)'
    <2>1. PICK i \in DOMAIN r6 : r6[i] = w
      BY <1>7 DEF HostSetupPart!Due
    <2>2. i - 1 \in DOMAIN r6' /\ r6'[i - 1] = w
      BY <1>1, <1>2, <1>7, <2>1
    <2> QED BY <2>2 DEF HostSetupPart!Due
  <1> QED BY <1>5, <1>6, <1>7

(* A write that was taken has set what it was for.                            *)
LEMMA WriteSets ==
  ASSUME HostSetupPart!HostHeld, HostSetupPart!TodoHeld, HostSetupPart!SetOrDue,
         HostSetupPart!Write, r7'
  PROVE  HostSetupPart!SetOrDue'
PROOF
  <1> DEFINE w == Head(r6)
  <1>1. /\ Len(r6) > 1 /\ r6' = Tail(r6) /\ r1' = r1 /\ r3' = r3
        /\ HostSetupPart!Taken(w)
        /\ r2' = IF w[1] = "governor" THEN [r2 EXCEPT ![w[2]] = "performance"] ELSE r2
        /\ r4' = IF w[1] = "knob" THEN [r4 EXCEPT ![w[2]] = "set"] ELSE r4
        /\ r5' = IF w[1] = "io" THEN r5 \cup {HostSetupPart!Levels[w[2]]} ELSE r5
        /\ r7' = r7
    BY DEF HostSetupPart!Write
  <1>2. /\ w \in Steps
        /\ \A x : HostSetupPart!Due(x) => x = w \/ HostSetupPart!Due(x)'
    BY <1>1, TailDue
  <1>3. /\ r2 \in [Cpus -> {"powersave", "performance"}] /\ r1 \subseteq HostSetupPart!Knobs
        /\ r4 \in [HostSetupPart!Knobs -> {"set", "unset"}]
    BY DEF HostSetupPart!HostHeld, HostSetupPart!SetupTypeOK
  <1>4. /\ \A c \in Cpus : r3[c] => r2[c] = "performance" \/ HostSetupPart!Due(<<"governor", c>>)
        /\ \A k \in r1 : r4[k] = "set" \/ HostSetupPart!Due(<<"knob", k>>)
        /\ \A i \in DOMAIN HostSetupPart!Levels :
              HostSetupPart!Levels[i] \in r5 \/ HostSetupPart!Due(<<"io", i>>)
    BY <1>1 DEF HostSetupPart!SetOrDue
  <1> HIDE DEF w
  <1>5. ASSUME NEW c \in Cpus, r3'[c]
        PROVE  r2'[c] = "performance" \/ HostSetupPart!Due(<<"governor", c>>)'
    <2>1. CASE w = <<"governor", c>>
      BY <1>1, <1>3, <2>1
    <2>2. CASE w # <<"governor", c>>
      <3>1. r2[c] = "performance" => r2'[c] = "performance"
        BY <1>1, <1>3
      <3> QED BY <1>1, <1>2, <1>4, <1>5, <2>2, <3>1
    <2> QED BY <2>1, <2>2
  <1>6. ASSUME NEW k \in r1' PROVE r4'[k] = "set" \/ HostSetupPart!Due(<<"knob", k>>)'
    <2>1. CASE w = <<"knob", k>>
      BY <1>1, <1>3, <1>6, <2>1
    <2>2. CASE w # <<"knob", k>>
      <3>1. r4[k] = "set" => r4'[k] = "set"
        BY <1>1, <1>3, <1>6
      <3> QED BY <1>1, <1>2, <1>4, <1>6, <2>2, <3>1
    <2> QED BY <2>1, <2>2
  <1>7. ASSUME NEW i \in DOMAIN HostSetupPart!Levels
        PROVE  HostSetupPart!Levels[i] \in r5' \/ HostSetupPart!Due(<<"io", i>>)'
    <2>1. CASE w = <<"io", i>>
      BY <1>1, <2>1
    <2>2. CASE w # <<"io", i>>
      <3>1. r5 \subseteq r5'
        BY <1>1
      <3> QED BY <1>2, <1>4, <1>7, <2>2, <3>1
    <2> QED BY <2>1, <2>2
  <1> QED BY <1>5, <1>6, <1>7 DEF HostSetupPart!SetOrDue, HostSetupPart!Levels

LEMMA WriteTyped ==
  ASSUME HostSetupPart!HostHeld, HostSetupPart!TodoHeld, HostSetupPart!Write
  PROVE  HostSetupPart!HostHeld'
PROOF
  <1> DEFINE w == Head(r6)
  <1>1. /\ Len(r6) > 1 /\ r6' = Tail(r6) /\ r1' = r1 /\ r3' = r3
        /\ r2' = r2 \/ (w[1] = "governor" /\ r2' = [r2 EXCEPT ![w[2]] = "performance"])
        /\ r4' = r4 \/ (w[1] = "knob" /\ r4' = [r4 EXCEPT ![w[2]] = "set"])
        /\ r5' = r5 \/ (w[1] = "io" /\ r5' = r5 \cup {HostSetupPart!Levels[w[2]]})
        /\ r8' = r8 \/ (r8 < MaxMeddling /\ r8' = r8 + 1)
    <2>1. Len(r6) > 1 /\ r6' = Tail(r6) /\ r1' = r1 /\ r3' = r3
      BY DEF HostSetupPart!Write
    <2>2. \/ /\ r2' = IF w[1] = "governor" THEN [r2 EXCEPT ![w[2]] = "performance"] ELSE r2
             /\ r4' = IF w[1] = "knob" THEN [r4 EXCEPT ![w[2]] = "set"] ELSE r4
             /\ r5' = IF w[1] = "io" THEN r5 \cup {HostSetupPart!Levels[w[2]]} ELSE r5
             /\ r8' = r8
          \/ /\ HostSetupPart!Meddle \/ r8' = r8
             /\ r2' = r2 /\ r4' = r4 /\ r5' = r5
      BY DEF HostSetupPart!Write
    <2> HIDE DEF w
    <2> QED BY <2>1, <2>2 DEF HostSetupPart!Meddle
  <1>2. /\ w \in Steps
    BY <1>1, TailDue
  <1>3. /\ r2 \in [Cpus -> {"powersave", "performance"}] /\ r1 \subseteq HostSetupPart!Knobs
        /\ r4 \in [HostSetupPart!Knobs -> {"set", "unset"}] /\ r8 \in 0..MaxMeddling
        /\ r5 \subseteq {HostSetupPart!Levels[i] : i \in DOMAIN HostSetupPart!Levels}
        /\ r3 \in [Cpus -> BOOLEAN] /\ (r1 = {} => r6 = <<>>)
        /\ r1 # {} => {"paranoid", "delayacct"} \subseteq r1 /\ \E c \in Cpus : r3[c]
    BY DEF HostSetupPart!HostHeld, HostSetupPart!SetupTypeOK
  <1> HIDE DEF w
  <1>4. /\ r2' \in [Cpus -> {"powersave", "performance"}]
        /\ r4' \in [HostSetupPart!Knobs -> {"set", "unset"}]
    BY <1>1, <1>3
  <1>5. r8' \in 0..MaxMeddling
    BY <1>1, <1>3, HarnessAssumption
  <1>6. w[1] = "io" => w[2] \in DOMAIN HostSetupPart!Levels
    BY <1>2 DEF Steps, HostSetupPart!Writes, HostSetupPart!TheEnd
  <1>7. r5' \subseteq {HostSetupPart!Levels[i] : i \in DOMAIN HostSetupPart!Levels}
    BY <1>1, <1>3, <1>6
  <1>8. r1 # {}
    BY <1>1, <1>3, EmptySeq
  <1> QED BY <1>1, <1>3, <1>4, <1>5, <1>7, <1>8
          DEF HostSetupPart!HostHeld, HostSetupPart!SetupTypeOK, HostSetupPart!Levels,
              HostSetupPart!Knobs

LEMMA SetupStep == HostSetupPart!SetupInv /\ HostSetupPart!SetupNext => HostSetupPart!SetupInv'
PROOF
  <1> SUFFICES ASSUME HostSetupPart!SetupInv, HostSetupPart!SetupNext
               PROVE  HostSetupPart!SetupInv'
    OBVIOUS
  <1>0. HostSetupPart!HostHeld /\ HostSetupPart!TodoHeld /\ HostSetupPart!SetOrDue
    BY DEF HostSetupPart!SetupInv
  <1> SUFFICES HostSetupPart!HostHeld' /\ HostSetupPart!TodoHeld' /\ HostSetupPart!SetOrDue'
    BY DEF HostSetupPart!SetupInv
  <1> DEFINE levels == {HostSetupPart!Levels[i] : i \in DOMAIN HostSetupPart!Levels}
  <1>1. /\ r2 \in [Cpus -> {"powersave", "performance"}] /\ r1 \subseteq HostSetupPart!Knobs
        /\ r4 \in [HostSetupPart!Knobs -> {"set", "unset"}] /\ r8 \in 0..MaxMeddling
        /\ r5 \subseteq levels
        /\ r3 \in [Cpus -> BOOLEAN] /\ (r1 = {} => r6 = <<>> /\ ~r7)
        /\ r1 # {} => {"paranoid", "delayacct"} \subseteq r1 /\ \E c \in Cpus : r3[c]
    BY <1>0 DEF HostSetupPart!HostHeld, HostSetupPart!SetupTypeOK
  (* What makes a state that of a host.                                       *)
  <1>2. ASSUME r2' \in [Cpus -> {"powersave", "performance"}], r1' \subseteq HostSetupPart!Knobs,
               r4' \in [HostSetupPart!Knobs -> {"set", "unset"}], r8' \in 0..MaxMeddling,
               r5' \subseteq levels, r3' \in [Cpus -> BOOLEAN],
               {"paranoid", "delayacct"} \subseteq r1', \E c \in Cpus : r3'[c]
        PROVE  HostSetupPart!HostHeld'
    BY <1>2 DEF HostSetupPart!HostHeld, HostSetupPart!SetupTypeOK, HostSetupPart!Levels,
                HostSetupPart!Knobs
  <1>3. ASSUME UNCHANGED r6 PROVE HostSetupPart!TodoHeld'
    BY <1>0, <1>3 DEF HostSetupPart!TodoHeld, HostSetupPart!TheEnd, HostSetupPart!Writes,
                      HostSetupPart!Knobs, HostSetupPart!Levels
  <1>4. ASSUME ~r7' PROVE HostSetupPart!SetOrDue'
    BY <1>4 DEF HostSetupPart!SetOrDue
  <1>5. ASSUME HostSetupPart!Meddle PROVE r8' \in 0..MaxMeddling
    BY <1>1, <1>5, HarnessAssumption DEF HostSetupPart!Meddle
  <1>6. CASE HostSetupPart!Boot
    <2>1. /\ r1' \subseteq HostSetupPart!Knobs /\ {"paranoid", "delayacct"} \subseteq r1'
          /\ r5' \subseteq levels
      <3>1. PICK k \in SUBSET {"no_turbo", "boost", "numa_balancing"} :
               r1' = k \cup {"paranoid", "delayacct"}
        BY <1>6 DEF HostSetupPart!Boot
      <3>2. r1' \subseteq HostSetupPart!Knobs /\ {"paranoid", "delayacct"} \subseteq r1'
        BY <3>1 DEF HostSetupPart!Knobs
      <3>3. "user.slice" \in levels
        <4>1. 1 \in DOMAIN HostSetupPart!Levels /\ HostSetupPart!Levels[1] = "user.slice"
          BY DEF HostSetupPart!Levels
        <4> QED BY <4>1
      <3>4. r5' = {} \/ r5' = {"user.slice"}
        BY <1>6 DEF HostSetupPart!Boot
      <3> HIDE DEF levels
      <3>5. r5' \subseteq levels
        BY <3>3, <3>4
      <3> QED BY <3>2, <3>5
    <2>2. /\ r3' \in [Cpus -> BOOLEAN] /\ (\E c \in Cpus : r3'[c])
          /\ r2' = r2 /\ r4' = r4 /\ r6' = r6 /\ r7' = r7 /\ r8' = r8 /\ ~r7
      BY <1>1, <1>6 DEF HostSetupPart!Boot
    <2> QED BY <1>1, <1>2, <1>3, <1>4, <2>1, <2>2
  <1>7. CASE HostSetupPart!StartApply
    <2>1. /\ r1 # {} /\ r1' = r1 /\ r2' = r2 /\ r3' = r3 /\ r4' = r4 /\ r5' = r5 /\ r8' = r8
      BY <1>7 DEF HostSetupPart!StartApply
    <2>2. HostSetupPart!SetOrDue'
      BY <1>1, <1>7, <2>1, ApplyWritesAll
         DEF HostSetupPart!SetOrDue, HostSetupPart!Due, In, HostSetupPart!Levels
    <2> QED BY <1>1, <1>2, <1>7, <2>1, <2>2, ApplyWritesAll
  <1>8. CASE HostSetupPart!Write
    <2>1. HostSetupPart!HostHeld'
      BY <1>0, <1>8, WriteTyped
    <2>2. HostSetupPart!TodoHeld'
      BY <1>0, <1>8, TailDue DEF HostSetupPart!Write
    <2>3. HostSetupPart!SetOrDue'
      BY <1>0, <1>4, <1>8, WriteSets
    <2> QED BY <2>1, <2>2, <2>3
  <1>9. CASE HostSetupPart!EndApply
    <2>1. /\ Len(r6) = 1 /\ r6' = <<>> /\ r1' = r1 /\ r2' = r2 /\ r3' = r3 /\ r4' = r4
          /\ r5' = r5 /\ r7' = r7 /\ r8' = r8
      BY <1>9 DEF HostSetupPart!EndApply
    <2>2. DOMAIN r6 = {1} /\ r6[1] = HostSetupPart!TheEnd
      <3>1. r6 \in Seq(HostSetupPart!Writes)
        BY <1>0 DEF HostSetupPart!TodoHeld
      <3>2. DOMAIN r6 = 1..Len(r6)
        BY <3>1, LenProperties
      <3> QED BY <1>0, <2>1, <3>2 DEF HostSetupPart!TodoHeld
    <2>3. /\ \A c : ~HostSetupPart!Due(<<"governor", c>>)
          /\ \A k : ~HostSetupPart!Due(<<"knob", k>>)
          /\ \A i : ~HostSetupPart!Due(<<"io", i>>)
      BY <2>2 DEF HostSetupPart!Due, HostSetupPart!TheEnd
    <2>4. HostSetupPart!SetOrDue'
      BY <1>0, <2>1, <2>3 DEF HostSetupPart!SetOrDue, HostSetupPart!Levels
    <2>5. HostSetupPart!TodoHeld'
      BY <2>1, EmptySeq DEF HostSetupPart!TodoHeld
    <2>6. r1 # {}
      BY <1>1, <2>1, EmptySeq
    <2> QED BY <1>1, <1>2, <2>1, <2>4, <2>5, <2>6
  <1>10. CASE HostSetupPart!Hotplug
    <2>1. /\ r1 # {} /\ r1' = r1 /\ r2' = r2 /\ r4' = r4 /\ r5' = r5 /\ r6' = r6
          /\ HostSetupPart!Meddle
      BY <1>10 DEF HostSetupPart!Hotplug
    <2>2. PICK c \in Cpus : /\ r3' = [r3 EXCEPT ![c] = ~@]
                            /\ \E d \in Cpus : r3'[d]
                            /\ r7' = (r7 /\ ~r3'[c])
      BY <1>10 DEF HostSetupPart!Hotplug
    <2>3. r3' \in [Cpus -> BOOLEAN]
      BY <1>1, <2>2
    <2>4. ASSUME r7' PROVE r7 /\ \A d \in Cpus : r3'[d] => r3[d]
      BY <1>1, <2>2, <2>4
    <2>5. HostSetupPart!SetOrDue'
      BY <1>0, <2>1, <2>4 DEF HostSetupPart!SetOrDue, HostSetupPart!Due, HostSetupPart!Levels
    <2> QED BY <1>1, <1>2, <1>3, <1>5, <2>1, <2>2, <2>3, <2>5
  <1>11. CASE HostSetupPart!SetBack
    <2>1. /\ r1 # {} /\ r1' = r1 /\ r3' = r3 /\ r5' = r5 /\ r6' = r6 /\ ~r7'
          /\ HostSetupPart!Meddle
      BY <1>11 DEF HostSetupPart!SetBack
    <2>2. /\ r2' \in [Cpus -> {"powersave", "performance"}]
          /\ r4' \in [HostSetupPart!Knobs -> {"set", "unset"}]
      BY <1>1, <1>11 DEF HostSetupPart!SetBack
    <2> QED BY <1>1, <1>2, <1>3, <1>4, <1>5, <2>1, <2>2
  <1>12. CASE HostSetupPart!Login
    <2>1. /\ r1 # {} /\ r1' = r1 /\ r2' = r2 /\ r3' = r3 /\ r4' = r4 /\ r6' = r6 /\ ~r7'
          /\ r5' \subseteq r5 /\ HostSetupPart!Meddle
      BY <1>12 DEF HostSetupPart!Login
    <2> QED BY <1>1, <1>2, <1>3, <1>4, <1>5, <2>1
  <1> QED BY <1>6, <1>7, <1>8, <1>9, <1>10, <1>11, <1>12 DEF HostSetupPart!SetupNext

(* With nothing left to write, nothing is unset.                              *)
LEMMA SetupEnough == HostSetupPart!SetupInv => HostSetupPart!ApplyIsEnough
PROOF
  <1> SUFFICES ASSUME HostSetupPart!SetupInv, r7, r6 = <<>>
               PROVE  /\ HostSetupPart!Failures \subseteq
                            (IF r1 \cap {"no_turbo", "boost"} = {} THEN {"turbo"} ELSE {})
                      /\ HostSetupPart!Instrumented
    BY DEF HostSetupPart!ApplyIsEnough
  <1>1. \A w : ~HostSetupPart!Due(w)
    <2>1. DOMAIN r6 = {}
      OBVIOUS
    <2> QED BY <2>1 DEF HostSetupPart!Due
  <1>2. /\ \A c \in Cpus : r3[c] => r2[c] = "performance"
        /\ \A k \in r1 : r4[k] = "set"
        /\ \A i \in DOMAIN HostSetupPart!Levels : HostSetupPart!Levels[i] \in r5
    BY <1>1 DEF HostSetupPart!SetupInv, HostSetupPart!SetOrDue
  <1>3. /\ "paranoid" \in r1 /\ "delayacct" \in r1 /\ \E c \in Cpus : r3[c]
    BY DEF HostSetupPart!SetupInv, HostSetupPart!HostHeld
  <1>4. HostSetupPart!GovernorOk
    BY <1>2, <1>3 DEF HostSetupPart!GovernorOk
  <1>5. HostSetupPart!TurboOk \/ r1 \cap {"no_turbo", "boost"} = {}
    BY <1>2 DEF HostSetupPart!TurboOk
  <1>6. HostSetupPart!MemoryOk /\ HostSetupPart!PerfOk
    BY <1>2, <1>3 DEF HostSetupPart!MemoryOk, HostSetupPart!PerfOk
  <1>7. HostSetupPart!Instrumented
    BY <1>2, <1>3 DEF HostSetupPart!Instrumented, HostSetupPart!IoMissing
  <1>8. HostSetupPart!Failures \subseteq
           (IF r1 \cap {"no_turbo", "boost"} = {} THEN {"turbo"} ELSE {})
    BY <1>4, <1>5, <1>6 DEF HostSetupPart!Failures
  <1> QED BY <1>7, <1>8

LEMMA SetupKept == SetupHeld /\ [PartsNext]_pvars => SetupHeld'
PROOF
  <1> SUFFICES ASSUME SetupHeld, [PartsNext]_pvars, part' = "setup"
               PROVE  HostSetupPart!SetupInv'
    BY DEF SetupHeld
  <1>1. part = "setup" /\ HostSetupPart!SetupInv
    BY PartStays DEF SetupHeld
  <1>2. CASE HostSetupPart!SetupNext
    BY <1>1, <1>2, SetupStep
  <1>3. CASE UNCHANGED pvars
    <2>1. UNCHANGED <<r1, r2, r3, r4, r5, r6, r7, r8>>
      BY <1>3 DEF pvars, After0, After1, After4, After5, After6, After8
    <2> QED BY <1>1, <2>1
            DEF HostSetupPart!SetupInv, HostSetupPart!HostHeld, HostSetupPart!TodoHeld,
                HostSetupPart!SetOrDue, HostSetupPart!Due, HostSetupPart!SetupTypeOK,
                HostSetupPart!TheEnd, HostSetupPart!Writes, HostSetupPart!Knobs,
                HostSetupPart!Levels
  <1> QED BY <1>1, <1>2, <1>3 DEF PartsNext

(* A dataset that fetch or verify vouches for is the upstream one, whatever   *)
(* was interrupted, resumed or had rotted; and a host that an apply has set   *)
(* up, with every write taken and nothing changed since, passes the check of  *)
(* everything that can be set, for any number of CPUs.                        *)
THEOREM SetUpIsEnoughCorrect == PartsSpec => []SetUpIsEnough
PROOF
  <1>2. PartsInit => Progress
    BY ProgressStarts DEF PartsInit
  <1>3. Progress /\ [PartsNext]_pvars => Progress'
    <2> SUFFICES ASSUME Progress, [PartsNext]_pvars PROVE Progress'
      OBVIOUS
    <2>1. [FetchNext]_fvars
      BY DEF PartsNext, pvars, Halted
    <2> QED BY <2>1, ProgressKept
  <1>4. SetupHeld /\ Progress => SetUpIsEnough
    BY SetupEnough, ProgressVouches DEF SetupHeld, SetUpIsEnough
  <1> QED BY SetupKept, <1>2, <1>3, <1>4, SetupInit, PTL DEF PartsSpec, pvars

-----------------------------------------------------------------------------
(* HostLoad: r1 at, r2 used, r3 cmd, r4 busy, r5 children, r6 s0, r7 s1,      *)
(* r8 sampling, r9 foreignWork, r10 unowned, r11 verdict.                     *)

LoadHeld == part = "load" => HostLoadPart!LoadInv
LoadProcs == {"engine", "bfb", "kthread", "rustc", "editor"}
LoadForeign == {"rustc", "editor"}
Used(p) == HostLoadPart!Since(p)

LEMMA LoadNames ==
  /\ HostLoadPart!Procs = LoadProcs /\ HostLoadPart!Foreign = LoadForeign
  /\ HostLoadPart!Fields = {"procs", "cmds", "busy", "children"}
PROOF
  BY DEF HostLoadPart!Procs, HostLoadPart!Foreign, LoadProcs, LoadForeign,
         HostLoadPart!Fields, HostLoadPart!NoSample

(* What strangers are.                                                        *)
LEMMA StrangersAre ==
  ASSUME HostLoadPart!ProcsHeld, NEW p \in LoadProcs
  PROVE  /\ HostLoadPart!Strange(r3[p]) <=> p \in LoadForeign
         /\ Used(p) \in Nat /\ r2[p] \in Int
         /\ r2[p] >= 0 => Used(p) = r2[p] - (IF p # "bfb" /\ r3[p] = p THEN 1 ELSE 0)
         /\ r2[p] < 0 => Used(p) = 0
PROOF
  <1>1. /\ r2[p] \in Int /\ Used(p) >= 0
        /\ r3[p] = p \/ (p \in LoadForeign /\ r3[p] = "other")
    BY LoadNames DEF HostLoadPart!ProcsHeld, Used
  <1>2. HostLoadPart!Strange(r3[p]) <=> p \in LoadForeign
    BY <1>1 DEF HostLoadPart!Strange, LoadForeign, LoadProcs
  <1>3. Used(p) = IF r2[p] < 0 THEN 0 ELSE r2[p] - (IF p # "bfb" /\ r3[p] = p THEN 1 ELSE 0)
    BY DEF Used, HostLoadPart!Since
  <1>4. Used(p) \in Int
    BY <1>1, <1>3
  <1> QED BY <1>1, <1>2, <1>3, <1>4

LEMMA SumsInt ==
  HostLoadPart!ProcsHeld => HostLoadPart!ForeignSince \in Int /\ HostLoadPart!OwnSince \in Int
PROOF
  <1> SUFFICES ASSUME HostLoadPart!ProcsHeld
               PROVE  HostLoadPart!ForeignSince \in Int /\ HostLoadPart!OwnSince \in Int
    OBVIOUS
  <1>1. /\ Used("engine") \in Nat /\ Used("bfb") \in Nat /\ Used("kthread") \in Nat
        /\ Used("rustc") \in Nat /\ Used("editor") \in Nat /\ r5 \in Nat
    BY StrangersAre DEF LoadProcs, HostLoadPart!ProcsHeld
  <1> QED BY <1>1 DEF HostLoadPart!ForeignSince, HostLoadPart!OwnSince, Used

(* Where one process has used more, or is gone, the sum of its kind moves.    *)
LEMMA SumsMove ==
  ASSUME HostLoadPart!ProcsHeld, NEW p \in LoadProcs, Used(p)' \in Int, r5' \in Int,
         \A q \in LoadProcs \ {p} : Used(q)' = Used(q)
  PROVE  /\ p \in LoadForeign =>
              /\ HostLoadPart!ForeignSince' = HostLoadPart!ForeignSince + (Used(p)' - Used(p))
              /\ HostLoadPart!OwnSince' = HostLoadPart!OwnSince + (r5' - r5)
         /\ p \notin LoadForeign =>
              /\ HostLoadPart!ForeignSince' = HostLoadPart!ForeignSince
              /\ HostLoadPart!OwnSince' = HostLoadPart!OwnSince + (r5' - r5) + (Used(p)' - Used(p))
         /\ HostLoadPart!ForeignSince \in Int /\ HostLoadPart!OwnSince \in Int
         /\ HostLoadPart!ForeignSince' \in Int /\ HostLoadPart!OwnSince' \in Int
PROOF
  <1>1. \A q \in LoadProcs : Used(q) \in Int /\ Used(q)' \in Int
    BY StrangersAre
  <1>2. r5 \in Int
    BY DEF HostLoadPart!ProcsHeld
  <1>3. /\ HostLoadPart!ForeignSince = Used("rustc") + Used("editor")
        /\ HostLoadPart!OwnSince = Used("engine") + Used("bfb") + Used("kthread") + r5 - 1
    BY DEF HostLoadPart!ForeignSince, HostLoadPart!OwnSince, Used
  <1>4. /\ HostLoadPart!ForeignSince' = Used("rustc")' + Used("editor")'
        /\ HostLoadPart!OwnSince' = Used("engine")' + Used("bfb")' + Used("kthread")' + r5' - 1
    BY DEF HostLoadPart!ForeignSince, HostLoadPart!OwnSince, Used
  <1>5. /\ "rustc" \in LoadProcs /\ "editor" \in LoadProcs /\ "engine" \in LoadProcs
        /\ "bfb" \in LoadProcs /\ "kthread" \in LoadProcs
        /\ "rustc" \in LoadForeign /\ "editor" \in LoadForeign /\ "engine" \notin LoadForeign
        /\ "bfb" \notin LoadForeign /\ "kthread" \notin LoadForeign
        /\ p = "rustc" \/ p = "editor" \/ p = "engine" \/ p = "bfb" \/ p = "kthread"
    BY DEF LoadProcs, LoadForeign
  <1>6. CASE p = "rustc"
    BY <1>1, <1>2, <1>3, <1>4, <1>5, <1>6
  <1>7. CASE p = "editor"
    BY <1>1, <1>2, <1>3, <1>4, <1>5, <1>7
  <1>8. CASE p = "engine"
    BY <1>1, <1>2, <1>3, <1>4, <1>5, <1>8
  <1>9. CASE p = "bfb"
    BY <1>1, <1>2, <1>3, <1>4, <1>5, <1>9
  <1>10. CASE p = "kthread"
    BY <1>1, <1>2, <1>3, <1>4, <1>5, <1>10
  <1> QED BY <1>5, <1>6, <1>7, <1>8, <1>9, <1>10

(* One process moves; the rest are as they were.                              *)
LEMMA OneMoves ==
  ASSUME HostLoadPart!ProcsHeld, NEW p \in LoadProcs, NEW n \in Int,
         r2' = [r2 EXCEPT ![p] = n], \A q \in LoadProcs \ {p} : r3'[q] = r3[q]
  PROVE  /\ r2' \in [LoadProcs -> Int] /\ r2'[p] = n
         /\ \A q \in LoadProcs \ {p} : Used(q)' = Used(q) /\ r2'[q] = r2[q]
         /\ n < 0 => Used(p)' = 0
         /\ n >= 0 => Used(p)' = n - (IF p # "bfb" /\ r3'[p] = p THEN 1 ELSE 0)
PROOF
  <1>1. r2 \in [LoadProcs -> Int]
    BY LoadNames DEF HostLoadPart!ProcsHeld
  <1>2. r2' \in [LoadProcs -> Int] /\ r2'[p] = n /\ \A q \in LoadProcs \ {p} : r2'[q] = r2[q]
    BY <1>1
  <1> QED BY <1>2 DEF Used, HostLoadPart!Since
(* What happens inside the interval: the accounts move with the work, up to   *)
(* what is put down as nobody's.                                              *)
Accounts ==
  LET F == HostLoadPart!ForeignSince
      O == HostLoadPart!OwnSince
  IN  /\ F' \in Int /\ O' \in Int
      /\ r10' >= r10 /\ r9' >= r9 /\ r4' - r4 >= r9' - r9
      /\ F' - F <= (r9' - r9) + (r10' - r10)
      /\ O' - O <= (r4' - r4) - (r9' - r9)
      /\ (r4' - r4) - (r9' - r9) - (O' - O) + (IF r1 = "idle" THEN r4' - r4 ELSE 0) <= r10' - r10
      /\ r8 # "no" => r4' - r4 <= r10' - r10 /\ r5' = r5
      /\ r1 = "idle" => r2'["bfb"] = r2["bfb"]

LEMMA Within ==
  ASSUME HostLoadPart!LoadInv, HostLoadPart!InRow, HostLoadPart!ProcsHeld', Accounts,
         UNCHANGED <<r1, r6, r7, r8, r11>>
  PROVE  HostLoadPart!LoadInv'
PROOF
  <1>1. /\ HostLoadPart!ProcsHeld /\ HostLoadPart!FirstHeld /\ HostLoadPart!WorkHeld
        /\ r1 \in {"idle", "row"} /\ (r1 = "idle" => r8 # "no") /\ r8 \in {"no", "busy"}
        /\ r8 # "no" => r8 = "busy"
    BY DEF HostLoadPart!LoadInv, HostLoadPart!InRow, HostLoadPart!FirstHeld
  <1>2. HostLoadPart!FirstHeld'
    BY <1>1 DEF HostLoadPart!FirstHeld, Accounts
  <1> DEFINE F == HostLoadPart!ForeignSince   F2 == HostLoadPart!ForeignSince'
             O == HostLoadPart!OwnSince       O2 == HostLoadPart!OwnSince'
             G == HostLoadPart!SeenForeign(r6, r7)
             N == HostLoadPart!SeenOwn(r6, r7) + r5 - 1
             a == r6.busy
             b == r4     b2 == r4'
             w == r9     w2 == r9'
             u == r10    u2 == r10'
  <1>3. /\ b \in Int /\ b2 \in Int /\ w \in Int /\ w2 \in Int /\ u \in Int /\ u2 \in Int
        /\ F \in Int /\ F2 \in Int /\ O \in Int /\ O2 \in Int
    BY <1>1, SumsInt DEF HostLoadPart!ProcsHeld, Accounts
  <1>4. /\ u2 >= u /\ w2 >= w /\ b2 - b >= w2 - w
        /\ F2 - F <= (w2 - w) + (u2 - u)
        /\ O2 - O <= (b2 - b) - (w2 - w)
        /\ (b2 - b) - (w2 - w) - (O2 - O) + (IF r1 = "idle" THEN b2 - b ELSE 0) <= u2 - u
        /\ r8 # "no" => b2 - b <= u2 - u
    BY DEF Accounts
  <1>5. r8 # "no" => r5' = r5
    BY DEF Accounts
  <1>6. ASSUME r1' = "idle" PROVE HostLoadPart!Balanced(F, O, r4)'
    <2>1. HostLoadPart!Balanced(F, O, r4) /\ r1 = "idle"
      BY <1>1, <1>6 DEF HostLoadPart!WorkHeld
    <2>2. F <= w + u /\ O <= b - 4 - w /\ (b - 4 - w) - O + (b - 4) <= u
      BY <2>1 DEF HostLoadPart!Balanced
    <2>3. F2 <= w2 + u2 /\ O2 <= b2 - 4 - w2 /\ (b2 - 4 - w2) - O2 + (b2 - 4) <= u2
      <3> HIDE DEF F, O, F2, O2, b, b2, w, w2, u, u2
      <3> QED BY <2>1, <2>2, <1>3, <1>4
    <2> QED BY <2>3, <1>3 DEF HostLoadPart!Balanced
  <1>7. ASSUME r1' = "row", r8' = "no" PROVE HostLoadPart!Balanced(F, O, r6.busy)'
    <2>1. HostLoadPart!Balanced(F, O, a) /\ r1 = "row" /\ a \in Nat
      BY <1>1, <1>7 DEF HostLoadPart!WorkHeld, HostLoadPart!FirstHeld
    <2>2. F <= w + u /\ O <= b - 4 - w /\ (b - 4 - w) - O + (a - 4) <= u
      BY <2>1 DEF HostLoadPart!Balanced
    <2>3. F2 <= w2 + u2 /\ O2 <= b2 - 4 - w2 /\ (b2 - 4 - w2) - O2 + (a - 4) <= u2
      <3> HIDE DEF F, O, F2, O2, a, b, b2, w, w2, u, u2
      <3> QED BY <2>1, <2>2, <1>3, <1>4
    <2> QED BY <2>3, <1>3 DEF HostLoadPart!Balanced
  <1>8. ASSUME r1' = "row", r8' = "busy"
        PROVE  HostLoadPart!SeenOwn(r6, r7)' \in Int /\ HostLoadPart!Balanced(G, N, r6.busy)'
    <2>1. /\ HostLoadPart!Balanced(G, N, a) /\ r1 = "row" /\ a \in Nat /\ r8 = "busy"
          /\ HostLoadPart!SeenOwn(r6, r7) \in Int
      BY <1>1, <1>8 DEF HostLoadPart!WorkHeld, HostLoadPart!FirstHeld
    <2>2. /\ G <= w + u /\ N <= b - 4 - w /\ (b - 4 - w) - N + (a - 4) <= u
          /\ G \in Int /\ N \in Int
      BY <2>1 DEF HostLoadPart!Balanced
    <2>3. G <= w2 + u2 /\ N <= b2 - 4 - w2 /\ (b2 - 4 - w2) - N + (a - 4) <= u2
      <3> HIDE DEF F, O, F2, O2, G, N, a, b, b2, w, w2, u, u2
      <3> QED BY <2>1, <2>2, <1>3, <1>4
    <2>4. /\ G' = G /\ N' = N /\ r6.busy' = a
          /\ HostLoadPart!SeenOwn(r6, r7)' = HostLoadPart!SeenOwn(r6, r7)
      BY <1>5, <2>1
    <2> QED BY <2>1, <2>2, <2>3, <2>4 DEF HostLoadPart!Balanced
  <1>9. HostLoadPart!WorkHeld'
    BY <1>1, <1>6, <1>7, <1>8 DEF HostLoadPart!WorkHeld
  <1>10. HostLoadPart!ForeignIsSeen'
    BY <1>1 DEF HostLoadPart!ForeignIsSeen
  <1> QED BY <1>2, <1>9, <1>10 DEF HostLoadPart!LoadInv

(* What one process, and the counters, moved by.                              *)
LEMMA Moves ==
  ASSUME HostLoadPart!ProcsHeld, NEW p \in LoadProcs,
         NEW d \in Int, NEW c \in Int, NEW e \in Nat, NEW g \in Nat, NEW h \in Nat,
         Used(p)' = Used(p) + d, \A q \in LoadProcs \ {p} : Used(q)' = Used(q),
         r5' = r5 + c, r4' = r4 + e, r9' = r9 + g, r10' = r10 + h, g <= e,
         p \in LoadForeign =>
            d <= g + h /\ c <= e - g /\ (e - g) - c + (IF r1 = "idle" THEN e ELSE 0) <= h,
         p \notin LoadForeign =>
            d + c <= e - g /\ (e - g) - (d + c) + (IF r1 = "idle" THEN e ELSE 0) <= h,
         r8 # "no" => e <= h /\ c = 0, r1 = "idle" => r2'["bfb"] = r2["bfb"]
  PROVE  Accounts
PROOF
  <1> DEFINE F == HostLoadPart!ForeignSince   F2 == HostLoadPart!ForeignSince'
             O == HostLoadPart!OwnSince       O2 == HostLoadPart!OwnSince'
             b == r4     b2 == r4'
             w == r9     w2 == r9'
             u == r10    u2 == r10'
             x == Used(p)  x2 == Used(p)'
             y == r5     y2 == r5'
  <1>1. /\ b \in Int /\ w \in Int /\ u \in Int /\ x \in Int /\ y \in Int
        /\ b2 = b + e /\ w2 = w + g /\ u2 = u + h /\ x2 = x + d /\ y2 = y + c
    BY StrangersAre DEF HostLoadPart!ProcsHeld
  <1>2. x2 \in Int /\ y2 \in Int
    <2> HIDE DEF x, x2, y, y2, b, b2, w, w2, u, u2
    <2> QED BY <1>1
  <1>3. /\ p \in LoadForeign => F2 = F + (x2 - x) /\ O2 = O + (y2 - y)
        /\ p \notin LoadForeign => F2 = F /\ O2 = O + (y2 - y) + (x2 - x)
        /\ F \in Int /\ F2 \in Int /\ O \in Int /\ O2 \in Int
    BY <1>2, SumsMove
  <1>4. /\ u2 >= u /\ w2 >= w /\ b2 - b >= w2 - w
        /\ F2 - F <= (w2 - w) + (u2 - u)
        /\ O2 - O <= (b2 - b) - (w2 - w)
        /\ (b2 - b) - (w2 - w) - (O2 - O) + (IF r1 = "idle" THEN b2 - b ELSE 0) <= u2 - u
        /\ r8 # "no" => b2 - b <= u2 - u
    <2> HIDE DEF F, F2, O, O2, x, x2, y, y2, b, b2, w, w2, u, u2
    <2>1. CASE p \in LoadForeign
      BY <2>1, <1>1, <1>2, <1>3
    <2>2. CASE p \notin LoadForeign
      BY <2>2, <1>1, <1>2, <1>3
    <2> QED BY <2>1, <2>2
  <1>5. r8 # "no" => y2 = y
    <2> HIDE DEF F, F2, O, O2, x, x2, y, y2, b, b2, w, w2, u, u2
    <2> QED BY <1>1
  <1> QED BY <1>3, <1>4, <1>5 DEF Accounts

(* The processes stay what they are.                                          *)
LEMMA StillProcs ==
  ASSUME HostLoadPart!ProcsHeld, NEW p \in LoadProcs, r2' \in [LoadProcs -> Int],
         \A q \in LoadProcs \ {p} : Used(q)' = Used(q) /\ r2'[q] = r2[q],
         Used(p)' >= 0, p = "kthread" => r2'[p] >= 1,
         r3' \in [LoadProcs -> LoadProcs \cup {"other"}],
         \A q \in LoadProcs : r3'[q] = r3[q] \/ (q \in LoadForeign /\ r3'[q] = "other"),
         r4' \in Nat, r5' \in Nat \ {0}, r9' \in Nat, r10' \in Nat
  PROVE  HostLoadPart!ProcsHeld'
PROOF
  <1>1. \A q \in LoadProcs : Used(q)' >= 0
    BY LoadNames DEF HostLoadPart!ProcsHeld, Used
  <1>2. r2'["kthread"] >= 1
    BY DEF LoadProcs, HostLoadPart!ProcsHeld
  <1>3. \A q \in LoadProcs : r3'[q] = q \/ (q \in LoadForeign /\ r3'[q] = "other")
    BY LoadNames DEF HostLoadPart!ProcsHeld
  <1> QED BY <1>1, <1>2, <1>3, LoadNames DEF HostLoadPart!ProcsHeld, Used

LEMMA StepBurst ==
  ASSUME HostLoadPart!LoadInv, HostLoadPart!Burst
  PROVE  HostLoadPart!LoadInv'
PROOF
  <1>1. PICK p \in HostLoadPart!Running :
            /\ r2' = [r2 EXCEPT ![p] = @ + 1]
            /\ r9' = r9 + (IF HostLoadPart!Strange(r3[p]) THEN 1 ELSE 0)
            /\ r10' = r10 + (IF r8 # "no" THEN 1 ELSE 0)
    BY DEF HostLoadPart!Burst
  <1>2. /\ HostLoadPart!InRow /\ r4' = r4 + 1
        /\ UNCHANGED <<r1, r3, r5, r6, r7, r8, r11>>
    BY DEF HostLoadPart!Burst
  <1>3. HostLoadPart!ProcsHeld /\ HostLoadPart!FirstHeld
    BY DEF HostLoadPart!LoadInv
  <1>4. p \in LoadProcs /\ r2[p] >= 0
    BY LoadNames DEF HostLoadPart!Running
  <1>5. /\ HostLoadPart!Strange(r3[p]) <=> p \in LoadForeign
        /\ Used(p) \in Nat /\ r2[p] \in Int
        /\ Used(p) = r2[p] - (IF p # "bfb" /\ r3[p] = p THEN 1 ELSE 0)
    BY <1>3, <1>4, StrangersAre
  <1> DEFINE n == r2[p] + 1
  <1>6. n \in Int /\ n >= 0 /\ n >= 1 /\ r2' = [r2 EXCEPT ![p] = n]
    BY <1>1, <1>4, <1>5
  <1>7. /\ r2' \in [LoadProcs -> Int] /\ r2'[p] = n
        /\ \A q \in LoadProcs \ {p} : Used(q)' = Used(q) /\ r2'[q] = r2[q]
        /\ n >= 0 => Used(p)' = n - (IF p # "bfb" /\ r3'[p] = p THEN 1 ELSE 0)
    <2> HIDE DEF n
    <2> QED BY <1>2, <1>3, <1>4, <1>6, OneMoves
  <1>8. Used(p)' = Used(p) + 1
    BY <1>2, <1>5, <1>6, <1>7
  <1>9. HostLoadPart!ProcsHeld'
    <2>1. Used(p)' >= 0
      BY <1>5, <1>8
    <2>2. r4' \in Nat /\ r5' \in Nat \ {0} /\ r9' \in Nat /\ r10' \in Nat
      BY <1>1, <1>2, <1>3 DEF HostLoadPart!ProcsHeld
    <2>3. r3' \in [LoadProcs -> LoadProcs \cup {"other"}]
      BY <1>2, <1>3, LoadNames DEF HostLoadPart!ProcsHeld
    <2> QED BY <1>2, <1>3, <1>4, <1>6, <1>7, <2>1, <2>2, <2>3, StillProcs
  <1>10. Accounts
    <2> DEFINE g == IF HostLoadPart!Strange(r3[p]) THEN 1 ELSE 0
               h == IF r8 # "no" THEN 1 ELSE 0
    <2>1. /\ g \in Nat /\ h \in Nat /\ g <= 1 /\ (p \in LoadForeign => g = 1)
          /\ (p \notin LoadForeign => g = 0)
      BY <1>5
    <2>2. r1 = "idle" => h = 1
      BY <1>2 DEF HostLoadPart!InRow
    <2>3. r8 # "no" => h = 1
      OBVIOUS
    <2>4. r1 = "idle" => r2'["bfb"] = r2["bfb"]
      BY <1>3, <1>4, <1>7 DEF HostLoadPart!FirstHeld, LoadProcs
    <2>5. r5' = r5 + 0 /\ r4' = r4 + 1 /\ r9' = r9 + g /\ r10' = r10 + h
      BY <1>1, <1>2, <1>3 DEF HostLoadPart!ProcsHeld
    <2> HIDE DEF g, h
    <2> QED BY <1>3, <1>4, <1>7, <1>8, <2>1, <2>2, <2>3, <2>4, <2>5, Moves
  <1> QED BY <1>2, <1>9, <1>10, Within

LEMMA StepChild ==
  ASSUME HostLoadPart!LoadInv, HostLoadPart!ChildStarts \/ HostLoadPart!ChildReaped
  PROVE  HostLoadPart!LoadInv'
PROOF
  <1> DEFINE p == "bfb"
             n == IF HostLoadPart!ChildStarts THEN 0 ELSE -1
             c == IF HostLoadPart!ChildStarts THEN 0 ELSE r2[p]
  <1>1. /\ HostLoadPart!InRow /\ r1 = "row" /\ r8 = "no"
        /\ UNCHANGED <<r1, r3, r4, r6, r7, r8, r9, r10, r11>>
    BY DEF HostLoadPart!ChildStarts, HostLoadPart!ChildReaped, HostLoadPart!InRow
  <1>2. HostLoadPart!ProcsHeld
    BY DEF HostLoadPart!LoadInv
  <1>3. /\ p \in LoadProcs /\ p \notin LoadForeign /\ p # "kthread" /\ Used(p) \in Nat
        /\ r2[p] \in Int /\ (r2[p] >= 0 => Used(p) = r2[p]) /\ (r2[p] < 0 => Used(p) = 0)
    BY <1>2, StrangersAre DEF LoadProcs, LoadForeign
  <1>4. r2' = [r2 EXCEPT ![p] = n] /\ r5' = r5 + c /\ c = Used(p) /\ c \in Nat
    BY <1>2, <1>3 DEF HostLoadPart!ChildStarts, HostLoadPart!ChildReaped, HostLoadPart!ProcsHeld
  <1>5. n \in Int /\ (n = 0 \/ n < 0)
    OBVIOUS
  <1>6. /\ r2' \in [LoadProcs -> Int] /\ Used(p)' = 0
        /\ \A q \in LoadProcs \ {p} : Used(q)' = Used(q) /\ r2'[q] = r2[q]
    <2>1. /\ r2' \in [LoadProcs -> Int] /\ r2'[p] = n
          /\ \A q \in LoadProcs \ {p} : Used(q)' = Used(q) /\ r2'[q] = r2[q]
          /\ n < 0 => Used(p)' = 0
          /\ n >= 0 => Used(p)' = n - (IF p # "bfb" /\ r3'[p] = p THEN 1 ELSE 0)
      <3> HIDE DEF n, p
      <3> QED BY <1>1, <1>2, <1>3, <1>4, <1>5, OneMoves
    <2> QED BY <2>1, <1>5
  <1>7. HostLoadPart!ProcsHeld'
    <2>1. Used(p)' >= 0
      BY <1>6
    <2>2. r4' \in Nat /\ r5' \in Nat \ {0} /\ r9' \in Nat /\ r10' \in Nat
      <3> HIDE DEF c, n, p
      <3> QED BY <1>1, <1>2, <1>4 DEF HostLoadPart!ProcsHeld
    <2>3. r3' \in [LoadProcs -> LoadProcs \cup {"other"}]
      BY <1>1, <1>2, LoadNames DEF HostLoadPart!ProcsHeld
    <2> HIDE DEF c, n, p
    <2> QED BY <1>1, <1>2, <1>3, <1>6, <2>1, <2>2, <2>3, StillProcs
  <1>8. Accounts
    <2> DEFINE d == 0 - Used(p)
    <2>1. d \in Int /\ c \in Int /\ Used(p)' = Used(p) + d /\ d + c = 0 /\ d <= 0
      BY <1>3, <1>4, <1>6
    <2>2. r4' = r4 + 0 /\ r9' = r9 + 0 /\ r10' = r10 + 0 /\ r1 # "idle" /\ r8 = "no"
      BY <1>1, <1>2 DEF HostLoadPart!ProcsHeld
    <2> HIDE DEF c, n, p, d
    <2> QED BY <1>2, <1>3, <1>4, <1>6, <2>1, <2>2, Moves
  <1> QED BY <1>1, <1>7, <1>8, Within

LEMMA StepExits ==
  ASSUME HostLoadPart!LoadInv, HostLoadPart!Exits
  PROVE  HostLoadPart!LoadInv'
PROOF
  <1>1. PICK p \in HostLoadPart!Running \ {"bfb", "kthread"} :
            /\ r2' = [r2 EXCEPT ![p] = -1]
            /\ r10' = r10 + (IF HostLoadPart!Strange(r3[p]) THEN 0 ELSE r2[p] - r6.procs[p])
    BY DEF HostLoadPart!Exits
  <1>2. /\ HostLoadPart!InRow /\ UNCHANGED <<r1, r3, r4, r5, r6, r7, r8, r9, r11>>
    BY DEF HostLoadPart!Exits, HostLoadPart!Event
  <1>3. HostLoadPart!ProcsHeld /\ HostLoadPart!FirstHeld
    BY DEF HostLoadPart!LoadInv
  <1>4. p \in LoadProcs /\ r2[p] >= 0 /\ p # "bfb" /\ p # "kthread"
    BY LoadNames DEF HostLoadPart!Running
  <1>5. /\ HostLoadPart!Strange(r3[p]) <=> p \in LoadForeign
        /\ Used(p) \in Nat /\ r2[p] \in Int
        /\ Used(p) = r2[p] - (IF p # "bfb" /\ r3[p] = p THEN 1 ELSE 0)
    BY <1>3, <1>4, StrangersAre
  <1>6. /\ r2' \in [LoadProcs -> Int] /\ Used(p)' = 0
        /\ \A q \in LoadProcs \ {p} : Used(q)' = Used(q) /\ r2'[q] = r2[q]
    <2> DEFINE n == -1
    <2>1. n \in Int /\ n < 0 /\ r2' = [r2 EXCEPT ![p] = n]
      BY <1>1
    <2>2. \A q \in LoadProcs \ {p} : r3'[q] = r3[q]
      BY <1>2
    <2> HIDE DEF n
    <2> QED BY <2>1, <2>2, <1>3, <1>4, OneMoves
  <1>7. p \notin LoadForeign => r3[p] = p /\ r6.procs[p] = 1
    <2>1. r1 # "idle" \/ r8 # "no"
      BY <1>2 DEF HostLoadPart!InRow
    <2>2. r6.procs = HostLoadPart!Found
      BY <1>3, <2>1 DEF HostLoadPart!FirstHeld
    <2>3. r6.procs[p] = 1
      BY <2>2, <1>4, LoadNames DEF HostLoadPart!Found
    <2>4. p \notin LoadForeign => r3[p] = p
      BY <1>3, <1>4, LoadNames DEF HostLoadPart!ProcsHeld
    <2> QED BY <2>3, <2>4
  <1> DEFINE h == IF p \in LoadForeign THEN 0 ELSE Used(p)
             d == 0 - Used(p)
  <1>8. h \in Nat /\ d \in Int /\ Used(p)' = Used(p) + d /\ r10' = r10 + h
    BY <1>1, <1>4, <1>5, <1>6, <1>7
  <1>9. HostLoadPart!ProcsHeld'
    <2>1. Used(p)' >= 0
      BY <1>6
    <2>2. r4' \in Nat /\ r5' \in Nat \ {0} /\ r9' \in Nat /\ r10' \in Nat
      <3> HIDE DEF h
      <3> QED BY <1>2, <1>3, <1>8 DEF HostLoadPart!ProcsHeld
    <2>3. r3' \in [LoadProcs -> LoadProcs \cup {"other"}]
      BY <1>2, <1>3, LoadNames DEF HostLoadPart!ProcsHeld
    <2> QED BY <1>2, <1>3, <1>4, <1>6, <2>1, <2>2, <2>3, StillProcs
  <1>10. Accounts
    <2>1. /\ p \in LoadForeign => h = 0 /\ d <= 0
          /\ p \notin LoadForeign => d <= 0 /\ 0 - d <= h
      BY <1>5
    <2>2. r4' = r4 + 0 /\ r9' = r9 + 0 /\ r5' = r5 + 0
      BY <1>2, <1>3 DEF HostLoadPart!ProcsHeld
    <2>3. r2'["bfb"] = r2["bfb"]
      BY <1>4, <1>6 DEF LoadProcs
    <2> HIDE DEF h, d
    <2> QED BY <1>3, <1>4, <1>6, <1>8, <2>1, <2>2, <2>3, Moves
  <1> QED BY <1>2, <1>9, <1>10, Within

LEMMA StepStarts ==
  ASSUME HostLoadPart!LoadInv, HostLoadPart!Starts
  PROVE  HostLoadPart!LoadInv'
PROOF
  <1>1. PICK p \in HostLoadPart!Foreign \ HostLoadPart!Running :
            r2' = [r2 EXCEPT ![p] = 0] /\ r3' = [r3 EXCEPT ![p] = "other"]
    BY DEF HostLoadPart!Starts
  <1>2. /\ HostLoadPart!InRow /\ UNCHANGED <<r1, r4, r5, r6, r7, r8, r9, r10, r11>>
    BY DEF HostLoadPart!Starts, HostLoadPart!Event
  <1>3. HostLoadPart!ProcsHeld /\ HostLoadPart!FirstHeld
    BY DEF HostLoadPart!LoadInv
  <1>4. p \in LoadProcs /\ p \in LoadForeign /\ ~(r2[p] >= 0) /\ p # "bfb" /\ p # "kthread"
    BY <1>1, LoadNames DEF HostLoadPart!Running, LoadForeign, LoadProcs
  <1>5. Used(p) = 0
    BY <1>3, <1>4, StrangersAre
  <1>6. /\ r3' \in [LoadProcs -> LoadProcs \cup {"other"}] /\ r3'[p] = "other"
        /\ \A q \in LoadProcs \ {p} : r3'[q] = r3[q]
    BY <1>1, <1>3, <1>4, LoadNames DEF HostLoadPart!ProcsHeld
  <1>7. /\ r2' \in [LoadProcs -> Int] /\ Used(p)' = 0
        /\ \A q \in LoadProcs \ {p} : Used(q)' = Used(q) /\ r2'[q] = r2[q]
    <2>1. p # "other"
      BY <1>4 DEF LoadProcs
    <2> DEFINE n == 0
    <2>2. n \in Int /\ n = 0 /\ r2' = [r2 EXCEPT ![p] = n]
      BY <1>1
    <2> HIDE DEF n
    <2>3. /\ r2' \in [LoadProcs -> Int]
          /\ \A q \in LoadProcs \ {p} : Used(q)' = Used(q) /\ r2'[q] = r2[q]
          /\ n >= 0 => Used(p)' = n - (IF p # "bfb" /\ r3'[p] = p THEN 1 ELSE 0)
      BY <1>3, <1>4, <1>6, <2>2, OneMoves
    <2> QED BY <1>6, <2>1, <2>2, <2>3
  <1>8. HostLoadPart!ProcsHeld'
    <2>1. Used(p)' >= 0
      BY <1>7
    <2>2. r4' \in Nat /\ r5' \in Nat \ {0} /\ r9' \in Nat /\ r10' \in Nat
      BY <1>2, <1>3 DEF HostLoadPart!ProcsHeld
    <2> QED BY <1>3, <1>4, <1>6, <1>7, <2>1, <2>2, StillProcs
  <1>9. Accounts
    <2> DEFINE z == 0
    <2>1. /\ r4' = r4 + z /\ r9' = r9 + z /\ r10' = r10 + z /\ r5' = r5 + z
          /\ Used(p)' = Used(p) + z /\ z \in Nat /\ z = 0
      BY <1>2, <1>3, <1>5, <1>7 DEF HostLoadPart!ProcsHeld
    <2>2. r2'["bfb"] = r2["bfb"]
      BY <1>4, <1>7 DEF LoadProcs
    <2> HIDE DEF z
    <2> QED BY <1>3, <1>4, <1>7, <2>1, <2>2, Moves
  <1> QED BY <1>2, <1>8, <1>9, Within

LEMMA StepExecs ==
  ASSUME HostLoadPart!LoadInv, HostLoadPart!Execs
  PROVE  HostLoadPart!LoadInv'
PROOF
  <1>1. PICK p \in HostLoadPart!Foreign \cap HostLoadPart!Running :
            /\ r3' = [r3 EXCEPT ![p] = "other"]
            /\ r10' = r10 + (IF p \in DOMAIN r6.procs THEN r6.procs[p] ELSE 0)
    BY DEF HostLoadPart!Execs
  <1>2. /\ HostLoadPart!InRow /\ UNCHANGED <<r1, r2, r4, r5, r6, r7, r8, r9, r11>>
    BY DEF HostLoadPart!Execs, HostLoadPart!Event
  <1>3. HostLoadPart!ProcsHeld /\ HostLoadPart!FirstHeld
    BY DEF HostLoadPart!LoadInv
  <1>4. p \in LoadProcs /\ p \in LoadForeign /\ r2[p] >= 0 /\ p # "bfb" /\ p # "kthread"
    BY <1>1, LoadNames DEF HostLoadPart!Running, LoadForeign, LoadProcs
  <1>5. /\ Used(p) \in Nat /\ r2[p] \in Int
        /\ Used(p) = r2[p] - (IF r3[p] = p THEN 1 ELSE 0)
    BY <1>3, <1>4, StrangersAre
  <1>6. /\ r3' \in [LoadProcs -> LoadProcs \cup {"other"}] /\ r3'[p] = "other"
        /\ \A q \in LoadProcs \ {p} : r3'[q] = r3[q]
    BY <1>1, <1>3, <1>4, LoadNames DEF HostLoadPart!ProcsHeld
  <1>7. /\ r2' \in [LoadProcs -> Int] /\ Used(p)' = r2[p]
        /\ \A q \in LoadProcs \ {p} : Used(q)' = Used(q) /\ r2'[q] = r2[q]
    <2>1. p # "other"
      BY <1>4 DEF LoadProcs
    <2> DEFINE n == r2[p]
    <2>2. r2' = [r2 EXCEPT ![p] = n] /\ n \in Int /\ n >= 0
      BY <1>2, <1>3, <1>4, <1>5, LoadNames DEF HostLoadPart!ProcsHeld
    <2> HIDE DEF n
    <2>3. /\ r2' \in [LoadProcs -> Int]
          /\ \A q \in LoadProcs \ {p} : Used(q)' = Used(q) /\ r2'[q] = r2[q]
          /\ n >= 0 => Used(p)' = n - (IF p # "bfb" /\ r3'[p] = p THEN 1 ELSE 0)
      BY <1>3, <1>4, <1>6, <2>2, OneMoves
    <2> QED BY <1>6, <2>1, <2>2, <2>3 DEF n
  <1>8. r10' = r10 + 1
    <2>1. r1 # "idle" \/ r8 # "no"
      BY <1>2 DEF HostLoadPart!InRow
    <2>2. r6.procs = HostLoadPart!Found
      BY <1>3, <2>1 DEF HostLoadPart!FirstHeld
    <2> QED BY <2>2, <1>1, <1>4, LoadNames DEF HostLoadPart!Found
  <1> DEFINE d == r2[p] - Used(p)
  <1>9. d \in Int /\ d <= 1 /\ Used(p)' = Used(p) + d
    BY <1>5, <1>7
  <1>10. HostLoadPart!ProcsHeld'
    <2>1. Used(p)' >= 0
      BY <1>4, <1>7
    <2>2. r4' \in Nat /\ r5' \in Nat \ {0} /\ r9' \in Nat /\ r10' \in Nat
      BY <1>2, <1>3, <1>8 DEF HostLoadPart!ProcsHeld
    <2> QED BY <1>3, <1>4, <1>6, <1>7, <2>1, <2>2, StillProcs
  <1>11. Accounts
    <2> DEFINE z == 0
               h == 1
    <2>1. /\ r4' = r4 + z /\ r9' = r9 + z /\ r5' = r5 + z /\ z \in Nat /\ z = 0
          /\ r10' = r10 + h /\ h \in Nat /\ h = 1
      BY <1>2, <1>3, <1>8 DEF HostLoadPart!ProcsHeld
    <2>2. r2'["bfb"] = r2["bfb"]
      BY <1>2
    <2> HIDE DEF d, z, h
    <2> QED BY <1>3, <1>4, <1>7, <1>9, <2>1, <2>2, Moves
  <1> QED BY <1>2, <1>10, <1>11, Within

(* A sample's processes, as they are; the sums over them only look at those.  *)
TakenNow(b) ==
  /\ b.procs = [p \in HostLoadPart!Running |-> r2[p]]
  /\ b.cmds = [p \in HostLoadPart!Running |-> r3[p]]

LEMMA SeenOfEach ==
  ASSUME HostLoadPart!ProcsHeld, r6.procs = HostLoadPart!Found,
         r6.cmds = HostLoadPart!FoundCmds, NEW b, TakenNow(b), NEW p \in LoadProcs
  PROVE  /\ p \in DOMAIN b.procs <=> r2[p] >= 0
         /\ p \in HostLoadPart!Strangers(b) <=> r2[p] >= 0 /\ p \in LoadForeign
         /\ r2[p] >= 0 => HostLoadPart!During(r6, b, p) = Used(p)
         /\ ~(r2[p] >= 0) => Used(p) = 0
PROOF
  <1>1. /\ r2[p] \in Int /\ Used(p) \in Nat /\ (HostLoadPart!Strange(r3[p]) <=> p \in LoadForeign)
        /\ r2[p] >= 0 => Used(p) = r2[p] - (IF p # "bfb" /\ r3[p] = p THEN 1 ELSE 0)
        /\ r2[p] < 0 => Used(p) = 0
    BY StrangersAre
  <1>2. /\ p \in DOMAIN b.procs <=> r2[p] >= 0
        /\ r2[p] >= 0 => b.procs[p] = r2[p] /\ b.cmds[p] = r3[p]
    BY LoadNames DEF TakenNow, HostLoadPart!Running
  <1>3. p \in HostLoadPart!Strangers(b) <=> r2[p] >= 0 /\ p \in LoadForeign
    BY <1>1, <1>2 DEF HostLoadPart!Strangers
  <1>4. ASSUME r2[p] >= 0 PROVE HostLoadPart!During(r6, b, p) = Used(p)
    <2>1. /\ p \in DOMAIN r6.procs <=> p # "bfb"
          /\ p # "bfb" => r6.procs[p] = 1 /\ r6.cmds[p] = p
      BY LoadNames DEF HostLoadPart!Found, HostLoadPart!FoundCmds
    <2>2. HostLoadPart!Earlier(r6, b, p) = IF p # "bfb" /\ r3[p] = p THEN 1 ELSE 0
      BY <2>1, <1>2, <1>4 DEF HostLoadPart!Earlier
    <2>3. b.procs[p] - HostLoadPart!Earlier(r6, b, p) = Used(p)
      BY <2>2, <1>1, <1>2, <1>4
    <2> QED BY <2>3, <1>1 DEF HostLoadPart!During, HostLoadPart!Larger
  <1> QED BY <1>1, <1>2, <1>3, <1>4

LEMMA SeenIsSince ==
  ASSUME HostLoadPart!ProcsHeld, r6.procs = HostLoadPart!Found,
         r6.cmds = HostLoadPart!FoundCmds, NEW b, TakenNow(b)
  PROVE  /\ HostLoadPart!SeenForeign(r6, b) = HostLoadPart!ForeignSince
         /\ HostLoadPart!SeenOwn(r6, b) + r5 - 1 = HostLoadPart!OwnSince
         /\ HostLoadPart!SeenOwn(r6, b) \in Int
PROOF
  <1> DEFINE S == HostLoadPart!Strangers(b)
             D == DOMAIN b.procs
             Part(p, X) == IF p \in X THEN HostLoadPart!During(r6, b, p) ELSE 0
  <1>1. \A p \in LoadProcs : Used(p) \in Nat
    BY StrangersAre
  <1>2. ASSUME NEW p \in LoadProcs
        PROVE  /\ Part(p, S) = IF p \in LoadForeign THEN Used(p) ELSE 0
               /\ Part(p, D \ S) = IF p \in LoadForeign THEN 0 ELSE Used(p)
    <2>1. /\ p \in D <=> r2[p] >= 0
          /\ p \in S <=> r2[p] >= 0 /\ p \in LoadForeign
          /\ r2[p] >= 0 => HostLoadPart!During(r6, b, p) = Used(p)
          /\ ~(r2[p] >= 0) => Used(p) = 0
      BY SeenOfEach
    <2> HIDE DEF S, D
    <2> QED BY <2>1
  <1>3. /\ "engine" \in LoadProcs \ LoadForeign /\ "bfb" \in LoadProcs \ LoadForeign
        /\ "kthread" \in LoadProcs \ LoadForeign
        /\ "rustc" \in LoadProcs /\ "rustc" \in LoadForeign
        /\ "editor" \in LoadProcs /\ "editor" \in LoadForeign
    BY DEF LoadProcs, LoadForeign
  <1>4. /\ HostLoadPart!SeenForeign(r6, b)
              = Part("engine", S) + Part("bfb", S) + Part("kthread", S)
                + Part("rustc", S) + Part("editor", S)
        /\ HostLoadPart!SeenOwn(r6, b)
              = Part("engine", D \ S) + Part("bfb", D \ S) + Part("kthread", D \ S)
                + Part("rustc", D \ S) + Part("editor", D \ S)
    BY DEF HostLoadPart!SeenForeign, HostLoadPart!SeenOwn, HostLoadPart!SumOver
  <1>5. /\ Part("engine", S) = 0 /\ Part("bfb", S) = 0 /\ Part("kthread", S) = 0
        /\ Part("rustc", S) = Used("rustc") /\ Part("editor", S) = Used("editor")
        /\ Part("engine", D \ S) = Used("engine") /\ Part("bfb", D \ S) = Used("bfb")
        /\ Part("kthread", D \ S) = Used("kthread")
        /\ Part("rustc", D \ S) = 0 /\ Part("editor", D \ S) = 0
    <2> HIDE DEF Part
    <2> QED BY <1>2, <1>3
  <1>6. /\ Used("engine") \in Nat /\ Used("bfb") \in Nat /\ Used("kthread") \in Nat
        /\ Used("rustc") \in Nat /\ Used("editor") \in Nat /\ r5 \in Nat
    BY <1>1, <1>3 DEF HostLoadPart!ProcsHeld
  <1>7. /\ HostLoadPart!SeenForeign(r6, b) = Used("rustc") + Used("editor")
        /\ HostLoadPart!SeenOwn(r6, b) = Used("engine") + Used("bfb") + Used("kthread")
    <2> HIDE DEF Part
    <2> QED BY <1>4, <1>5, <1>6
  <1> QED BY <1>6, <1>7 DEF HostLoadPart!ForeignSince, HostLoadPart!OwnSince, Used

(* What a sample sees does not depend on the machine's own counters.          *)
LEMMA SeenByProcs ==
  ASSUME NEW a, NEW a2, NEW b, NEW b2, a2.procs = a.procs, a2.cmds = a.cmds,
         b2.procs = b.procs, b2.cmds = b.cmds
  PROVE  /\ HostLoadPart!SeenForeign(a2, b2) = HostLoadPart!SeenForeign(a, b)
         /\ HostLoadPart!SeenOwn(a2, b2) = HostLoadPart!SeenOwn(a, b)
PROOF
  <1>1. HostLoadPart!Strangers(b2) = HostLoadPart!Strangers(b)
    BY DEF HostLoadPart!Strangers
  <1>2. \A p : HostLoadPart!During(a2, b2, p) = HostLoadPart!During(a, b, p)
    BY DEF HostLoadPart!During, HostLoadPart!Earlier
  <1>3. \A X : HostLoadPart!SumOver(a2, b2, X) = HostLoadPart!SumOver(a, b, X)
    BY <1>2 DEF HostLoadPart!SumOver
  <1> QED BY <1>1, <1>3 DEF HostLoadPart!SeenForeign, HostLoadPart!SeenOwn

LEMMA StepReadProcs ==
  ASSUME HostLoadPart!LoadInv, HostLoadPart!ReadProcs
  PROVE  HostLoadPart!LoadInv'
PROOF
  <1> DEFINE got == [HostLoadPart!NoSample EXCEPT
                       !.procs = [p \in HostLoadPart!Running |-> r2[p]],
                       !.cmds = [p \in HostLoadPart!Running |-> r3[p]]]
  <1>1. /\ r8 = "no" /\ r1 \in {"idle", "row"} /\ r8' = "busy"
        /\ r1 = "idle" => r6' = got /\ r7' = r7
        /\ r1 # "idle" => r7' = got /\ r6' = r6
        /\ UNCHANGED <<r1, r2, r3, r4, r5, r9, r10, r11>>
    BY DEF HostLoadPart!ReadProcs
  <1>2. HostLoadPart!ProcsHeld /\ HostLoadPart!FirstHeld /\ HostLoadPart!WorkHeld
    BY DEF HostLoadPart!LoadInv
  <1>3. DOMAIN got = HostLoadPart!Fields /\ TakenNow(got)
    BY DEF HostLoadPart!NoSample, HostLoadPart!Fields, TakenNow
  <1>4. HostLoadPart!ProcsHeld'
    <2>1. \A p : HostLoadPart!Since(p)' = HostLoadPart!Since(p)
      BY <1>1 DEF HostLoadPart!Since
    <2> QED BY <1>1, <1>2, <2>1 DEF HostLoadPart!ProcsHeld
  <1>5. UNCHANGED <<HostLoadPart!ForeignSince, HostLoadPart!OwnSince>>
    BY <1>1 DEF HostLoadPart!ForeignSince, HostLoadPart!OwnSince, HostLoadPart!Since
  <1> HIDE DEF got
  <1>6. CASE r1 = "idle"
    <2>1. got.procs = HostLoadPart!Found /\ got.cmds = HostLoadPart!FoundCmds
      <3>1. /\ r2 = [p \in HostLoadPart!Procs |-> IF p = "bfb" THEN -1 ELSE 1]
            /\ r3 = [p \in HostLoadPart!Procs |-> p]
        BY <1>1, <1>2, <1>6 DEF HostLoadPart!FirstHeld
      <3>2. HostLoadPart!Running = HostLoadPart!Procs \ {"bfb"}
        BY <3>1 DEF HostLoadPart!Running
      <3>3. \A p \in HostLoadPart!Running : r2[p] = 1 /\ r3[p] = p
        BY <3>1, <3>2
      <3> QED BY <1>3, <3>2, <3>3 DEF TakenNow, HostLoadPart!Found, HostLoadPart!FoundCmds
    <2>2. HostLoadPart!FirstHeld'
      BY <1>1, <1>2, <1>3, <1>6, <2>1 DEF HostLoadPart!FirstHeld
    <2>3. HostLoadPart!WorkHeld'
      <3>1. HostLoadPart!Balanced(HostLoadPart!ForeignSince, HostLoadPart!OwnSince, r4)
        BY <1>2, <1>6 DEF HostLoadPart!WorkHeld
      <3>2. HostLoadPart!Balanced(HostLoadPart!ForeignSince, HostLoadPart!OwnSince, r4)'
        BY <3>1, <1>1, <1>5 DEF HostLoadPart!Balanced
      <3> QED BY <3>2, <1>1, <1>6 DEF HostLoadPart!WorkHeld
    <2> QED BY <1>1, <1>4, <1>6, <2>2, <2>3
            DEF HostLoadPart!LoadInv, HostLoadPart!ForeignIsSeen
  <1>7. CASE r1 = "row"
    <2>1. /\ r6.procs = HostLoadPart!Found /\ r6.cmds = HostLoadPart!FoundCmds
          /\ r7' = got /\ r6' = r6
      BY <1>1, <1>2, <1>7 DEF HostLoadPart!FirstHeld
    <2>2. HostLoadPart!FirstHeld'
      BY <1>1, <1>2, <1>3, <1>7, <2>1 DEF HostLoadPart!FirstHeld
    <2>3. /\ HostLoadPart!SeenForeign(r6, got) = HostLoadPart!ForeignSince
          /\ HostLoadPart!SeenOwn(r6, got) + r5 - 1 = HostLoadPart!OwnSince
          /\ HostLoadPart!SeenOwn(r6, got) \in Int
      BY <1>2, <1>3, <2>1, SeenIsSince
    <2>4. HostLoadPart!WorkHeld'
      <3>1. HostLoadPart!Balanced(HostLoadPart!ForeignSince, HostLoadPart!OwnSince, r6.busy)
        BY <1>1, <1>2, <1>7 DEF HostLoadPart!WorkHeld
      <3>2. HostLoadPart!Balanced(HostLoadPart!SeenForeign(r6, r7),
                                  HostLoadPart!SeenOwn(r6, r7) + r5 - 1, r6.busy)'
        BY <3>1, <1>1, <2>1, <2>3 DEF HostLoadPart!Balanced
      <3>3. HostLoadPart!SeenOwn(r6, r7)' \in Int
        BY <2>1, <2>3
      <3> QED BY <3>2, <3>3, <1>1, <1>7 DEF HostLoadPart!WorkHeld
    <2> QED BY <1>1, <1>4, <1>7, <2>2, <2>4
            DEF HostLoadPart!LoadInv, HostLoadPart!ForeignIsSeen
  <1> QED BY <1>1, <1>6, <1>7

LEMMA StepReadBusy ==
  ASSUME HostLoadPart!LoadInv, HostLoadPart!ReadBusy
  PROVE  HostLoadPart!LoadInv'
PROOF
  <1>1. /\ r8 = "busy" /\ r8' = "no"
        /\ r1 = "idle" => /\ r6' = [r6 EXCEPT !.busy = r4, !.children = r5]
                          /\ r7' = r7 /\ r1' = "row"
        /\ r1 # "idle" => /\ r7' = [r7 EXCEPT !.busy = r4, !.children = r5]
                          /\ r6' = r6 /\ r1' = "after"
        /\ UNCHANGED <<r2, r3, r4, r5, r9, r10, r11>>
    BY DEF HostLoadPart!ReadBusy
  <1>2. HostLoadPart!ProcsHeld /\ HostLoadPart!FirstHeld /\ HostLoadPart!WorkHeld
    BY DEF HostLoadPart!LoadInv
  <1>3. r1 = "idle" \/ r1 = "row"
    BY <1>1, <1>2 DEF HostLoadPart!FirstHeld
  <1>4. HostLoadPart!ProcsHeld'
    <2>1. \A p : HostLoadPart!Since(p)' = HostLoadPart!Since(p)
      BY <1>1 DEF HostLoadPart!Since
    <2> QED BY <1>1, <1>2, <2>1 DEF HostLoadPart!ProcsHeld
  <1>5. UNCHANGED <<HostLoadPart!ForeignSince, HostLoadPart!OwnSince>>
    BY <1>1 DEF HostLoadPart!ForeignSince, HostLoadPart!OwnSince, HostLoadPart!Since
  <1>6. CASE r1 = "idle"
    <2>1. /\ DOMAIN r6 = HostLoadPart!Fields /\ r5 = 1 /\ r4 \in Nat
          /\ r6.procs = HostLoadPart!Found /\ r6.cmds = HostLoadPart!FoundCmds
      BY <1>1, <1>2, <1>6 DEF HostLoadPart!FirstHeld, HostLoadPart!ProcsHeld
    <2>2. /\ DOMAIN r6' = HostLoadPart!Fields /\ r6.busy' = r4 /\ r6.children' = r5
          /\ r6.procs' = HostLoadPart!Found /\ r6.cmds' = HostLoadPart!FoundCmds
      BY <2>1, <1>1, <1>6, LoadNames
    <2>3. HostLoadPart!Balanced(HostLoadPart!ForeignSince, HostLoadPart!OwnSince, r4)
      BY <1>2, <1>6 DEF HostLoadPart!WorkHeld
    <2>4. r4 >= 4
      <3>1. /\ Used("engine") \in Nat /\ Used("bfb") \in Nat /\ Used("kthread") \in Nat
            /\ r5 = 1 /\ r9 \in Nat
        BY <1>2, <2>1, StrangersAre DEF LoadProcs, HostLoadPart!ProcsHeld
      <3>2. HostLoadPart!OwnSince >= 0 /\ HostLoadPart!OwnSince \in Int
        BY <3>1 DEF HostLoadPart!OwnSince, Used
      <3>3. HostLoadPart!OwnSince <= r4 - 4 - r9
        BY <2>3 DEF HostLoadPart!Balanced
      <3> QED BY <2>1, <3>1, <3>2, <3>3
    <2>5. HostLoadPart!FirstHeld'
      BY <1>1, <1>6, <2>1, <2>2, <2>4 DEF HostLoadPart!FirstHeld
    <2>6. HostLoadPart!WorkHeld'
      <3>1. HostLoadPart!Balanced(HostLoadPart!ForeignSince, HostLoadPart!OwnSince, r6.busy)'
        BY <2>2, <2>3, <1>1, <1>5 DEF HostLoadPart!Balanced
      <3> QED BY <3>1, <1>1, <1>6 DEF HostLoadPart!WorkHeld
    <2> QED BY <1>1, <1>4, <1>6, <2>5, <2>6
            DEF HostLoadPart!LoadInv, HostLoadPart!ForeignIsSeen
  <1>7. CASE r1 = "row"
    <2>1. DOMAIN r7 = HostLoadPart!Fields
      BY <1>1, <1>2, <1>7 DEF HostLoadPart!FirstHeld
    <2>2. /\ r7.busy' = r4 /\ r7.children' = r5 /\ r7.procs' = r7.procs
          /\ r7.cmds' = r7.cmds /\ r6' = r6
      BY <2>1, <1>1, <1>7, LoadNames
    <2>3. /\ HostLoadPart!SeenForeign(r6, r7)' = HostLoadPart!SeenForeign(r6, r7)
          /\ HostLoadPart!SeenOwn(r6, r7)' = HostLoadPart!SeenOwn(r6, r7)
      BY <2>2, SeenByProcs
    <2>4. HostLoadPart!FirstHeld'
      BY <1>1, <1>2, <1>7, <2>2 DEF HostLoadPart!FirstHeld
    <2>5. HostLoadPart!WorkHeld'
      <3>1. /\ HostLoadPart!Balanced(HostLoadPart!SeenForeign(r6, r7),
                                     HostLoadPart!SeenOwn(r6, r7) + r5 - 1, r6.busy)
            /\ HostLoadPart!SeenOwn(r6, r7) \in Int
        BY <1>1, <1>2, <1>7 DEF HostLoadPart!WorkHeld
      <3>2. HostLoadPart!Balanced(HostLoadPart!SeenForeign(r6, r7),
                                  HostLoadPart!SeenOwn(r6, r7) + r5 - 1, r6.busy)'
        BY <3>1, <1>1, <2>2, <2>3 DEF HostLoadPart!Balanced
      <3>3. HostLoadPart!SeenOwn(r6, r7)' \in Int
        BY <2>3, <3>1
      <3> QED BY <3>2, <3>3, <1>1, <1>7 DEF HostLoadPart!WorkHeld
    <2> QED BY <1>1, <1>4, <1>7, <2>4, <2>5
            DEF HostLoadPart!LoadInv, HostLoadPart!ForeignIsSeen
  <1> QED BY <1>3, <1>6, <1>7

LEMMA StepJudge ==
  ASSUME HostLoadPart!LoadInv, HostLoadPart!Judge
  PROVE  HostLoadPart!LoadInv'
PROOF
  <1>1. /\ r1 = "after" /\ r1' = "judged" /\ r11' = HostLoadPart!ForeignBetween(r6, r7)
        /\ UNCHANGED <<r2, r3, r4, r5, r6, r7, r8, r9, r10>>
    BY DEF HostLoadPart!Judge
  <1>2. HostLoadPart!ProcsHeld /\ HostLoadPart!FirstHeld /\ HostLoadPart!WorkHeld
    BY DEF HostLoadPart!LoadInv
  <1>3. HostLoadPart!ProcsHeld'
    <2>1. \A p : HostLoadPart!Since(p)' = HostLoadPart!Since(p)
      BY <1>1 DEF HostLoadPart!Since
    <2> QED BY <1>1, <1>2, <2>1 DEF HostLoadPart!ProcsHeld
  <1>4. HostLoadPart!FirstHeld'
    BY <1>1, <1>2 DEF HostLoadPart!FirstHeld
  <1>5. HostLoadPart!WorkHeld'
    BY <1>1 DEF HostLoadPart!WorkHeld
  <1> DEFINE F == HostLoadPart!SeenForeign(r6, r7)
             O == HostLoadPart!SeenOwn(r6, r7)
             a == r6.busy
             E == HostLoadPart!Exited(r6, r7)
  <1>6. /\ a \in Nat /\ a >= 4 /\ r6.children = 1 /\ r7.busy = r4 /\ r7.children = r5
        /\ r4 \in Nat /\ r5 \in Nat /\ r5 >= 1 /\ r9 \in Nat /\ r10 \in Nat
    BY <1>1, <1>2 DEF HostLoadPart!FirstHeld, HostLoadPart!ProcsHeld
  <1>7. /\ F \in Int /\ O \in Int /\ F <= r9 + r10
        /\ O + r5 - 1 <= r4 - 4 - r9
        /\ (r4 - 4 - r9) - (O + r5 - 1) + (a - 4) <= r10
    BY <1>1, <1>2 DEF HostLoadPart!WorkHeld, HostLoadPart!Balanced
  <1>8. E = HostLoadPart!Larger(0, r4 - a - (O + HostLoadPart!Larger(0, r5 - 1)) - F)
    BY <1>6 DEF HostLoadPart!Exited, HostLoadPart!Accounted
  <1>9. HostLoadPart!Larger(0, r5 - 1) = r5 - 1
    BY <1>6 DEF HostLoadPart!Larger
  <1>10. /\ E \in Int /\ F + E >= F /\ F + E >= r4 - a - (O + r5 - 1)
         /\ F + E = F \/ F + E = r4 - a - (O + r5 - 1)
    <2> HIDE DEF F, O, a, E
    <2> QED BY <1>6, <1>7, <1>8, <1>9 DEF HostLoadPart!Larger
  <1>11. F + E >= r9 - r10 /\ F + E <= r9 + r10
    <2> HIDE DEF F, O, a, E
    <2> QED BY <1>6, <1>7, <1>10
  <1>12. r11' = IF F + E <= Budget THEN "quiet" ELSE "foreign"
    BY <1>1 DEF HostLoadPart!ForeignBetween
  <1>13. /\ r9 > Budget + r10 => r11' = "foreign"
         /\ r11' = "foreign" => r9 + r10 > Budget
    <2> HIDE DEF F, E
    <2> QED BY <1>6, <1>7, <1>10, <1>11, <1>12, HarnessAssumption
  <1>14. HostLoadPart!ForeignIsSeen'
    BY <1>1, <1>13 DEF HostLoadPart!ForeignIsSeen
  <1> QED BY <1>3, <1>4, <1>5, <1>14 DEF HostLoadPart!LoadInv

LEMMA LoadStarts == HostLoadPart!LoadInit => HostLoadPart!LoadInv
PROOF
  <1> SUFFICES ASSUME HostLoadPart!LoadInit PROVE HostLoadPart!LoadInv
    OBVIOUS
  <1>1. /\ r1 = "idle" /\ r4 = 4 /\ r5 = 1 /\ r8 = "no" /\ r9 = 0 /\ r10 = 0
        /\ r2 = [p \in LoadProcs |-> IF p = "bfb" THEN -1 ELSE 1]
        /\ r3 = [p \in LoadProcs |-> p]
    BY LoadNames DEF HostLoadPart!LoadInit
  <1>2. \A p \in LoadProcs : HostLoadPart!Since(p) = 0
    BY <1>1 DEF HostLoadPart!Since
  <1>3. HostLoadPart!ProcsHeld
    <2>1. r2["kthread"] >= 1 /\ r2 \in [LoadProcs -> Int]
      BY <1>1 DEF LoadProcs
    <2>2. /\ r3 \in [LoadProcs -> LoadProcs \cup {"other"}]
          /\ \A p \in LoadProcs : HostLoadPart!Since(p) >= 0 /\ r3[p] = p
      BY <1>1, <1>2
    <2> QED BY <1>1, <2>1, <2>2, LoadNames DEF HostLoadPart!ProcsHeld
  <1>4. HostLoadPart!FirstHeld
    BY <1>1, LoadNames DEF HostLoadPart!FirstHeld, LoadProcs
  <1>5. HostLoadPart!ForeignSince = 0 /\ HostLoadPart!OwnSince = 0
    BY <1>1, <1>2 DEF HostLoadPart!ForeignSince, HostLoadPart!OwnSince, LoadProcs
  <1>6. HostLoadPart!WorkHeld
    BY <1>1, <1>5 DEF HostLoadPart!WorkHeld, HostLoadPart!Balanced
  <1> QED BY <1>1, <1>3, <1>4, <1>6 DEF HostLoadPart!LoadInv, HostLoadPart!ForeignIsSeen

LEMMA LoadStays ==
  ASSUME HostLoadPart!LoadInv, UNCHANGED <<r1, r2, r3, r4, r5, r6, r7, r8, r9, r10, r11>>
  PROVE  HostLoadPart!LoadInv'
PROOF
  <1>1. \A p : HostLoadPart!Since(p)' = HostLoadPart!Since(p)
    BY DEF HostLoadPart!Since
  <1>2. UNCHANGED <<HostLoadPart!ForeignSince, HostLoadPart!OwnSince>>
    BY DEF HostLoadPart!ForeignSince, HostLoadPart!OwnSince, HostLoadPart!Since
  <1>3. HostLoadPart!ProcsHeld'
    BY <1>1 DEF HostLoadPart!LoadInv, HostLoadPart!ProcsHeld
  <1>4. HostLoadPart!FirstHeld'
    BY DEF HostLoadPart!LoadInv, HostLoadPart!FirstHeld
  <1>5. \A f, o, a : HostLoadPart!Balanced(f, o, a)' = HostLoadPart!Balanced(f, o, a)
    BY DEF HostLoadPart!Balanced
  <1>6. HostLoadPart!WorkHeld'
    BY <1>2, <1>5 DEF HostLoadPart!LoadInv, HostLoadPart!WorkHeld
  <1> QED BY <1>3, <1>4, <1>6 DEF HostLoadPart!LoadInv, HostLoadPart!ForeignIsSeen

-----------------------------------------------------------------------------
(* Settle: r1 work, r2 foreign, r3 load1, r4 used, r5 waiting, r6 polls,      *)
(* r7 recent, r8 stable, r9 left, r11 lately, r12 last, r13 silence.          *)

WaitHeld == part = "settle" => SettlePart!WaitInv

LEMMA WaitStarts == SettlePart!SettleInit => SettlePart!WaitInv
PROOF
  BY DEF SettlePart!SettleInit, SettlePart!WaitInv, SettlePart!PollsHeld,
         SettlePart!ReadingsHeld, SettlePart!WindowsHeld, SettlePart!WaitsAreTrue,
         SettlePart!Never

(* The last readings: what is appended is the load, and stays the last.       *)
LEMMA ReadingsLast ==
  ASSUME r7 \in Seq(Nat), r3 \in Nat
  PROVE  /\ SettlePart!Readings \in Seq(Nat) /\ SettlePart!Readings # <<>>
         /\ SettlePart!Readings[Len(SettlePart!Readings)] = r3
         /\ Len(SettlePart!Readings) = 3 =>
               r7 # <<>> /\ SettlePart!Readings[2] = r7[Len(r7)]
PROOF
  <1> DEFINE all == Append(r7, r3)
             rest == Tail(all)
             n == Len(r7)
  <1>1. /\ all \in Seq(Nat) /\ Len(all) = n + 1 /\ n \in Nat
        /\ all[n + 1] = r3 /\ \A i \in 1..n : all[i] = r7[i]
    OBVIOUS
  <1>2. SettlePart!Readings = IF Len(all) > 3 THEN rest ELSE all
    BY DEF SettlePart!Readings, SettlePart!PlateauPolls
  <1>3. Len(r7) > 0 => r7 # <<>>
    OBVIOUS
  <1>4. all # <<>> /\ (Len(all) > 1 => rest # <<>>)
    OBVIOUS
  <1>5. Len(all) > 1 => /\ rest \in Seq(Nat) /\ Len(rest) = Len(all) - 1
                        /\ \A i \in 1..(Len(all) - 1) : rest[i] = all[i + 1]
    <2> HIDE DEF all
    <2> QED BY <1>1
  <1> HIDE DEF all, rest
  <1>6. CASE Len(all) > 3
    <2>1. n > 2 /\ Len(all) > 1 /\ Len(all) - 1 = n
      BY <1>1, <1>6
    <2>2. rest \in Seq(Nat) /\ Len(rest) = n /\ \A i \in 1..n : rest[i] = all[i + 1]
      BY <1>5, <2>1
    <2>3. rest[n] = r3
      <3>1. n \in 1..n
        BY <1>1, <2>1
      <3>2. rest[n] = all[n + 1]
        BY <2>2, <3>1, Zenon
      <3> QED BY <1>1, <3>2, Zenon
    <2>4. n = 3 => rest[2] = r7[n]
      BY <1>1, <2>2
    <2> HIDE DEF n
    <2>5. SettlePart!Readings = rest /\ r7 # <<>> /\ rest # <<>>
      BY <1>2, <1>3, <1>4, <1>6, <2>1, <1>1 DEF n
    <2> QED BY <2>2, <2>3, <2>4, <2>5 DEF n
  <1>7. CASE ~(Len(all) > 3)
    <2>1. SettlePart!Readings = all
      BY <1>2, <1>7
    <2>2. n + 1 = 3 => Len(r7) > 0 /\ all[2] = r7[n]
      BY <1>1
    <2> QED BY <1>1, <1>3, <1>4, <2>1, <2>2
  <1> QED BY <1>6, <1>7

LEMMA WaitStep == SettlePart!WaitInv /\ SettlePart!SettleNext => SettlePart!WaitInv'
PROOF
  <1> SUFFICES ASSUME SettlePart!WaitInv, SettlePart!SettleNext
               PROVE  SettlePart!WaitInv'
    OBVIOUS
  <1>1. /\ SettlePart!PollsHeld /\ SettlePart!ReadingsHeld /\ SettlePart!WindowsHeld
        /\ SettlePart!WaitsAreTrue
    BY DEF SettlePart!WaitInv
  <1>2. ASSUME UNCHANGED r9 PROVE SettlePart!WaitsAreTrue'
    BY <1>1, <1>2 DEF SettlePart!WaitsAreTrue
  <1>3. CASE SettlePart!Shift
    <2>1. UNCHANGED <<r3, r5, r7, r8, r9, r11, r12>>
      BY <1>3 DEF SettlePart!Shift
    <2>2. \/ UNCHANGED <<r4, r13>>
          \/ r4 # -1 /\ r4' \in {r4 + 1, -1} /\ r13' = -1
      BY <1>3 DEF SettlePart!Shift
    <2>3. r1' \in Nat
      BY <1>1, <1>3 DEF SettlePart!Shift, SettlePart!PollsHeld
    <2>4. SettlePart!PollsHeld'
      BY <1>1, <2>1, <2>2, <2>3 DEF SettlePart!PollsHeld
    <2>5. SettlePart!ReadingsHeld'
      BY <1>1, <2>1 DEF SettlePart!ReadingsHeld
    <2>6. SettlePart!WindowsHeld'
      BY <1>1, <2>1, <2>2 DEF SettlePart!WindowsHeld, SettlePart!PollsHeld
    <2> QED BY <1>2, <2>1, <2>4, <2>5, <2>6 DEF SettlePart!WaitInv
  <1>4. CASE SettlePart!Begin
    <2>1. /\ r3' \in {r1, 6} /\ r7' = <<>> /\ r8' = 0 /\ r12' = r4 /\ r13' = 0
          /\ UNCHANGED <<r1, r4, r9, r11>>
      BY <1>4 DEF SettlePart!Begin
    <2>2. SettlePart!PollsHeld'
      BY <1>1, <2>1 DEF SettlePart!PollsHeld
    <2>3. SettlePart!ReadingsHeld' /\ SettlePart!WindowsHeld'
      BY <1>1, <2>1 DEF SettlePart!ReadingsHeld, SettlePart!WindowsHeld, SettlePart!PollsHeld
    <2> QED BY <1>2, <2>1, <2>2, <2>3 DEF SettlePart!WaitInv
  <1>5. ASSUME SettlePart!Sleep
        PROVE  /\ UNCHANGED <<r1, r4, r5, r9>> /\ r3' \in Nat /\ r11' \in Nat
               /\ r3' = r3 => r3 = r11'
    BY <1>1, <1>5 DEF SettlePart!Sleep, SettlePart!PollsHeld, SettlePart!Decayed
  <1>6. ASSUME NEW why, NEW rate, SettlePart!Leave(why, rate)
        PROVE  /\ SettlePart!PollsHeld' /\ SettlePart!ReadingsHeld' /\ SettlePart!WindowsHeld'
               /\ r9'.wait = r5 /\ r9'.why = why /\ r9'.load = r3 /\ r9'.foreign = r2
               /\ r9'.ran = r11 /\ r9'.silence = r13 + 1 /\ r9'.rate = rate
    BY <1>1, <1>6 DEF SettlePart!Leave, SettlePart!PollsHeld, SettlePart!ReadingsHeld,
                      SettlePart!WindowsHeld
  <1>7. CASE SettlePart!SettlePoll
    <2>1. ASSUME NEW why, why # "floor", SettlePart!Leave(why, "none") PROVE SettlePart!WaitInv'
      <3>1. r5 = "settle"
        BY <1>7 DEF SettlePart!SettlePoll
      <3> QED BY <1>6, <2>1, <3>1 DEF SettlePart!WaitInv, SettlePart!WaitsAreTrue
    <2>2. ASSUME SettlePart!AtFloor, SettlePart!Leave("floor", "none")
          PROVE  SettlePart!WaitInv'
      <3>1. ~r2 /\ r5 = "settle" /\ Len(SettlePart!Readings) = 3
            /\ \A i, j \in DOMAIN SettlePart!Readings :
                  SettlePart!Readings[i] = SettlePart!Readings[j]
        BY <1>7, <2>2 DEF SettlePart!SettlePoll, SettlePart!AtFloor, SettlePart!Plateau,
                          SettlePart!PlateauPolls
      <3>2. /\ SettlePart!Readings \in Seq(Nat) /\ r7 # <<>>
            /\ SettlePart!Readings[3] = r3 /\ SettlePart!Readings[2] = r7[Len(r7)]
        BY <1>1, <3>1, ReadingsLast DEF SettlePart!PollsHeld
      <3>3. r7[Len(r7)] = r3
        <4>1. 2 \in DOMAIN SettlePart!Readings /\ 3 \in DOMAIN SettlePart!Readings
          BY <3>1, <3>2
        <4> QED BY <3>1, <3>2, <4>1
      <3>4. r3 = r11
        BY <1>1, <3>1, <3>2, <3>3 DEF SettlePart!ReadingsHeld
      <3> QED BY <1>6, <2>2, <3>1, <3>4 DEF SettlePart!WaitInv, SettlePart!WaitsAreTrue
    <2>3. ASSUME SettlePart!Sleep, r7' = SettlePart!Readings, UNCHANGED <<r8, r12, r13>>
          PROVE  SettlePart!WaitInv'
      <3>1. /\ r7' \in Seq(Nat) /\ r7'[Len(r7')] = r3
        BY <1>1, <2>3, ReadingsLast DEF SettlePart!PollsHeld
      <3>2. r5' = "settle"
        BY <1>5, <1>7, <2>3 DEF SettlePart!SettlePoll
      <3>3. SettlePart!PollsHeld'
        BY <1>1, <1>5, <2>3, <3>1 DEF SettlePart!PollsHeld
      <3>4. SettlePart!ReadingsHeld' /\ SettlePart!WindowsHeld'
        BY <1>5, <2>3, <3>1, <3>2 DEF SettlePart!ReadingsHeld, SettlePart!WindowsHeld
      <3> QED BY <1>2, <1>5, <2>3, <3>3, <3>4 DEF SettlePart!WaitInv
    <2> QED BY <1>7, <2>1, <2>2, <2>3 DEF SettlePart!SettlePoll
  <1>8. CASE SettlePart!RetryPoll
    <2>1. r5 \in {"retry", "retry_load"}
      BY <1>8 DEF SettlePart!RetryPoll
    <2>2. ASSUME NEW why, why # "floor", SettlePart!Leave(why, "none") PROVE SettlePart!WaitInv'
      BY <1>6, <2>1, <2>2 DEF SettlePart!WaitInv, SettlePart!WaitsAreTrue
    <2>3. ASSUME SettlePart!Sleep, UNCHANGED <<r7, r8, r12, r13>> PROVE SettlePart!WaitInv'
      <3>1. SettlePart!PollsHeld'
        BY <1>1, <1>5, <2>3 DEF SettlePart!PollsHeld
      <3>2. SettlePart!ReadingsHeld' /\ SettlePart!WindowsHeld'
        BY <1>5, <2>1, <2>3 DEF SettlePart!ReadingsHeld, SettlePart!WindowsHeld
      <3> QED BY <1>2, <1>5, <2>3, <3>1, <3>2 DEF SettlePart!WaitInv
    <2> QED BY <1>8, <2>2, <2>3 DEF SettlePart!RetryPoll
  <1>9. CASE SettlePart!EnginePoll
    <2>1. r5 = "engine"
      BY <1>9 DEF SettlePart!EnginePoll
    <2>2. CASE SettlePart!Leave("gone", "none")
      BY <1>6, <2>1, <2>2 DEF SettlePart!WaitInv, SettlePart!WaitsAreTrue
    <2>3. SettlePart!Rate = "idle" => r13 >= r8 /\ r13 >= 0 /\ SettlePart!Windows = r8 + 1
      BY <1>1, <2>1 DEF SettlePart!Rate, SettlePart!WindowsHeld, SettlePart!PollsHeld,
                        SettlePart!Windows
    <2>4. SettlePart!Rate # "idle" => r13 = -1 /\ SettlePart!Windows = 0
      BY <1>1, <2>1 DEF SettlePart!Rate, SettlePart!WindowsHeld, SettlePart!Windows
    <2>5. SettlePart!Rate \in {"idle", "busy"} /\ r8 \in Nat /\ r13 \in Int
      BY <1>1 DEF SettlePart!Rate, SettlePart!PollsHeld
    <2>6. ASSUME NEW why \in {"quiet", "deadline"}, SettlePart!Leave(why, SettlePart!Rate),
                 why = "quiet" => SettlePart!Windows >= 3
          PROVE  SettlePart!WaitInv'
      <3>1. why = "quiet" => r13 + 1 >= 3
        BY <2>3, <2>4, <2>5, <2>6
      <3>2. /\ SettlePart!Rate = "idle" => r13 + 1 > 0
            /\ SettlePart!Rate = "busy" => r13 + 1 = 0
        BY <2>3, <2>4, <2>5
      <3> QED BY <1>6, <2>1, <2>6, <3>1, <3>2
              DEF SettlePart!WaitInv, SettlePart!WaitsAreTrue, SettlePart!IdleStable
    <2>7. ASSUME r4 # -1, SettlePart!Sleep, r8' = SettlePart!Windows, r12' = r4,
                 r13' = r13 + 1, UNCHANGED r7
          PROVE  SettlePart!WaitInv'
      <3>1. r8' \in Nat /\ r13' >= r8' /\ r13' \in Int
        BY <2>3, <2>4, <2>5, <2>7
      <3>2. SettlePart!PollsHeld'
        BY <1>1, <1>5, <2>7, <3>1 DEF SettlePart!PollsHeld
      <3>3. SettlePart!ReadingsHeld' /\ SettlePart!WindowsHeld'
        BY <1>1, <1>5, <2>1, <2>7, <3>1
           DEF SettlePart!ReadingsHeld, SettlePart!WindowsHeld, SettlePart!PollsHeld
      <3> QED BY <1>2, <1>5, <2>7, <3>2, <3>3 DEF SettlePart!WaitInv
    <2> QED BY <1>9, <2>2, <2>6, <2>7 DEF SettlePart!EnginePoll, SettlePart!IdleStable
  <1> QED BY <1>3, <1>4, <1>7, <1>8, <1>9 DEF SettlePart!SettleNext

LEMMA LoadKept == LoadHeld /\ [PartsNext]_pvars => LoadHeld'
PROOF
  <1> SUFFICES ASSUME LoadHeld, [PartsNext]_pvars, part' = "load"
               PROVE  HostLoadPart!LoadInv'
    BY DEF LoadHeld
  <1>1. part = "load" /\ HostLoadPart!LoadInv
    BY PartStays DEF LoadHeld
  <1>2. CASE HostLoadPart!LoadNext
    BY <1>1, <1>2, StepBurst, StepChild, StepExits, StepStarts, StepExecs,
       StepReadProcs, StepReadBusy, StepJudge DEF HostLoadPart!LoadNext
  <1>3. CASE UNCHANGED pvars
    <2>1. UNCHANGED <<r1, r2, r3, r4, r5, r6, r7, r8, r9, r10, r11>>
      BY <1>3 DEF pvars, After0, After1, After4, After5, After6, After8, After9, After10
    <2> QED BY <1>1, <2>1, LoadStays
  <1> QED BY <1>1, <1>2, <1>3 DEF PartsNext

LEMMA WaitKept == WaitHeld /\ [PartsNext]_pvars => WaitHeld'
PROOF
  <1> SUFFICES ASSUME WaitHeld, [PartsNext]_pvars, part' = "settle"
               PROVE  SettlePart!WaitInv'
    BY DEF WaitHeld
  <1>1. part = "settle" /\ SettlePart!WaitInv
    BY PartStays DEF WaitHeld
  <1>2. CASE SettlePart!SettleNext
    BY <1>1, <1>2, WaitStep
  <1>3. CASE UNCHANGED pvars
    <2>1. UNCHANGED <<r1, r3, r4, r5, r7, r8, r9, r11, r12, r13>>
      BY <1>3 DEF pvars, After0, After1, After4, After5, After6, After8, After9, After10, After11
    <2> QED BY <1>1, <2>1
            DEF SettlePart!WaitInv, SettlePart!PollsHeld, SettlePart!ReadingsHeld,
                SettlePart!WindowsHeld, SettlePart!WaitsAreTrue
  <1> QED BY <1>1, <1>2, <1>3 DEF PartsNext

(* A row beside more foreign work than the budget is condemned, and only      *)
(* such a row is, but for what the sample can give to nobody; and a wait that *)
(* ended at a floor, or on an idle engine, was right about it: for any        *)
(* budget, any number of bursts, starts, exits and execs, and of polls.       *)
THEOREM HostIsSeenCorrect == PartsSpec => []HostIsSeen
PROOF
  <1>1. PartsInit => LoadHeld /\ WaitHeld
    BY LoadStarts, WaitStarts DEF PartsInit, LoadHeld, WaitHeld
  <1>4. LoadHeld /\ WaitHeld => HostIsSeen
    BY DEF LoadHeld, WaitHeld, HostIsSeen, HostLoadPart!LoadInv, SettlePart!WaitInv
  <1> QED BY <1>1, LoadKept, WaitKept, <1>4, PTL DEF PartsSpec, pvars

-----------------------------------------------------------------------------
(* RowRunner: r1 pass, r2 gate, r3 gateAsks, r4 next, r5 stage, r6 factor,    *)
(* r7 shortRuns, r8 dirtyRuns, r9 cur, r10 out, r11 file, r12 pins,           *)
(* r13 pinsLost, r14 appended, r15 odd.                                       *)

RowHeld == part = "row" => RowRunnerPart!RunnerInv

LEMMA RowsStart == RowRunnerPart!RunnerInit => RowRunnerPart!RunnerInv
PROOF
  <1> SUFFICES ASSUME RowRunnerPart!RunnerInit PROVE RowRunnerPart!RunnerInv
    OBVIOUS
  <1>1. /\ r5 = "between" /\ r4 = 0 /\ r6 = 1 /\ r10 = RowRunnerPart!NoRows
        /\ r11 = [p \in 1..RowPasses |-> RowRunnerPart!NoRows]
        /\ r12 = [i \in RowRunnerPart!RowsOfRun |-> 0] /\ r14 = [i \in RowRunnerPart!RowsOfRun |-> 0]
    BY DEF RowRunnerPart!RunnerInit
  <1>2. \A i \in RowRunnerPart!RowsOfRun : RowRunnerPart!NoRows[i].status = "none"
    BY DEF RowRunnerPart!NoRows, RowRunnerPart!Unmeasured
  <1>3. RowRunnerPart!PinsHeld
    BY <1>1 DEF RowRunnerPart!PinsHeld, RowRunnerPart!Running
  <1>4. RowRunnerPart!FilesHeld
    BY <1>1, <1>2 DEF RowRunnerPart!FilesHeld, RowRunnerPart!Rightly, RowRunnerPart!NoRows
  <1>5. RowRunnerPart!WritersHeld
    BY <1>1 DEF RowRunnerPart!WritersHeld, RowRunnerPart!Running
  <1> QED BY <1>3, <1>4, <1>5 DEF RowRunnerPart!RunnerInv

LEMMA StepStartPass == RowRunnerPart!RunnerInv /\ RowRunnerPart!StartPass => RowRunnerPart!RunnerInv'
PROOF
  <1> SUFFICES ASSUME RowRunnerPart!RunnerInv, RowRunnerPart!StartPass PROVE RowRunnerPart!RunnerInv'
    OBVIOUS
  <1>1. /\ r5 = "between" /\ r5' = "gate" /\ r10' = RowRunnerPart!NoRows
        /\ r14' = [i \in RowRunnerPart!RowsOfRun |-> 0]
        /\ UNCHANGED <<r4, r6, r7, r8, r9, r11, r12, r13>>
    BY DEF RowRunnerPart!StartPass
  <1>2. RowRunnerPart!PinsHeld'
    BY <1>1 DEF RowRunnerPart!RunnerInv, RowRunnerPart!PinsHeld, RowRunnerPart!Running
  <1>3. RowRunnerPart!FilesHeld'
    BY <1>1
       DEF RowRunnerPart!RunnerInv, RowRunnerPart!FilesHeld, RowRunnerPart!Rightly, RowRunnerPart!NoRows, RowRunnerPart!Unmeasured
  <1>4. RowRunnerPart!WritersHeld'
    BY <1>1 DEF RowRunnerPart!WritersHeld, RowRunnerPart!Running
  <1> QED BY <1>2, <1>3, <1>4 DEF RowRunnerPart!RunnerInv

LEMMA StepGateRow == RowRunnerPart!RunnerInv /\ RowRunnerPart!Gate => RowRunnerPart!RunnerInv'
PROOF
  <1> SUFFICES ASSUME RowRunnerPart!RunnerInv, RowRunnerPart!Gate PROVE RowRunnerPart!RunnerInv'
    OBVIOUS
  <1>1. /\ r5 = "gate" /\ UNCHANGED <<r6, r9, r10, r11, r12, r13, r14>>
        /\ (r5' = r5 /\ r4' = r4) \/ (r5' = "row" /\ r4' = 1)
    BY DEF RowRunnerPart!Gate
  <1>2. RowRunnerPart!PinsHeld'
    BY <1>1 DEF RowRunnerPart!RunnerInv, RowRunnerPart!PinsHeld, RowRunnerPart!Running
  <1>3. RowRunnerPart!FilesHeld'
    BY <1>1 DEF RowRunnerPart!RunnerInv, RowRunnerPart!FilesHeld, RowRunnerPart!Rightly
  <1>4. RowRunnerPart!WritersHeld'
    BY <1>1 DEF RowRunnerPart!RunnerInv, RowRunnerPart!WritersHeld, RowRunnerPart!Running
  <1> QED BY <1>2, <1>3, <1>4 DEF RowRunnerPart!RunnerInv

(* A measurement of the row under way, by the factor it is to run with.       *)
LEMMA StepRunOne ==
  ASSUME RowRunnerPart!RunnerInv, r4 \in RowRunnerPart!RowsOfRun, NEW f \in Nat \ {0}, RowRunnerPart!RunOne(r4, f),
         r5 \in {"row", "short?"}, r5 = "short?" => RowRunnerPart!Kind(r4) # "write",
         ~r13 => IF RowRunnerPart!Kind(r4) = "upload" THEN f = 1 ELSE r12[r4] \in {0, f},
         UNCHANGED <<r4, r10, r11, r12, r13>>
  PROVE  RowRunnerPart!RunnerInv'
PROOF
  <1>1. /\ r5' = "short?" /\ r6' = f
        /\ r14' = IF RowRunnerPart!Kind(r4) = "write" THEN [r14 EXCEPT ![r4] = @ + 1] ELSE r14
    BY DEF RowRunnerPart!RunOne
  <1>2. RowRunnerPart!PinsHeld'
    BY <1>1 DEF RowRunnerPart!RunnerInv, RowRunnerPart!PinsHeld, RowRunnerPart!Running
  <1>3. RowRunnerPart!FilesHeld'
    BY DEF RowRunnerPart!RunnerInv, RowRunnerPart!FilesHeld, RowRunnerPart!Rightly
  <1>4. RowRunnerPart!WritersHeld'
    <2>1. r14 \in [RowRunnerPart!RowsOfRun -> {0, 1}] /\ r4 \in Nat
      BY DEF RowRunnerPart!RunnerInv, RowRunnerPart!WritersHeld, RowRunnerPart!PinsHeld
    <2>2. CASE RowRunnerPart!Kind(r4) = "write"
      <3>1. r14[r4] = 0
        BY <2>1, <2>2 DEF RowRunnerPart!RunnerInv, RowRunnerPart!WritersHeld
      <3>2. r14' \in [RowRunnerPart!RowsOfRun -> {0, 1}] /\ \A i \in RowRunnerPart!RowsOfRun : i # r4 => r14'[i] = r14[i]
        BY <1>1, <2>1, <2>2, <3>1
      <3>3. \A i \in RowRunnerPart!RowsOfRun : r14[i] = 1 => i \in 1..(r4 - 1)
        BY <2>2 DEF RowRunnerPart!RunnerInv, RowRunnerPart!WritersHeld
      <3>4. r4 # 0
        BY <2>2 DEF RowRunnerPart!RunnerInv, RowRunnerPart!PinsHeld
      <3>5. \A i \in RowRunnerPart!RowsOfRun : r14'[i] = 1 => i \in 1..r4
        BY <2>1, <3>2, <3>3, <3>4
      <3> QED BY <1>1, <3>2, <3>5 DEF RowRunnerPart!WritersHeld, RowRunnerPart!Running
    <2>3. CASE RowRunnerPart!Kind(r4) # "write"
      <3>1. \A i \in RowRunnerPart!RowsOfRun : r14[i] = 1 => i \in 1..r4
        BY <2>1 DEF RowRunnerPart!RunnerInv, RowRunnerPart!WritersHeld, RowRunnerPart!Running
      <3> QED BY <1>1, <2>1, <2>3, <3>1 DEF RowRunnerPart!WritersHeld, RowRunnerPart!Running
    <2> QED BY <2>2, <2>3
  <1> QED BY <1>2, <1>3, <1>4 DEF RowRunnerPart!RunnerInv

LEMMA StepRunRow == RowRunnerPart!RunnerInv /\ RowRunnerPart!RunRow => RowRunnerPart!RunnerInv'
PROOF
  <1> SUFFICES ASSUME RowRunnerPart!RunnerInv, RowRunnerPart!RunRow PROVE RowRunnerPart!RunnerInv'
    OBVIOUS
  <1>1. /\ r5 = "row" /\ r4 \in RowRunnerPart!RowsOfRun /\ RowRunnerPart!RunOne(r4, RowRunnerPart!BaseFactor(r4))
        /\ UNCHANGED <<r4, r10, r11, r12, r13>>
    BY DEF RowRunnerPart!RunRow
  <1>2. r12[r4] \in Nat /\ (~r13 /\ RowRunnerPart!Kind(r4) = "upload" => r12[r4] = 0)
    BY <1>1 DEF RowRunnerPart!RunnerInv, RowRunnerPart!PinsHeld
  <1>3. /\ RowRunnerPart!BaseFactor(r4) \in Nat \ {0}
        /\ ~r13 => IF RowRunnerPart!Kind(r4) = "upload" THEN RowRunnerPart!BaseFactor(r4) = 1
                   ELSE r12[r4] \in {0, RowRunnerPart!BaseFactor(r4)}
    BY <1>2 DEF RowRunnerPart!BaseFactor
  <1> QED BY <1>1, <1>3, StepRunOne

LEMMA StepRunShort == RowRunnerPart!RunnerInv /\ RowRunnerPart!RunShortAgain => RowRunnerPart!RunnerInv'
PROOF
  <1> SUFFICES ASSUME RowRunnerPart!RunnerInv, RowRunnerPart!RunShortAgain
               PROVE  RowRunnerPart!RunnerInv'
    OBVIOUS
  <1>1. /\ r5 = "short?" /\ RowRunnerPart!Kind(r4) \notin {"upload", "write"} /\ r12[r4] = 0
        /\ RowRunnerPart!RunOne(r4, r6 * 2) /\ UNCHANGED <<r4, r10, r11, r12, r13>>
    BY DEF RowRunnerPart!RunShortAgain, RowRunnerPart!MayRunShortAgain
  <1>2. r6 * 2 \in Nat \ {0} /\ r4 \in RowRunnerPart!RowsOfRun
    BY <1>1 DEF RowRunnerPart!RunnerInv, RowRunnerPart!PinsHeld, RowRunnerPart!Running
  <1> QED BY <1>1, <1>2, StepRunOne

LEMMA StepPinFactor == RowRunnerPart!RunnerInv /\ RowRunnerPart!PinFactor => RowRunnerPart!RunnerInv'
PROOF
  <1> SUFFICES ASSUME RowRunnerPart!RunnerInv, RowRunnerPart!PinFactor PROVE RowRunnerPart!RunnerInv'
    OBVIOUS
  <1>1. /\ r5 = "short?" /\ r5' = "dirty?" /\ UNCHANGED <<r4, r6, r9, r10, r11, r14>>
    BY DEF RowRunnerPart!PinFactor
  <1>2. /\ r4 \in RowRunnerPart!RowsOfRun /\ r12 \in [RowRunnerPart!RowsOfRun -> Nat] /\ r6 \in Nat \ {0}
        /\ ~r13 => /\ \A i \in RowRunnerPart!RowsOfRun : RowRunnerPart!Kind(i) = "upload" => r12[i] = 0
                   /\ IF RowRunnerPart!Kind(r4) = "upload" THEN r6 = 1 ELSE r12[r4] \in {0, r6}
    BY <1>1 DEF RowRunnerPart!RunnerInv, RowRunnerPart!PinsHeld, RowRunnerPart!Running
  <1>3. \/ (RowRunnerPart!Kind(r4) = "upload" \/ r9.status # "ok") /\ r12' = r12 /\ r13' = r13
        \/ RowRunnerPart!Kind(r4) # "upload" /\ r12' = [r12 EXCEPT ![r4] = r6] /\ (r13 => r13')
        \/ r12' = r12 /\ r13'
    BY DEF RowRunnerPart!PinFactor
  <1>4. RowRunnerPart!WritersHeld'
    BY <1>1 DEF RowRunnerPart!RunnerInv, RowRunnerPart!WritersHeld, RowRunnerPart!Running
  <1>5. CASE (RowRunnerPart!Kind(r4) = "upload" \/ r9.status # "ok") /\ r12' = r12 /\ r13' = r13
    <2>1. RowRunnerPart!PinsHeld'
      BY <1>1, <1>2, <1>5 DEF RowRunnerPart!RunnerInv, RowRunnerPart!PinsHeld, RowRunnerPart!Running
    <2>2. RowRunnerPart!FilesHeld'
      BY <1>1, <1>5 DEF RowRunnerPart!RunnerInv, RowRunnerPart!FilesHeld, RowRunnerPart!Rightly
    <2> QED BY <1>4, <2>1, <2>2 DEF RowRunnerPart!RunnerInv
  <1>6. CASE RowRunnerPart!Kind(r4) # "upload" /\ r12' = [r12 EXCEPT ![r4] = r6] /\ (r13 => r13')
    <2>1. /\ r12' \in [RowRunnerPart!RowsOfRun -> Nat] /\ r12'[r4] = r6
          /\ \A i \in RowRunnerPart!RowsOfRun : i # r4 => r12'[i] = r12[i]
      BY <1>2, <1>6
    <2>2. RowRunnerPart!PinsHeld'
      BY <1>1, <1>2, <1>6, <2>1
         DEF RowRunnerPart!RunnerInv, RowRunnerPart!PinsHeld, RowRunnerPart!Running
    <2>3. ASSUME ~r13, NEW i \in RowRunnerPart!RowsOfRun, NEW r, RowRunnerPart!Rightly(i, r)
          PROVE  RowRunnerPart!Rightly(i, r)'
      BY <1>2, <1>6, <2>1, <2>3 DEF RowRunnerPart!Rightly, RowRunnerPart!Kind
    <2>4. RowRunnerPart!FilesHeld'
      BY <1>1, <1>6, <2>3 DEF RowRunnerPart!RunnerInv, RowRunnerPart!FilesHeld
    <2> QED BY <1>4, <2>2, <2>4 DEF RowRunnerPart!RunnerInv
  <1>7. CASE r12' = r12 /\ r13'
    <2>1. RowRunnerPart!PinsHeld'
      BY <1>1, <1>2, <1>7 DEF RowRunnerPart!RunnerInv, RowRunnerPart!PinsHeld, RowRunnerPart!Running
    <2>2. RowRunnerPart!FilesHeld'
      BY <1>1, <1>7 DEF RowRunnerPart!RunnerInv, RowRunnerPart!FilesHeld
    <2> QED BY <1>4, <2>1, <2>2 DEF RowRunnerPart!RunnerInv
  <1> QED BY <1>3, <1>5, <1>6, <1>7

LEMMA StepRunDirty == RowRunnerPart!RunnerInv /\ RowRunnerPart!RunDirtyAgain => RowRunnerPart!RunnerInv'
PROOF
  <1> SUFFICES ASSUME RowRunnerPart!RunnerInv, RowRunnerPart!RunDirtyAgain
               PROVE  RowRunnerPart!RunnerInv'
    OBVIOUS
  <1>1. /\ r5 = "dirty?" /\ r9.status = "ok" /\ UNCHANGED <<r4, r5, r6, r10, r11, r12, r13, r14>>
    BY DEF RowRunnerPart!RunDirtyAgain, RowRunnerPart!MayRunDirtyAgain
  <1>2. RowRunnerPart!PinsHeld'
    BY <1>1 DEF RowRunnerPart!RunnerInv, RowRunnerPart!PinsHeld, RowRunnerPart!Running
  <1>3. RowRunnerPart!FilesHeld'
    BY <1>1 DEF RowRunnerPart!RunnerInv, RowRunnerPart!FilesHeld, RowRunnerPart!Rightly
  <1>4. RowRunnerPart!WritersHeld'
    BY <1>1 DEF RowRunnerPart!RunnerInv, RowRunnerPart!WritersHeld, RowRunnerPart!Running
  <1> QED BY <1>2, <1>3, <1>4 DEF RowRunnerPart!RunnerInv

(* A row is done with what is right of it.                                    *)
LEMMA StepNextRow ==
  ASSUME RowRunnerPart!RunnerInv, r4 \in RowRunnerPart!RowsOfRun, r5 \in {"row", "dirty?"}, r5' = "row", r4' = r4 + 1,
         NEW kept, r10' = [r10 EXCEPT ![r4] = kept], ~r13 => RowRunnerPart!Rightly(r4, kept),
         UNCHANGED <<r6, r11, r12, r13, r14>>
  PROVE  RowRunnerPart!RunnerInv'
PROOF
  <1>1. RowRunnerPart!PinsHeld'
    BY DEF RowRunnerPart!RunnerInv, RowRunnerPart!PinsHeld, RowRunnerPart!Running
  <1>2. RowRunnerPart!FilesHeld'
    BY DEF RowRunnerPart!RunnerInv, RowRunnerPart!FilesHeld, RowRunnerPart!Rightly
  <1>3. RowRunnerPart!WritersHeld'
    <2>1. r4 \in Nat /\ (r5 = "row" => r4 # 0) /\ (r4' - 1 = r4)
      BY DEF RowRunnerPart!RunnerInv, RowRunnerPart!PinsHeld
    <2>2. \A i \in RowRunnerPart!RowsOfRun : r14[i] = 1 => i \in 1..r4
      BY <2>1 DEF RowRunnerPart!RunnerInv, RowRunnerPart!WritersHeld, RowRunnerPart!Running
    <2> QED BY <2>1, <2>2 DEF RowRunnerPart!RunnerInv, RowRunnerPart!WritersHeld, RowRunnerPart!Running
  <1> QED BY <1>1, <1>2, <1>3 DEF RowRunnerPart!RunnerInv

LEMMA StepSkipRow == RowRunnerPart!RunnerInv /\ RowRunnerPart!SkipRow => RowRunnerPart!RunnerInv'
PROOF
  <1> SUFFICES ASSUME RowRunnerPart!RunnerInv, RowRunnerPart!SkipRow PROVE RowRunnerPart!RunnerInv'
    OBVIOUS
  <1>1. RowRunnerPart!Rightly(r4, RowRunnerPart!Skipped(r4))
    BY DEF RowRunnerPart!Rightly, RowRunnerPart!Skipped
  <1> QED BY <1>1, StepNextRow DEF RowRunnerPart!SkipRow

LEMMA StepKeepRow == RowRunnerPart!RunnerInv /\ RowRunnerPart!KeepRow => RowRunnerPart!RunnerInv'
PROOF
  <1> SUFFICES ASSUME RowRunnerPart!RunnerInv, RowRunnerPart!KeepRow PROVE RowRunnerPart!RunnerInv'
    OBVIOUS
  <1> DEFINE kept == [status |-> r9.status, factor |-> r6, foreign |-> r9.foreign, gate |-> r2]
  <1>1. r5 = "dirty?" /\ r5' = "row" /\ r4' = r4 + 1 /\ r10' = [r10 EXCEPT ![r4] = kept]
        /\ UNCHANGED <<r6, r11, r12, r13, r14>>
    BY DEF RowRunnerPart!KeepRow
  <1>2. /\ r4 \in RowRunnerPart!RowsOfRun /\ r6 \in Nat \ {0}
        /\ ~r13 => /\ RowRunnerPart!Kind(r4) = "upload" => r6 = 1
                   /\ r9.status = "ok" /\ RowRunnerPart!Kind(r4) # "upload" => r12[r4] = r6
    BY <1>1 DEF RowRunnerPart!RunnerInv, RowRunnerPart!PinsHeld, RowRunnerPart!Running
  <1>3. kept.status = r9.status /\ kept.factor = r6
    OBVIOUS
  <1> HIDE DEF kept
  <1>4. ~r13 => RowRunnerPart!Rightly(r4, kept)
    BY <1>2, <1>3 DEF RowRunnerPart!Rightly
  <1> QED BY <1>1, <1>2, <1>4, StepNextRow

LEMMA StepWriteRows == RowRunnerPart!RunnerInv /\ RowRunnerPart!WriteRows => RowRunnerPart!RunnerInv'
PROOF
  <1> SUFFICES ASSUME RowRunnerPart!RunnerInv, RowRunnerPart!WriteRows PROVE RowRunnerPart!RunnerInv'
    OBVIOUS
  <1>1. /\ r5 = "row" /\ r5' = "between" /\ r4' = 0
        /\ UNCHANGED <<r1, r6, r10, r12, r13, r14>>
    BY DEF RowRunnerPart!WriteRows
  <1>2. PICK prev : /\ prev \in {r11[r1], RowRunnerPart!NoRows}
                    /\ r11' = [r11 EXCEPT ![r1] = RowRunnerPart!Merged(prev)]
    BY DEF RowRunnerPart!WriteRows
  <1>3. RowRunnerPart!PinsHeld'
    BY <1>1 DEF RowRunnerPart!RunnerInv, RowRunnerPart!PinsHeld, RowRunnerPart!Running
  <1>4. RowRunnerPart!FilesHeld'
    <2>1. DOMAIN r11' = 1..RowPasses /\ DOMAIN r10' = RowRunnerPart!RowsOfRun
      BY <1>1, <1>2 DEF RowRunnerPart!RunnerInv, RowRunnerPart!FilesHeld
    <2>2. ASSUME ~r13, NEW i \in RowRunnerPart!RowsOfRun, NEW p \in 1..RowPasses
          PROVE  RowRunnerPart!Rightly(i, r11'[p][i])
      <3>1. RowRunnerPart!Rightly(i, r10[i]) /\ RowRunnerPart!Rightly(i, r11[p][i]) /\ p \in DOMAIN r11
        BY <2>2 DEF RowRunnerPart!RunnerInv, RowRunnerPart!FilesHeld
      <3>2. RowRunnerPart!Rightly(i, RowRunnerPart!NoRows[i])
        BY DEF RowRunnerPart!Rightly, RowRunnerPart!NoRows, RowRunnerPart!Unmeasured
      <3>3. CASE p = r1
        <4>1. RowRunnerPart!Rightly(i, prev[i])
          BY <1>2, <3>1, <3>2, <3>3
        <4>2. r11'[p][i] = IF r10[i] # RowRunnerPart!Unmeasured THEN r10[i] ELSE prev[i]
          BY <1>2, <3>1, <3>3 DEF RowRunnerPart!Merged
        <4> QED BY <3>1, <4>1, <4>2
      <3>4. CASE p # r1
        BY <1>2, <3>1, <3>4
      <3> QED BY <3>3, <3>4
    <2>3. ASSUME NEW i \in RowRunnerPart!RowsOfRun, NEW r
          PROVE  RowRunnerPart!Rightly(i, r)' <=> RowRunnerPart!Rightly(i, r)
      BY <1>1 DEF RowRunnerPart!Rightly, RowRunnerPart!Kind
    <2> QED BY <1>1, <2>1, <2>2, <2>3 DEF RowRunnerPart!RunnerInv, RowRunnerPart!FilesHeld
  <1>5. RowRunnerPart!WritersHeld'
    BY <1>1 DEF RowRunnerPart!RunnerInv, RowRunnerPart!WritersHeld, RowRunnerPart!Running
  <1> QED BY <1>3, <1>4, <1>5 DEF RowRunnerPart!RunnerInv

LEMMA StepDie == RowRunnerPart!RunnerInv /\ RowRunnerPart!Die => RowRunnerPart!RunnerInv'
PROOF
  <1> SUFFICES ASSUME RowRunnerPart!RunnerInv, RowRunnerPart!Die PROVE RowRunnerPart!RunnerInv'
    OBVIOUS
  <1>1. /\ r5' = "between" /\ r4' = 0 /\ UNCHANGED <<r6, r10, r11, r14>>
        /\ \/ r12' = r12 /\ r13' = r13
           \/ r12' = [i \in RowRunnerPart!RowsOfRun |-> 0] /\ r13'
    BY DEF RowRunnerPart!Die
  <1>2. RowRunnerPart!PinsHeld'
    BY <1>1 DEF RowRunnerPart!RunnerInv, RowRunnerPart!PinsHeld, RowRunnerPart!Running
  <1>3. RowRunnerPart!FilesHeld'
    BY <1>1 DEF RowRunnerPart!RunnerInv, RowRunnerPart!FilesHeld, RowRunnerPart!Rightly
  <1>4. RowRunnerPart!WritersHeld'
    BY <1>1 DEF RowRunnerPart!RunnerInv, RowRunnerPart!WritersHeld, RowRunnerPart!Running
  <1> QED BY <1>2, <1>3, <1>4 DEF RowRunnerPart!RunnerInv

LEMMA RowsStay ==
  ASSUME RowRunnerPart!RunnerInv, UNCHANGED <<r4, r5, r6, r9, r10, r11, r12, r13, r14>>
  PROVE  RowRunnerPart!RunnerInv'
PROOF
  <1>1. RowRunnerPart!PinsHeld'
    BY DEF RowRunnerPart!RunnerInv, RowRunnerPart!PinsHeld, RowRunnerPart!Running
  <1>2. RowRunnerPart!FilesHeld'
    BY DEF RowRunnerPart!RunnerInv, RowRunnerPart!FilesHeld, RowRunnerPart!Rightly
  <1>3. RowRunnerPart!WritersHeld'
    BY DEF RowRunnerPart!RunnerInv, RowRunnerPart!WritersHeld, RowRunnerPart!Running
  <1> QED BY <1>1, <1>2, <1>3 DEF RowRunnerPart!RunnerInv

LEMMA RowsAreOne == RowRunnerPart!RunnerInv => RowRunnerPart!FoldsOneConfiguration
PROOF
  <1> SUFFICES ASSUME RowRunnerPart!RunnerInv PROVE RowRunnerPart!FoldsOneConfiguration
    OBVIOUS
  <1>1. \A i \in RowRunnerPart!RowsOfRun : r14[i] <= 1
    BY DEF RowRunnerPart!RunnerInv, RowRunnerPart!WritersHeld
  <1>2. ASSUME ~r13, NEW i \in RowRunnerPart!RowsOfRun, RowRunnerPart!FoldsRow(i), r11[1][i].status = "ok",
               NEW p \in 1..RowPasses
        PROVE  r11[p][i].factor = r11[1][i].factor
    <2>1. 1 \in 1..RowPasses
      BY <1>2, HarnessAssumption DEF HarnessAssumption
    <2>2. r11[p][i].status = "ok"
      BY <1>2, <2>1 DEF RowRunnerPart!FoldsRow
    <2>3. RowRunnerPart!Rightly(i, r11[p][i]) /\ RowRunnerPart!Rightly(i, r11[1][i])
      BY <1>2, <2>1 DEF RowRunnerPart!RunnerInv, RowRunnerPart!FilesHeld
    <2> QED BY <1>2, <2>2, <2>3 DEF RowRunnerPart!Rightly
  <1> QED BY <1>1, <1>2 DEF RowRunnerPart!FoldsOneConfiguration

LEMMA RowStep == RowHeld /\ [PartsNext]_pvars => RowHeld'
PROOF
  <1> SUFFICES ASSUME RowHeld, [PartsNext]_pvars, part' = "row"
               PROVE  RowRunnerPart!RunnerInv'
    BY DEF RowHeld
  <1>1. part = "row" /\ RowRunnerPart!RunnerInv
    BY PartStays DEF RowHeld
  <1>2. CASE RowRunnerPart!RunnerNext
    BY <1>1, <1>2, StepStartPass, StepGateRow, StepRunRow, StepSkipRow, StepRunShort,
       StepPinFactor, StepRunDirty, StepKeepRow, StepWriteRows, StepDie DEF RowRunnerPart!RunnerNext
  <1>3. CASE UNCHANGED pvars
    <2>1. UNCHANGED <<r4, r5, r6, r9, r10, r11, r12, r13, r14>>
      BY <1>3 DEF pvars, After0, After1, After4, After5, After6, After8, After9, After10,
                  After11, After13, After14, After15
    <2> QED BY <1>1, <2>1, RowsStay
  <1> QED BY <1>1, <1>2, <1>3 DEF PartsNext

-----------------------------------------------------------------------------
(* PassFold: r1 got.                                                          *)

FoldHeld == part = "fold" => r1 \in Seq(PassFoldPart!PassRows)

LEMMA FoldCounts == \A S : PassFoldPart!Cardinality(S) = Cardinality(S)
PROOF
  BY DEF PassFoldPart!Cardinality, Cardinality

(* A reordering of n places: no place is left out.                            *)
Reorder(f, n) == f \in [1..n -> 1..n] /\ \A i, j \in 1..n : f[i] = f[j] => i = j

LEMMA ReorderIsOnto ==
  ASSUME NEW n \in Nat, NEW f, Reorder(f, n) PROVE \A j \in 1..n : \E i \in 1..n : f[i] = j
PROOF
  <1>1. IsFiniteSet(1..n)
    BY FS_Interval
  <1>2. f \in Injection(1..n, 1..n)
    BY DEF Reorder, Injection, IsInjective
  <1>3. f \in Surjection(1..n, 1..n)
    BY <1>1, <1>2, FS_Injection
  <1> QED BY <1>3 DEF Surjection

(* S is where f takes its places from A.                                      *)
Before(S, f, A, n) ==
    S \subseteq 1..n /\ A \subseteq 1..n /\ \A i \in 1..n : i \in S <=> f[i] \in A

LEMMA ReorderCounts ==
  ASSUME NEW n \in Nat, NEW f, Reorder(f, n), NEW S, NEW A, Before(S, f, A, n)
  PROVE  PassFoldPart!Cardinality(S) = PassFoldPart!Cardinality(A)
PROOF
  <1> DEFINE g == [i \in S |-> f[i]]
  <1>1. IsFiniteSet(S)
    <2>1. IsFiniteSet(1..n) /\ S \in SUBSET (1..n)
      BY FS_Interval DEF Before
    <2> QED BY <2>1, FS_Subset
  <1>2. g \in [S -> A]
    BY DEF Before
  <1>3. \A x, y \in S : g[x] = g[y] => x = y
    BY DEF Reorder, Before
  <1>4. \A t \in A : \E x \in S : g[x] = t
    BY ReorderIsOnto DEF Before
  <1> HIDE DEF g
  <1>5. Cardinality(A) = Cardinality(S)
    BY <1>1, <1>2, <1>3, <1>4, SameCount
  <1> QED BY <1>5, FoldCounts

(* What is read of the passes, and of the same passes in another order.       *)
Reading(v, n) == v \in [1..n -> Nat] /\ Len(v) = n
Same(v, w, f, n) == Reading(v, n) /\ Reading(w, n) /\ \A i \in 1..n : w[i] = v[f[i]]

LEMMA SameMedian ==
  ASSUME NEW n \in Nat, NEW f, Reorder(f, n), NEW v, NEW w, Same(v, w, f, n)
  PROVE  PassFoldPart!Median(w) = PassFoldPart!Median(v)
PROOF
  <1>1. DOMAIN v = 1..n /\ DOMAIN w = 1..n /\ Len(v) = n /\ Len(w) = n
    BY DEF Same, Reading
  <1>2. f \in [1..n -> 1..n] /\ \A i \in 1..n : w[i] = v[f[i]]
    BY DEF Same, Reorder
  <1>3. PassFoldPart!Range(w) = PassFoldPart!Range(v)
    <2>1. \A j \in 1..n : \E i \in 1..n : f[i] = j
      BY ReorderIsOnto
    <2> QED BY <1>1, <1>2, <2>1 DEF PassFoldPart!Range
  <1>4. ASSUME NEW m
        PROVE 
               /\ PassFoldPart!Cardinality({i \in DOMAIN w : w[i] < m}) = PassFoldPart!Cardinality({i \in DOMAIN v : v[i] < m})
               /\ PassFoldPart!Cardinality({i \in DOMAIN w : w[i] > m}) = PassFoldPart!Cardinality({i \in DOMAIN v : v[i] > m})
    <2> DEFINE A == {i \in 1..n : v[i] < m}
               B == {i \in 1..n : v[i] > m}
               C == {i \in 1..n : w[i] < m}
               D == {i \in 1..n : w[i] > m}
    <2>1. Before(C, f, A, n)
      BY <1>2 DEF Before
    <2>2. Before(D, f, B, n)
      BY <1>2 DEF Before
    <2> HIDE DEF A, B, C, D
    <2>3. PassFoldPart!Cardinality(C) = PassFoldPart!Cardinality(A)
      BY <2>1, ReorderCounts
    <2>4. PassFoldPart!Cardinality(D) = PassFoldPart!Cardinality(B)
      BY <2>2, ReorderCounts
    <2> QED BY <1>1, <2>3, <2>4 DEF A, B, C, D
  <1>5. PassFoldPart!Middles(w) = PassFoldPart!Middles(v)
    BY <1>1, <1>3, <1>4, Zenon DEF PassFoldPart!Middles
  <1> QED BY <1>5, Zenon DEF PassFoldPart!Median

-----------------------------------------------------------------------------
(* The pass that is odd.                                                      *)
LEMMA OfTwo ==
  ASSUME NEW a \in Nat, NEW b \in Nat
  PROVE  /\ PassFoldPart!Max({a, b}) = (IF a >= b THEN a ELSE b)
         /\ PassFoldPart!Min({a, b}) = (IF a >= b THEN b ELSE a)
PROOF
  <1>1. CASE a >= b
    <2>1. \A x \in {a, b} : (\A y \in {a, b} : x >= y) <=> x = a
      BY <1>1
    <2>2. \A x \in {a, b} : (\A y \in {a, b} : x =< y) <=> x = b
      BY <1>1
    <2> QED BY <1>1, <2>1, <2>2 DEF PassFoldPart!Max, PassFoldPart!Min
  <1>2. CASE ~(a >= b)
    <2>1. \A x \in {a, b} : (\A y \in {a, b} : x >= y) <=> x = b
      BY <1>2
    <2>2. \A x \in {a, b} : (\A y \in {a, b} : x =< y) <=> x = a
      BY <1>2
    <2> QED BY <1>2, <2>1, <2>2 DEF PassFoldPart!Max, PassFoldPart!Min
  <1> QED BY <1>1, <1>2

(* The two that agree, and the third that does not.                           *)
LEMMA OddMeans ==
  ASSUME NEW v, Reading(v, 3), NEW i \in 1..3, NEW j \in 1..3, NEW k \in 1..3,
         i # j, i # k, j # k, PassFoldPart!Odd(v, i)
  PROVE  /\ 40 * (v[j] - v[k]) <= v[j] + v[k] /\ 40 * (v[k] - v[j]) <= v[j] + v[k]
         /\ \/ 10 * (2 * v[i] - (v[j] + v[k])) >= v[j] + v[k]
            \/ 10 * ((v[j] + v[k]) - 2 * v[i]) >= v[j] + v[k]
PROOF
  <1>1. DOMAIN v = 1..3 /\ v[i] \in Nat /\ v[j] \in Nat /\ v[k] \in Nat
    BY DEF Reading
  <1> DEFINE pair == {v[x] : x \in DOMAIN v \ {i}}
  <1>2. pair = {v[j], v[k]}
    <2>1. DOMAIN v \ {i} = {j, k}
      BY <1>1
    <2> QED BY <2>1
  <1>3. /\ 40 * (PassFoldPart!Max(pair) - PassFoldPart!Min(pair)) <= PassFoldPart!Max(pair) + PassFoldPart!Min(pair)
        /\ PassFoldPart!Apart(IF 2 * v[i] > PassFoldPart!Max(pair) + PassFoldPart!Min(pair)
                  THEN 2 * v[i] - (PassFoldPart!Max(pair) + PassFoldPart!Min(pair))
                  ELSE (PassFoldPart!Max(pair) + PassFoldPart!Min(pair)) - 2 * v[i], PassFoldPart!Max(pair) + PassFoldPart!Min(pair))
    BY Zenon DEF PassFoldPart!Odd
  <1> HIDE DEF pair
  <1>4. /\ PassFoldPart!Max(pair) = (IF v[j] >= v[k] THEN v[j] ELSE v[k])
        /\ PassFoldPart!Min(pair) = (IF v[j] >= v[k] THEN v[k] ELSE v[j])
    BY <1>1, <1>2, OfTwo
  <1> QED BY <1>1, <1>3, <1>4 DEF PassFoldPart!Apart

LEMMA OneIsOdd ==
  ASSUME NEW n \in Nat, NEW v, Reading(v, n) PROVE \A i, j \in PassFoldPart!Outliers(v) : i = j
PROOF
  <1> SUFFICES ASSUME NEW i \in PassFoldPart!Outliers(v), NEW j \in PassFoldPart!Outliers(v), i # j
               PROVE  FALSE
    OBVIOUS
  <1>1. Reading(v, 3) /\ DOMAIN v = 1..3 /\ PassFoldPart!AllRead(v) /\ i \in 1..3 /\ j \in 1..3
        /\ PassFoldPart!Odd(v, i) /\ PassFoldPart!Odd(v, j)
    BY DEF PassFoldPart!Outliers, Reading
  <1>2. PICK k \in 1..3 : i # k /\ j # k
    <2>1. \E k \in {1, 2, 3} : i # k /\ j # k
      BY <1>1
    <2> QED BY <2>1
  <1> DEFINE a == v[i]
             b == v[j]
             c == v[k]
  <1>3. a \in Nat \ {0} /\ b \in Nat \ {0} /\ c \in Nat \ {0}
    BY <1>1, <1>2 DEF Reading, PassFoldPart!AllRead
  <1>4. /\ 40 * (b - c) <= b + c /\ 40 * (c - b) <= b + c
        /\ \/ 10 * (2 * a - (b + c)) >= b + c
           \/ 10 * ((b + c) - 2 * a) >= b + c
    BY <1>1, <1>2, OddMeans
  <1>5. 40 * (a - c) <= a + c /\ 40 * (c - a) <= a + c
    BY <1>1, <1>2, OddMeans
  <1> HIDE DEF a, b, c
  <1> QED BY <1>3, <1>4, <1>5

LEMMA OutlierOf ==
  ASSUME NEW n \in Nat, NEW v, Reading(v, n), NEW i \in PassFoldPart!Outliers(v)
  PROVE  PassFoldPart!RepOutlier(v) = v[i]
PROOF
  <1>1. PassFoldPart!Outliers(v) = {i}
    BY OneIsOdd
  <1>2. PassFoldPart!Outliers(v) \subseteq Nat
    BY DEF PassFoldPart!Outliers, Reading
  <1>3. PassFoldPart!Min({i}) = i
    <2>1. i \in Nat /\ {i} = {i, i}
      BY <1>1, <1>2
    <2> QED BY <2>1, OfTwo
  <1> QED BY <1>1, <1>3 DEF PassFoldPart!RepOutlier

LEMMA SameOutlier ==
  ASSUME NEW n \in Nat, NEW f, Reorder(f, n), NEW v, NEW w, Same(v, w, f, n)
  PROVE  PassFoldPart!RepOutlier(w) = PassFoldPart!RepOutlier(v)
PROOF
  <1>1. /\ DOMAIN v = 1..n /\ DOMAIN w = 1..n /\ Len(v) = n /\ Len(w) = n
        /\ Reading(v, n) /\ Reading(w, n)
    BY DEF Same, Reading
  <1>2. f \in [1..n -> 1..n] /\ \A i \in 1..n : w[i] = v[f[i]]
    BY DEF Same, Reorder
  <1>3. \A j \in 1..n : \E i \in 1..n : f[i] = j
    BY ReorderIsOnto
  <1>4. PassFoldPart!AllRead(w) <=> PassFoldPart!AllRead(v)
    <2>1. ASSUME PassFoldPart!AllRead(v), NEW i \in 1..n PROVE w[i] > 0
      BY <1>1, <1>2, <2>1 DEF PassFoldPart!AllRead
    <2>2. ASSUME PassFoldPart!AllRead(w), NEW j \in 1..n PROVE v[j] > 0
      <3>1. PICK i \in 1..n : f[i] = j
        BY <1>3
      <3> QED BY <1>1, <1>2, <2>2, <3>1 DEF PassFoldPart!AllRead
    <2> QED BY <1>1, <2>1, <2>2 DEF PassFoldPart!AllRead
  <1>5. ASSUME NEW i \in 1..n PROVE PassFoldPart!Odd(w, i) <=> PassFoldPart!Odd(v, f[i])
    <2>1. {w[j] : j \in DOMAIN w \ {i}} = {v[j] : j \in DOMAIN v \ {f[i]}}
      <3>1. ASSUME NEW j \in 1..n, j # i PROVE f[j] \in 1..n /\ f[j] # f[i] /\ w[j] = v[f[j]]
        BY <1>2, <3>1 DEF Reorder
      <3>2. ASSUME NEW k \in 1..n, k # f[i] PROVE \E j \in 1..n : j # i /\ w[j] = v[k]
        <4>1. PICK j \in 1..n : f[j] = k
          BY <1>3
        <4> QED BY <1>2, <3>2, <4>1
      <3> DEFINE W == {w[j] : j \in (1..n) \ {i}}
                 V == {v[j] : j \in (1..n) \ {f[i]}}
      <3>3. W \subseteq V
        BY <3>1
      <3>4. V \subseteq W
        BY <3>2
      <3> QED BY <1>1, <3>3, <3>4
    <2> QED BY <1>2, <2>1 DEF PassFoldPart!Odd
  <1>6. \A i \in 1..n : i \in PassFoldPart!Outliers(w) <=> f[i] \in PassFoldPart!Outliers(v)
    BY <1>1, <1>2, <1>4, <1>5 DEF PassFoldPart!Outliers
  <1>7. PassFoldPart!Outliers(w) \subseteq 1..n /\ PassFoldPart!Outliers(v) \subseteq 1..n
    BY <1>1 DEF PassFoldPart!Outliers
  <1>8. CASE PassFoldPart!Outliers(v) = {}
    BY <1>6, <1>7, <1>8 DEF PassFoldPart!RepOutlier
  <1>9. CASE PassFoldPart!Outliers(v) # {}
    <2>1. PICK j \in PassFoldPart!Outliers(v) : TRUE
      BY <1>9
    <2>2. PICK i \in 1..n : f[i] = j
      BY <1>3, <1>7, <2>1
    <2>3. i \in PassFoldPart!Outliers(w)
      BY <1>6, <2>1, <2>2
    <2>4. PassFoldPart!RepOutlier(v) = v[j] /\ PassFoldPart!RepOutlier(w) = w[i]
      BY <1>1, <2>1, <2>3, OutlierOf
    <2> QED BY <1>2, <2>2, <2>4
  <1> QED BY <1>8, <1>9

-----------------------------------------------------------------------------
(* What drifts in one order drifts in no other, but its reverse.              *)
Up(v, n) == \A i, j \in 1..n : i < j => v[i] < v[j]
Down(v, n) == \A i, j \in 1..n : i < j => v[j] < v[i]

LEMMA RisesOver == ASSUME NEW n \in Nat, NEW v, Reading(v, n), PassFoldPart!Rising(v) PROVE Up(v, n)
PROOF
  <1>1. \A i \in 1..n : v[i] \in Nat
    BY DEF Reading
  <1>2. \A i \in 1..(n - 1) : v[i] < v[i + 1]
    BY DEF Reading, PassFoldPart!Rising
  <1> DEFINE S == {j \in 1..n : \E i \in 1..n : i < j /\ ~(v[i] < v[j])}
  <1>3. CASE S = {}
    BY <1>3 DEF Up
  <1>4. CASE S # {}
    <2>1. PICK j \in S : \A k \in S : j <= k
      BY <1>4, LeastExists, S \subseteq Nat
    <2>2. PICK i \in 1..n : i < j /\ ~(v[i] < v[j])
      BY <2>1
    <2>3. j - 1 \in 1..(n - 1) /\ j - 1 \in 1..n /\ j - 1 \notin S /\ (j - 1) + 1 = j /\ i <= j - 1
      BY <2>1, <2>2
    <2>4. v[j - 1] < v[j]
      BY <1>2, <2>3
    <2>5. i = j - 1 \/ v[i] < v[j - 1]
      BY <2>2, <2>3
    <2> HIDE DEF S
    <2> QED BY <1>1, <2>2, <2>3, <2>4, <2>5
  <1> QED BY <1>3, <1>4

LEMMA FallsOver == ASSUME NEW n \in Nat, NEW v, Reading(v, n), PassFoldPart!Falling(v) PROVE Down(v, n)
PROOF
  <1>1. \A i \in 1..n : v[i] \in Nat
    BY DEF Reading
  <1>2. \A i \in 1..(n - 1) : v[i + 1] < v[i]
    BY <1>1 DEF Reading, PassFoldPart!Falling
  <1> DEFINE S == {j \in 1..n : \E i \in 1..n : i < j /\ ~(v[j] < v[i])}
  <1>3. CASE S = {}
    BY <1>3 DEF Down
  <1>4. CASE S # {}
    <2>1. PICK j \in S : \A k \in S : j <= k
      BY <1>4, LeastExists, S \subseteq Nat
    <2>2. PICK i \in 1..n : i < j /\ ~(v[j] < v[i])
      BY <2>1
    <2>3. j - 1 \in 1..(n - 1) /\ j - 1 \in 1..n /\ j - 1 \notin S /\ (j - 1) + 1 = j /\ i <= j - 1
      BY <2>1, <2>2
    <2>4. v[j] < v[j - 1]
      BY <1>2, <2>3
    <2>5. i = j - 1 \/ v[j - 1] < v[i]
      BY <2>2, <2>3
    <2> HIDE DEF S
    <2> QED BY <1>1, <2>2, <2>3, <2>4, <2>5
  <1> QED BY <1>3, <1>4

LEMMA UpIsIdentity ==
  ASSUME NEW n \in Nat, NEW f, Reorder(f, n), Up(f, n) PROVE \A i \in 1..n : f[i] = i
PROOF
  <1> DEFINE S == {i \in 1..n : f[i] # i}
  <1>0. \A i \in 1..n : f[i] \in 1..n
    BY DEF Reorder
  <1>1. CASE S = {}
    BY <1>1
  <1>2. CASE S # {}
    <2>1. PICK i \in S : \A k \in S : i <= k
      BY <1>2, LeastExists, S \subseteq Nat
    <2>2. \A j \in 1..n : j < i => f[j] = j
      BY <2>1
    <2>3. PICK k \in 1..n : f[k] = i
      BY <2>1, ReorderIsOnto
    <2>4. i < k
      BY <2>1, <2>2, <2>3
    <2>5. f[i] \in 1..n /\ f[i] < i
      BY <1>0, <2>1, <2>3, <2>4 DEF Up
    <2>6. f[f[i]] = f[i]
      BY <2>2, <2>5
    <2> QED BY <2>1, <2>5, <2>6 DEF Reorder
  <1> QED BY <1>1, <1>2

LEMMA DownIsReverse ==
  ASSUME NEW n \in Nat, NEW f, Reorder(f, n), Down(f, n) PROVE \A i \in 1..n : f[i] = n + 1 - i
PROOF
  <1> DEFINE g == [i \in 1..n |-> n + 1 - f[i]]
  <1>1. \A i \in 1..n : f[i] \in 1..n /\ g[i] = n + 1 - f[i] /\ g[i] \in 1..n
    BY DEF Reorder
  <1>2. g \in [1..n -> 1..n]
    BY <1>1
  <1> HIDE DEF g
  <1>3. \A i, j \in 1..n : g[i] = g[j] => i = j
    <2> SUFFICES ASSUME NEW i \in 1..n, NEW j \in 1..n, g[i] = g[j] PROVE i = j
      OBVIOUS
    <2>1. f[i] = f[j]
      BY <1>1
    <2> QED BY <2>1 DEF Reorder
  <1>4. Up(g, n)
    <2> SUFFICES ASSUME NEW i \in 1..n, NEW j \in 1..n, i < j PROVE g[i] < g[j]
      BY DEF Up
    <2>1. f[j] < f[i]
      BY DEF Down
    <2> QED BY <1>1, <2>1
  <1>5. \A i \in 1..n : g[i] = i
    BY <1>2, <1>3, <1>4, UpIsIdentity DEF Reorder
  <1> QED BY <1>1, <1>5

LEMMA DriftsOneWay ==
  ASSUME NEW n \in Nat, NEW v, Reading(v, n), PassFoldPart!RepDrift(v) # 0
  PROVE  n >= 3 /\ PassFoldPart!AllRead(v) /\ (Up(v, n) \/ Down(v, n))
PROOF
  <1>1. n >= 3 /\ PassFoldPart!AllRead(v) /\ (PassFoldPart!Rising(v) \/ PassFoldPart!Falling(v))
    BY DEF PassFoldPart!RepDrift, Reading
  <1> QED BY <1>1, RisesOver, FallsOver

LEMMA OnlyTheEnds ==
  ASSUME NEW n \in Nat, NEW f, Reorder(f, n), NEW v, NEW w, Same(v, w, f, n),
         Up(v, n) \/ Down(v, n), Up(w, n) \/ Down(w, n)
  PROVE  (\A i \in 1..n : f[i] = i) \/ (\A i \in 1..n : f[i] = n + 1 - i)
PROOF
  <1>1. /\ \A i \in 1..n : f[i] \in 1..n /\ w[i] = v[f[i]]
        /\ \A i, j \in 1..n : f[i] = f[j] => i = j
        /\ \A i \in 1..n : v[i] \in Nat
    BY DEF Same, Reading, Reorder
  <1>2. Up(f, n) \/ Down(f, n)
    <2>1. ASSUME Up(v, n), Up(w, n) PROVE Up(f, n)
      <3> SUFFICES ASSUME NEW i \in 1..n, NEW j \in 1..n, i < j PROVE f[i] < f[j]
        BY DEF Up
      <3>1. v[f[i]] < v[f[j]]
        BY <1>1, <2>1 DEF Up
      <3>2. f[j] < f[i] => v[f[j]] < v[f[i]]
        BY <1>1, <2>1 DEF Up
      <3> QED BY <1>1, <3>1, <3>2
    <2>2. ASSUME Down(v, n), Down(w, n) PROVE Up(f, n)
      <3> SUFFICES ASSUME NEW i \in 1..n, NEW j \in 1..n, i < j PROVE f[i] < f[j]
        BY DEF Up
      <3>1. v[f[j]] < v[f[i]]
        BY <1>1, <2>2 DEF Down
      <3>2. f[j] < f[i] => v[f[i]] < v[f[j]]
        BY <1>1, <2>2 DEF Down
      <3> QED BY <1>1, <3>1, <3>2
    <2>3. ASSUME Up(v, n), Down(w, n) PROVE Down(f, n)
      <3> SUFFICES ASSUME NEW i \in 1..n, NEW j \in 1..n, i < j PROVE f[j] < f[i]
        BY DEF Down
      <3>1. v[f[j]] < v[f[i]]
        BY <1>1, <2>3 DEF Down
      <3>2. f[i] < f[j] => v[f[i]] < v[f[j]]
        BY <1>1, <2>3 DEF Up
      <3> QED BY <1>1, <3>1, <3>2
    <2>4. ASSUME Down(v, n), Up(w, n) PROVE Down(f, n)
      <3> SUFFICES ASSUME NEW i \in 1..n, NEW j \in 1..n, i < j PROVE f[j] < f[i]
        BY DEF Down
      <3>1. v[f[i]] < v[f[j]]
        BY <1>1, <2>4 DEF Up
      <3>2. f[i] < f[j] => v[f[j]] < v[f[i]]
        BY <1>1, <2>4 DEF Down
      <3> QED BY <1>1, <3>1, <3>2
    <2> QED BY <2>1, <2>2, <2>3, <2>4
  <1> QED BY <1>2, UpIsIdentity, DownIsReverse

(* The rows of the passes, all of one status, in two orders.                  *)
TwoOrders(a, b, f, n) ==
    /\ a \in Seq(PassFoldPart!PassRows) /\ Len(a) = n /\ b \in Seq(PassFoldPart!PassRows) /\ Len(b) = n
    /\ \A i \in 1..n : b[i] = a[f[i]]
    /\ PassFoldPart!Agreed(a)

LEMMA ReadingsOf ==
  ASSUME NEW n \in Nat, NEW a \in Seq(PassFoldPart!PassRows), Len(a) = n
  PROVE  Reading(PassFoldPart!Values(a), n)
PROOF
  <1>1. /\ DOMAIN a = 1..n /\ \A i \in 1..n : a[i] \in PassFoldPart!PassRows
    BY ElementOfSeq
  <1>2. \A r \in PassFoldPart!PassRows : r.qps \in Nat
    <2>1. QpsValues \subseteq Nat
      BY HarnessAssumption DEF HarnessAssumption
    <2>2. ASSUME NEW r \in PassFoldPart!PassRows PROVE r.qps \in QpsValues \cup {0}
      <3>1. CASE r \in [status : {"ok"}, qps : QpsValues, foreign : BOOLEAN, gate : {"pass", "FAIL"}]
        BY <3>1
      <3>2. CASE r \in {[status |-> st, qps |-> 0, foreign |-> FALSE, gate |-> "pass"] :
                           st \in {"failed", "na"}}
        BY <3>2
      <3> QED BY <2>2, <3>1, <3>2, Zenon DEF PassFoldPart!PassRows
    <2>3. QpsValues \cup {0} \subseteq Nat
      BY <2>1
    <2> QED BY <2>2, <2>3
  <1>3. PassFoldPart!Values(a) \in [1..n -> Nat]
    BY <1>1, <1>2 DEF PassFoldPart!Values
  <1> HIDE DEF PassFoldPart!Values
  <1>4. PassFoldPart!Values(a) \in Seq(Nat)
    BY <1>3 DEF Seq
  <1>5. Len(PassFoldPart!Values(a)) = n
    BY <1>3, <1>4
  <1> QED BY <1>3, <1>5 DEF Reading

LEMMA FoldsRead ==
  ASSUME NEW n \in Nat \ {0}, NEW f, Reorder(f, n), NEW a, NEW b, TwoOrders(a, b, f, n)
  PROVE  Same(PassFoldPart!Values(a), PassFoldPart!Values(b), f, n)
PROOF
  <1>1. Reading(PassFoldPart!Values(a), n) /\ Reading(PassFoldPart!Values(b), n)
    BY ReadingsOf DEF TwoOrders
  <1>2. \A i \in 1..n : f[i] \in 1..n
    BY DEF Reorder
  <1>3. DOMAIN a = 1..n /\ DOMAIN b = 1..n /\ \A i \in 1..n : b[i] = a[f[i]]
    BY DEF TwoOrders
  <1>4. \A i \in 1..n : PassFoldPart!Values(b)[i] = PassFoldPart!Values(a)[f[i]]
    BY <1>2, <1>3 DEF PassFoldPart!Values
  <1> QED BY <1>1, <1>4 DEF Same

LEMMA FoldsTheSame ==
  ASSUME NEW n \in Nat \ {0}, NEW f, Reorder(f, n), NEW a, NEW b, TwoOrders(a, b, f, n)
  PROVE  /\ PassFoldPart!FoldRow(b).status = PassFoldPart!FoldRow(a).status
         /\ PassFoldPart!FoldRow(b).qps = PassFoldPart!FoldRow(a).qps
         /\ PassFoldPart!FoldRow(b).foreign = PassFoldPart!FoldRow(a).foreign
         /\ PassFoldPart!FoldRow(b).gate = PassFoldPart!FoldRow(a).gate
         /\ PassFoldPart!FoldRow(b).outlier = PassFoldPart!FoldRow(a).outlier
PROOF
  <1>1. /\ DOMAIN a = 1..n /\ DOMAIN b = 1..n
        /\ \A i \in 1..n : b[i] = a[f[i]] /\ f[i] \in 1..n
    <2>1. \A i \in 1..n : f[i] \in 1..n
      BY DEF Reorder
    <2>2. DOMAIN a = 1..n /\ DOMAIN b = 1..n
      BY DEF TwoOrders
    <2> QED BY <2>1, <2>2 DEF TwoOrders
  <1>2. \A j \in 1..n : \E i \in 1..n : f[i] = j
    BY ReorderIsOnto
  <1>3. Same(PassFoldPart!Values(a), PassFoldPart!Values(b), f, n)
    BY FoldsRead
  <1>4. b[1].status = a[1].status
    BY <1>1 DEF TwoOrders, PassFoldPart!Agreed
  <1>5. /\ PassFoldPart!Median(PassFoldPart!Values(b)) = PassFoldPart!Median(PassFoldPart!Values(a))
        /\ PassFoldPart!RepOutlier(PassFoldPart!Values(b)) = PassFoldPart!RepOutlier(PassFoldPart!Values(a))
    BY <1>3, SameMedian, SameOutlier
  <1>6. PassFoldPart!FoldedForeign(b) = PassFoldPart!FoldedForeign(a)
    <2>1. PassFoldPart!FoldedForeign(b) <=> PassFoldPart!FoldedForeign(a)
      <3>1. ASSUME NEW j \in 1..n, a[j].foreign PROVE \E i \in 1..n : b[i].foreign
        <4>1. PICK i \in 1..n : f[i] = j
          BY <1>2
        <4> QED BY <1>1, <3>1, <4>1
      <3>2. ASSUME NEW i \in 1..n, b[i].foreign PROVE \E j \in 1..n : a[j].foreign
        BY <1>1, <3>2
      <3> QED BY <1>1, <3>1, <3>2, Zenon DEF PassFoldPart!FoldedForeign
    <2> QED BY <2>1, Zenon DEF PassFoldPart!FoldedForeign
  <1>7. PassFoldPart!FoldedGate(b) = PassFoldPart!FoldedGate(a)
    <2>1. (\E i \in DOMAIN b : b[i].gate = "FAIL") <=> (\E i \in DOMAIN a : a[i].gate = "FAIL")
      <3>1. ASSUME NEW j \in 1..n, a[j].gate = "FAIL" PROVE \E i \in 1..n : b[i].gate = "FAIL"
        <4>1. PICK i \in 1..n : f[i] = j
          BY <1>2
        <4> QED BY <1>1, <3>1, <4>1
      <3>2. ASSUME NEW i \in 1..n, b[i].gate = "FAIL" PROVE \E j \in 1..n : a[j].gate = "FAIL"
        BY <1>1, <3>2
      <3> QED BY <1>1, <3>1, <3>2, Zenon
    <2> QED BY <2>1 DEF PassFoldPart!FoldedGate
  <1> QED BY <1>4, <1>5, <1>6, <1>7, Zenon DEF PassFoldPart!FoldRow

LEMMA OrderTells ==
  ASSUME r1 \in Seq(PassFoldPart!PassRows) PROVE PassFoldPart!OrderHidesNothing
PROOF
  <1> DEFINE n == FoldPasses
             v == PassFoldPart!Values(r1)
  <1> SUFFICES ASSUME Len(r1) = n, PassFoldPart!Agreed(r1), n \in Nat \ {0}
               PROVE
        LET r == PassFoldPart!FoldRow(r1)
        IN  /\ \A f \in PassFoldPart!Orders :
                  LET o == PassFoldPart!FoldRow(PassFoldPart!Reordered(f))
                  IN  /\ [o EXCEPT !.drift = 0] = [r EXCEPT !.drift = 0]
                      /\ f = [i \in 1..n |-> n + 1 - i] /\ r.drift = 1 => o.drift \in {0, -1}
                      /\ r.drift * o.drift # 0 => f \in {[i \in 1..n |-> i], [i \in 1..n |-> n + 1 - i]}
            /\ PassFoldPart!Cardinality(PassFoldPart!Outliers(v)) <= 1
            /\ ~(r.outlier # 0 /\ r.drift # 0)
    BY HarnessAssumption, Zenon DEF PassFoldPart!OrderHidesNothing, HarnessAssumption
  <1> DEFINE r == PassFoldPart!FoldRow(r1)
  <1> HIDE DEF n
  <1>1. Reading(v, n)
    BY ReadingsOf
  <1>2. ASSUME NEW f \in PassFoldPart!Orders
        PROVE  LET o == PassFoldPart!FoldRow(PassFoldPart!Reordered(f))
               IN  /\ [o EXCEPT !.drift = 0] = [r EXCEPT !.drift = 0]
                   /\ f = [i \in 1..n |-> n + 1 - i] /\ r.drift = 1 => o.drift \in {0, -1}
                   /\ r.drift * o.drift # 0 => f \in {[i \in 1..n |-> i], [i \in 1..n |-> n + 1 - i]}
    <2> DEFINE b == PassFoldPart!Reordered(f)
               w == PassFoldPart!Values(b)
               o == PassFoldPart!FoldRow(b)
    <2>1. Reorder(f, n)
      BY DEF PassFoldPart!Orders, PassFoldPart!IsInjective, Reorder, n
    <2>2. b = [i \in 1..n |-> r1[f[i]]]
      BY DEF PassFoldPart!Reordered, n
    <2> HIDE DEF b
    <2>3. TwoOrders(r1, b, f, n)
      <3>1. DOMAIN r1 = 1..n /\ \A i \in 1..n : r1[i] \in PassFoldPart!PassRows
        BY ElementOfSeq
      <3>2. \A i \in 1..n : f[i] \in 1..n
        BY <2>1 DEF Reorder
      <3>3. b \in [1..n -> PassFoldPart!PassRows]
        BY <2>2, <3>1, <3>2
      <3>4. b \in Seq(PassFoldPart!PassRows)
        BY <3>3 DEF Seq
      <3>5. Len(b) = n
        BY <3>3, <3>4
      <3> QED BY <2>2, <3>4, <3>5 DEF TwoOrders
    <2>4. Same(v, w, f, n)
      BY <2>1, <2>3, FoldsRead
    <2>5. /\ o.status = r.status /\ o.qps = r.qps /\ o.foreign = r.foreign
          /\ o.gate = r.gate /\ o.outlier = r.outlier
      BY <2>1, <2>3, FoldsTheSame
    <2>6. /\ DOMAIN o = {"status", "qps", "foreign", "gate", "outlier", "drift"}
          /\ DOMAIN r = {"status", "qps", "foreign", "gate", "outlier", "drift"}
      BY DEF PassFoldPart!FoldRow
    <2>7. /\ r.drift = (IF PassFoldPart!RepOutlier(v) # 0 THEN 0 ELSE PassFoldPart!RepDrift(v))
          /\ o.drift = (IF PassFoldPart!RepOutlier(w) # 0 THEN 0 ELSE PassFoldPart!RepDrift(w))
      BY DEF PassFoldPart!FoldRow
    <2>8. PassFoldPart!RepDrift(v) \in {0, 1, -1} /\ PassFoldPart!RepDrift(w) \in {0, 1, -1}
      BY DEF PassFoldPart!RepDrift
    <2> HIDE DEF r, o, v, w
    <2>9. [o EXCEPT !.drift = 0] = [r EXCEPT !.drift = 0]
      BY <2>5, <2>6
    <2>10. ASSUME f = [i \in 1..n |-> n + 1 - i], r.drift = 1 PROVE o.drift \in {0, -1}
      <3>1. PassFoldPart!RepDrift(v) = 1
        BY <2>7, <2>10
      <3>2. n >= 3 /\ PassFoldPart!Rising(v)
        BY <1>1, <3>1 DEF PassFoldPart!RepDrift, Reading
      <3>3. v[1] \in Nat /\ v[2] \in Nat /\ v[1] < v[2] /\ Reading(w, n)
        BY <1>1, <2>4, <3>2 DEF PassFoldPart!Rising, Reading, Same
      <3>4. n - 1 \in 1..n /\ n \in 1..n /\ (n - 1) + 1 = n /\ n - 1 \in 1..(n - 1)
        BY <3>2
      <3>5. w[n - 1] = v[2] /\ w[n] = v[1]
        BY <2>4, <2>10, <3>4 DEF Same
      <3>6. ~PassFoldPart!Rising(w)
        BY <3>3, <3>4, <3>5 DEF PassFoldPart!Rising, Reading
      <3>7. PassFoldPart!RepDrift(w) # 1
        BY <3>6 DEF PassFoldPart!RepDrift
      <3> QED BY <2>7, <2>8, <3>7
    <2>11. ASSUME r.drift * o.drift # 0
           PROVE  f \in {[i \in 1..n |-> i], [i \in 1..n |-> n + 1 - i]}
      <3>1. PassFoldPart!RepDrift(v) # 0 /\ PassFoldPart!RepDrift(w) # 0
        BY <2>7, <2>8, <2>11
      <3>2. (Up(v, n) \/ Down(v, n)) /\ (Up(w, n) \/ Down(w, n))
        BY <2>4, <3>1, DriftsOneWay DEF Same
      <3>3. (\A i \in 1..n : f[i] = i) \/ (\A i \in 1..n : f[i] = n + 1 - i)
        BY <2>1, <2>4, <3>2, OnlyTheEnds
      <3> QED BY <2>1, <3>3 DEF Reorder
    <2> QED BY <2>9, <2>10, <2>11, Zenon DEF o, b
  <1>3. PassFoldPart!Cardinality(PassFoldPart!Outliers(v)) <= 1
    <2>1. CASE PassFoldPart!Outliers(v) = {}
      BY <2>1, FoldCounts, FS_EmptySet
    <2>2. CASE PassFoldPart!Outliers(v) # {}
      <3>1. PICK i \in PassFoldPart!Outliers(v) : PassFoldPart!Outliers(v) = {i}
        BY <1>1, <2>2, OneIsOdd
      <3>2. Cardinality({i}) = 1
        BY FS_Singleton
      <3>3. PassFoldPart!Cardinality(PassFoldPart!Outliers(v)) = 1
        BY <3>1, <3>2, FoldCounts
      <3> QED BY <3>3
    <2> QED BY <2>1, <2>2
  <1>4. ~(r.outlier # 0 /\ r.drift # 0)
    BY DEF PassFoldPart!FoldRow
  <1> QED BY <1>2, <1>3, <1>4, Zenon DEF r

LEMMA FoldStart == PartsInit => FoldHeld
PROOF
  BY DEF PartsInit, FoldHeld, PassFoldPart!FoldInit

LEMMA FoldStep == FoldHeld /\ [PartsNext]_pvars => FoldHeld'
PROOF
  <1> SUFFICES ASSUME FoldHeld, [PartsNext]_pvars, part' = "fold"
               PROVE  r1' \in Seq(PassFoldPart!PassRows)
    BY DEF FoldHeld
  <1>1. part = "fold" /\ r1 \in Seq(PassFoldPart!PassRows)
    BY PartStays DEF FoldHeld
  <1>2. CASE PassFoldPart!FoldNext
    <2>1. PICK r \in PassFoldPart!PassRows : r1' = Append(r1, r)
      BY <1>2 DEF PassFoldPart!FoldNext, PassFoldPart!MeasurePass
    <2> QED BY <1>1, <2>1
  <1>3. CASE UNCHANGED pvars
    BY <1>1, <1>3 DEF pvars, After0
  <1> QED BY <1>1, <1>2, <1>3 DEF PartsNext

(* A row that is folded says so: its passes ran one configuration, however    *)
(* often the runner took them again, and the fold of them reads the same, but *)
(* for a drift, in whatever order they came (results.py, workloads.py,        *)
(* aggregate.py).                                                             *)
THEOREM FoldsSaySoCorrect == PartsSpec => []FoldsSaySo
PROOF
  <1>1. PartsInit => RowHeld /\ FoldHeld
    BY RowsStart, FoldStart DEF PartsInit, RowHeld
  <1>2. RowHeld /\ FoldHeld => FoldsSaySo
    BY RowsAreOne, OrderTells DEF RowHeld, FoldHeld, FoldsSaySo
  <1> QED BY <1>1, <1>2, RowStep, FoldStep, PTL DEF PartsSpec, pvars

-----------------------------------------------------------------------------
(* Sampler: r1 step, r2 engine, r3 live, r4 before, r5 after, r6 sampler, r7  *)
(* inFlight, r8 first, r9 last, r10 new, r11 span, r12 late, r13 banked, r14  *)
(* perf, r15 row, r16 upsets.  Its sums are folds over finite sets: of a set  *)
(* of counterexamples to what is said of them one is smallest.                *)

LEMMA SmallestBad ==
  ASSUME NEW S, IsFiniteSet(S), NEW Bad, Bad \subseteq SUBSET S, Bad # {}
  PROVE  \E U \in Bad : \A c \in U : U \ {c} \notin Bad
PROOF
  <1> DEFINE Sizes == {Cardinality(U) : U \in Bad}
  <1>1. \A U \in Bad : IsFiniteSet(U) /\ Cardinality(U) \in Nat
    BY FS_Subset, FS_CardinalityType
  <1>2. Sizes \subseteq Nat /\ Sizes # {}
    BY <1>1
  <1>3. PICK n \in Sizes : \A k \in Sizes : n <= k
    <2> HIDE DEF Sizes
    <2> QED BY <1>2, LeastExists
  <1>4. PICK U \in Bad : Cardinality(U) = n
    OBVIOUS
  <1>5. ASSUME NEW c \in U PROVE U \ {c} \notin Bad
    <2>1. Cardinality(U \ {c}) = Cardinality(U) - 1
      BY <1>1, FS_RemoveElement
    <2>2. Cardinality(U) \in Nat
      BY <1>1
    <2>3. ~(n <= Cardinality(U \ {c}))
      BY <1>4, <2>1, <2>2
    <2> QED BY <1>3, <2>3
  <1> QED BY <1>5

(* s sums g over each of its domain's subsets, whichever element goes first.  *)
Sums(s, g) ==
    /\ s \in [SUBSET DOMAIN g -> Int] /\ s[{}] = 0
    /\ \A U \in SUBSET DOMAIN g : \A c \in U : s[U] = g[c] + s[U \ {c}]

LEMMA SumsExist ==
  ASSUME NEW D, IsFiniteSet(D), NEW g \in [D -> Int] PROVE \E s : Sums(s, g)
PROOF
  <1> DEFINE Part(s, U) ==
               /\ s \in [SUBSET U -> Int] /\ s[{}] = 0
               /\ \A V \in SUBSET U : \A c \in V : s[V] = g[c] + s[V \ {c}]
             Bad == {U \in SUBSET D : ~\E s : Part(s, U)}
  <1>1. CASE Bad = {}
    <2>1. \E s : Part(s, D)
      BY <1>1
    <2> QED BY <2>1 DEF Sums
  <1>2. CASE Bad # {}
    <2>1. PICK U \in Bad : \A c \in U : U \ {c} \notin Bad
      <3>1. Bad \subseteq SUBSET D
        OBVIOUS
      <3> HIDE DEF Bad
      <3> QED BY <1>2, <3>1, SmallestBad
    <2>2. ~\E s : Part(s, U)
      BY <2>1
    <2>3. CASE U = {}
      <3> DEFINE s == [V \in {{}} |-> 0]
      <3>1. SUBSET U = {{}}
        BY <2>3
      <3>2. s \in [SUBSET U -> Int] /\ s[{}] = 0
        BY <3>1
      <3>3. \A V \in SUBSET U : V = {}
        BY <3>1
      <3> HIDE DEF s
      <3>4. Part(s, U)
        BY <3>2, <3>3
      <3> QED BY <2>2, <3>4
    <2>4. CASE U # {}
      <3>1. PICK x \in U : TRUE
        BY <2>4
      <3>2. U \ {x} \in SUBSET D /\ U \ {x} \notin Bad
        BY <2>1
      <3>3. PICK s : Part(s, U \ {x})
        BY <3>2
      <3> DEFINE r == [V \in SUBSET U |-> IF x \in V THEN g[x] + s[V \ {x}] ELSE s[V]]
      <3>4. g[x] \in Int /\ \A V \in SUBSET U : V \ {x} \in SUBSET (U \ {x}) /\ s[V \ {x}] \in Int
        BY <3>1, <3>3
      <3>5. \A V \in SUBSET U : x \notin V => V \in SUBSET (U \ {x}) /\ s[V] \in Int
        BY <3>3
      <3>6. r \in [SUBSET U -> Int] /\ r[{}] = 0
        BY <3>3, <3>4, <3>5
      <3>7. ASSUME NEW V \in SUBSET U, NEW c \in V PROVE r[V] = g[c] + r[V \ {c}]
        <4>1. V \ {c} \in SUBSET U /\ g[c] \in Int
          OBVIOUS
        <4>2. CASE c = x
          <5>1. r[V] = g[x] + s[V \ {x}] /\ r[V \ {c}] = s[V \ {x}]
            BY <4>1, <4>2
          <5> QED BY <4>2, <5>1
        <4>3. CASE c # x /\ x \in V
          <5>1. r[V] = g[x] + s[V \ {x}] /\ r[V \ {c}] = g[x] + s[(V \ {c}) \ {x}]
            BY <4>1, <4>3
          <5>2. s[V \ {x}] = g[c] + s[(V \ {x}) \ {c}]
            BY <3>3, <3>4, <4>3
          <5> DEFINE z == s[(V \ {c}) \ {x}]
          <5>3. z \in Int
            BY <3>4, <4>1
          <5>4. (V \ {x}) \ {c} = (V \ {c}) \ {x}
            OBVIOUS
          <5>5. r[V] = g[x] + (g[c] + z) /\ r[V \ {c}] = g[x] + z
            BY <5>1, <5>2, <5>4, Zenon
          <5> HIDE DEF r, z
          <5> QED BY <3>4, <4>1, <5>3, <5>5
        <4>4. CASE x \notin V
          <5>1. r[V] = s[V] /\ r[V \ {c}] = s[V \ {c}]
            BY <4>1, <4>4
          <5>2. s[V] = g[c] + s[V \ {c}]
            BY <3>3, <3>5, <4>4
          <5> QED BY <5>1, <5>2
        <4> QED BY <4>2, <4>3, <4>4
      <3> HIDE DEF r
      <3>8. Part(r, U)
        BY <3>6, <3>7
      <3> HIDE DEF Part
      <3> QED BY <2>2, <3>8
    <2> QED BY <2>3, <2>4
  <1> QED BY <1>1, <1>2

(* Whatever takes an element of its choosing off a set is such a sum.         *)
Iterates(it, g) ==
    /\ it[{}] = 0
    /\ \A U \in SUBSET DOMAIN g : \A c \in U :
          c = (CHOOSE e \in U : TRUE) /\ it[U \ {c}] \in Int => it[U] = it[U \ {c}] + g[c]

LEMMA IterateIsSum ==
  ASSUME NEW D, IsFiniteSet(D), NEW g \in [D -> Int], NEW s, Sums(s, g), NEW it, Iterates(it, g)
  PROVE  \A U \in SUBSET D : it[U] = s[U]
PROOF
  <1> DEFINE Bad == {U \in SUBSET D : it[U] # s[U]}
  <1> SUFFICES ASSUME Bad # {} PROVE FALSE
    OBVIOUS
  <1>1. PICK U \in Bad : \A c \in U : U \ {c} \notin Bad
    <2>1. Bad \subseteq SUBSET D
      OBVIOUS
    <2> HIDE DEF Bad
    <2> QED BY <2>1, SmallestBad
  <1>2. U \in SUBSET D /\ it[U] # s[U]
    OBVIOUS
  <1>3. U # {}
    BY <1>2 DEF Iterates, Sums
  <1>4. PICK c \in U : c = (CHOOSE e \in U : TRUE)
    BY <1>3
  <1>5. U \ {c} \in SUBSET D /\ it[U \ {c}] = s[U \ {c}]
    BY <1>1, <1>2
  <1>6. s[U] = g[c] + s[U \ {c}] /\ s[U \ {c}] \in Int /\ g[c] \in Int
    BY <1>2, <1>5 DEF Sums
  <1>7. it[U] = it[U \ {c}] + g[c]
    BY <1>2, <1>4, <1>5, <1>6 DEF Iterates
  <1> QED BY <1>2, <1>5, <1>6, <1>7

LEMMA SumsAgree ==
  ASSUME NEW D, IsFiniteSet(D), NEW g \in [D -> Int], NEW s, Sums(s, g), NEW r, Sums(r, g)
  PROVE  \A U \in SUBSET D : r[U] = s[U]
PROOF
  <1>1. Iterates(r, g)
    <2> SUFFICES ASSUME NEW U \in SUBSET D, NEW c \in U PROVE r[U] = r[U \ {c}] + g[c]
      BY DEF Iterates, Sums
    <2>1. r[U] = g[c] + r[U \ {c}] /\ r[U \ {c}] \in Int /\ g[c] \in Int
      BY DEF Sums
    <2> QED BY <2>1
  <1> QED BY <1>1, IterateIsSum

SumOf(g) == (CHOOSE s : Sums(s, g))[DOMAIN g]

LEMMA SumOfIs ==
  ASSUME NEW D, IsFiniteSet(D), NEW g \in [D -> Int], NEW s, Sums(s, g)
  PROVE  SumOf(g) = s[D] /\ SumOf(g) \in Int
PROOF
  <1> DEFINE r == CHOOSE q : Sums(q, g)
  <1>1. Sums(r, g)
    OBVIOUS
  <1>2. SumOf(g) = r[D]
    BY DEF SumOf
  <1> HIDE DEF r
  <1>3. D \in SUBSET D /\ \A U \in SUBSET D : r[U] = s[U]
    BY <1>1, SumsAgree
  <1>4. s[D] \in Int
    BY DEF Sums
  <1> QED BY <1>2, <1>3, <1>4

(* A larger summand has a larger sum; one of them may fall short by c.        *)
Val(g, u) == IF u \in DOMAIN g THEN g[u] ELSE 0
Slack(t, c, u) == IF u = t THEN c ELSE 0

LEMMA SumGrows ==
  ASSUME NEW D, IsFiniteSet(D), NEW g \in [D -> Int], NEW E, IsFiniteSet(E), NEW h \in [E -> Int],
         NEW t, NEW c \in Nat,
         \A u \in D \cup E : Val(g, u) <= Val(h, u) + Slack(t, c, u)
  PROVE  SumOf(g) <= SumOf(h) + c
PROOF
  <1>1. PICK s : Sums(s, g)
    BY SumsExist
  <1>2. PICK r : Sums(r, h)
    BY SumsExist
  <1> DEFINE S == D \cup E
             Less(U) == s[U \cap D] <= r[U \cap E] + (IF t \in U THEN c ELSE 0)
             Bad == {U \in SUBSET S : ~Less(U)}
  <1>3. Bad = {}
    <2> SUFFICES ASSUME Bad # {} PROVE FALSE
      OBVIOUS
    <2>1. PICK U \in Bad : \A e \in U : U \ {e} \notin Bad
      <3>1. Bad \subseteq SUBSET S /\ IsFiniteSet(S)
        BY FS_Union
      <3> HIDE DEF Bad, S
      <3> QED BY <3>1, SmallestBad
    <2>2. U \in SUBSET S /\ ~Less(U)
      OBVIOUS
    <2>3. U # {}
      <3> SUFFICES ASSUME U = {} PROVE FALSE
        OBVIOUS
      <3>1. U \cap D = {} /\ U \cap E = {} /\ t \notin U
        OBVIOUS
      <3>2. s[U \cap D] = 0 /\ r[U \cap E] = 0
        BY <1>1, <1>2, <3>1 DEF Sums
      <3> QED BY <2>2, <3>1, <3>2
    <2>4. PICK e \in U : TRUE
      BY <2>3
    <2> DEFINE V == U \ {e}
    <2>5. s[U \cap D] = Val(g, e) + s[V \cap D] /\ s[V \cap D] \in Int /\ Val(g, e) \in Int
      <3>1. V \cap D \in SUBSET D /\ s[V \cap D] \in Int
        BY <1>1 DEF Sums
      <3>2. CASE e \in D
        <4>1. s[U \cap D] = g[e] + s[(U \cap D) \ {e}]
          BY <1>1, <3>2 DEF Sums
        <4>2. (U \cap D) \ {e} = V \cap D
          OBVIOUS
        <4> QED BY <3>1, <3>2, <4>1, <4>2 DEF Val
      <3>3. CASE e \notin D
        <4>1. U \cap D = V \cap D
          BY <3>3
        <4>2. Val(g, e) = 0
          BY <3>3 DEF Val
        <4>3. s[U \cap D] = s[V \cap D]
          BY <4>1, Zenon
        <4> HIDE DEF V
        <4> QED BY <3>1, <4>2, <4>3
      <3> QED BY <3>2, <3>3
    <2>6. r[U \cap E] = Val(h, e) + r[V \cap E] /\ r[V \cap E] \in Int /\ Val(h, e) \in Int
      <3>1. V \cap E \in SUBSET E /\ r[V \cap E] \in Int
        BY <1>2 DEF Sums
      <3>2. CASE e \in E
        <4>1. r[U \cap E] = h[e] + r[(U \cap E) \ {e}]
          BY <1>2, <3>2 DEF Sums
        <4>2. (U \cap E) \ {e} = V \cap E
          OBVIOUS
        <4> QED BY <3>1, <3>2, <4>1, <4>2 DEF Val
      <3>3. CASE e \notin E
        <4>1. U \cap E = V \cap E
          BY <3>3
        <4>2. Val(h, e) = 0
          BY <3>3 DEF Val
        <4>3. r[U \cap E] = r[V \cap E]
          BY <4>1, Zenon
        <4> HIDE DEF V
        <4> QED BY <3>1, <4>2, <4>3
      <3> QED BY <3>2, <3>3
    <2>7. Less(V)
      BY <2>1, <2>2
    <2>8. Val(g, e) <= Val(h, e) + Slack(t, c, e)
      BY <2>2
    <2>9. /\ s[V \cap D] <= r[V \cap E] + (IF t \in V THEN c ELSE 0)
          /\ ~(s[U \cap D] <= r[U \cap E] + (IF t \in U THEN c ELSE 0))
      BY <2>2, <2>7
    <2>10. (IF t \in V THEN c ELSE 0) + Slack(t, c, e) = (IF t \in U THEN c ELSE 0)
      BY DEF Slack
    <2> DEFINE a == s[V \cap D]
               b == r[V \cap E]
               x == Val(g, e)
               y == Val(h, e)
               p == IF t \in V THEN c ELSE 0
               q == IF t \in U THEN c ELSE 0
               l == Slack(t, c, e)
    <2>11. a \in Int /\ b \in Int /\ x \in Int /\ y \in Int /\ p \in Nat /\ q \in Nat /\ l \in Nat
      BY <2>5, <2>6 DEF Slack
    <2>12. a <= b + p /\ x <= y + l /\ p + l = q /\ ~(x + a <= (y + b) + q)
      BY <2>5, <2>6, <2>8, <2>9, <2>10, Zenon
    <2> HIDE DEF a, b, x, y, p, q, l
    <2> QED BY <2>11, <2>12
  <1>4. Less(S)
    BY <1>3
  <1>5. s[D] <= r[E] + c
    <2>1. S \cap D = D /\ S \cap E = E
      OBVIOUS
    <2>2. r[E] \in Int /\ s[D] \in Int
      BY <1>1, <1>2 DEF Sums
    <2>3. s[D] <= r[E] + (IF t \in S THEN c ELSE 0)
      BY <1>4, <2>1
    <2> HIDE DEF S
    <2> QED BY <2>2, <2>3
  <1> QED BY <1>1, <1>2, <1>5, SumOfIs

LEMMA SumOfNone == ASSUME NEW g \in [{} -> Int] PROVE SumOf(g) = 0
PROOF
  <1>1. IsFiniteSet({})
    BY FS_EmptySet
  <1>2. PICK s : Sums(s, g)
    BY <1>1, SumsExist
  <1>3. s[{}] = 0
    BY <1>2 DEF Sums
  <1> QED BY <1>1, <1>2, <1>3, SumOfIs

LEMMA SumOfLow ==
  ASSUME NEW D, IsFiniteSet(D), NEW g \in [D -> Int], \A u \in D : g[u] <= 0
  PROVE  SumOf(g) <= 0
PROOF
  <1> DEFINE h == [u \in {} |-> 0]
  <1>1. h \in [{} -> Int] /\ IsFiniteSet({})
    BY FS_EmptySet
  <1>2. SumOf(h) = 0
    BY <1>1, SumOfNone
  <1> HIDE DEF h
  <1>3. \A u \in D \cup {} : Val(g, u) <= Val(h, u) + Slack(0, 0, u)
    BY <1>1 DEF Val, Slack
  <1>4. SumOf(g) <= SumOf(h) + 0
    BY <1>1, <1>3, SumGrows
  <1> QED BY <1>2, <1>4

LEMMA SumAtLeast ==
  ASSUME NEW D, IsFiniteSet(D), NEW g \in [D -> Int], \A u \in D : g[u] >= 0
  PROVE  SumOf(g) \in Nat /\ \A t \in D : g[t] <= SumOf(g)
PROOF
  <1>1. SumOf(g) \in Int
    BY SumsExist, SumOfIs
  <1>2. SumOf(g) >= 0
    <2> DEFINE h == [u \in {} |-> 0]
    <2>1. h \in [{} -> Int] /\ IsFiniteSet({})
      BY FS_EmptySet
    <2>2. SumOf(h) = 0
      BY <2>1, SumOfNone
    <2> HIDE DEF h
    <2>3. \A u \in {} \cup D : Val(h, u) <= Val(g, u) + Slack(0, 0, u)
      BY <2>1 DEF Val, Slack
    <2>4. SumOf(h) <= SumOf(g) + 0
      BY <2>1, <2>3, SumGrows
    <2> QED BY <1>1, <2>2, <2>4
  <1>3. ASSUME NEW t \in D PROVE g[t] <= SumOf(g)
    <2> DEFINE h == [u \in {t} |-> g[t]]
    <2>1. h \in [{t} -> Int] /\ IsFiniteSet({t}) /\ h[t] = g[t]
      BY FS_Singleton
    <2> HIDE DEF h
    <2>2. SumOf(h) = g[t]
      <3>1. PICK s : Sums(s, h)
        BY <2>1, SumsExist
      <3>2. s[{t}] = h[t] + s[{t} \ {t}] /\ s[{}] = 0
        BY <2>1, <3>1 DEF Sums
      <3>3. {t} \ {t} = {}
        OBVIOUS
      <3>4. s[{t}] = g[t]
        BY <2>1, <3>2, <3>3
      <3> QED BY <2>1, <3>1, <3>4, SumOfIs
    <2>3. \A u \in {t} \cup D : Val(h, u) <= Val(g, u) + Slack(0, 0, u)
      BY <2>1 DEF Val, Slack
    <2>4. SumOf(h) <= SumOf(g) + 0
      BY <2>1, <2>3, SumGrows
    <2> QED BY <1>1, <2>2, <2>4
  <1> QED BY <1>1, <1>2, <1>3

(* The folds of the model are such sums.                                      *)
LEMMA TotalIs ==
  ASSUME NEW f, IsFiniteSet(DOMAIN f), NEW k, \A t \in DOMAIN f : f[t][k] \in Int
  PROVE  SamplerPart!Total(f, k) = SumOf([t \in DOMAIN f |-> f[t][k]])
PROOF
  <1> DEFINE D == DOMAIN f
             g == [t \in D |-> f[t][k]]
             Once(it) == [U \in SUBSET D |->
                            IF U = {} THEN 0
                            ELSE it[U \ {CHOOSE x \in U : TRUE}] + f[CHOOSE x \in U : TRUE][k]]
             it == CHOOSE i : i = Once(i)
  <1>1. g \in [D -> Int] /\ IsFiniteSet(D)
    OBVIOUS
  <1>2. PICK s : Sums(s, g)
    BY <1>1, SumsExist
  <1>3. s = Once(s)
    <2>1. s = [U \in SUBSET D |-> s[U]]
      BY <1>2 DEF Sums
    <2>2. ASSUME NEW U \in SUBSET D
          PROVE  s[U] = IF U = {} THEN 0
                        ELSE s[U \ {CHOOSE x \in U : TRUE}] + f[CHOOSE x \in U : TRUE][k]
      <3>1. CASE U = {}
        BY <1>2, <3>1 DEF Sums
      <3>2. CASE U # {}
        <4>1. PICK c \in U : c = (CHOOSE x \in U : TRUE)
          BY <3>2
        <4>2. s[U] = g[c] + s[U \ {c}] /\ s[U \ {c}] \in Int /\ g[c] \in Int /\ g[c] = f[c][k]
          BY <1>1, <1>2 DEF Sums
        <4>3. s[U] = s[U \ {c}] + f[c][k]
          BY <4>2
        <4> QED BY <3>2, <4>1, <4>3
      <3> QED BY <3>1, <3>2
    <2> QED BY <2>1, <2>2
  <1>4. it = Once(it)
    BY <1>3
  <1>5. Iterates(it, g)
    <2>1. it[{}] = 0
      BY <1>4
    <2>2. ASSUME NEW U \in SUBSET D, NEW c \in U, c = (CHOOSE e \in U : TRUE)
          PROVE  it[U] = it[U \ {c}] + g[c]
      <3>1. U # {} /\ g[c] = f[c][k]
        OBVIOUS
      <3>2. it[U] = Once(it)[U]
        BY <1>4
      <3> HIDE DEF it
      <3> QED BY <2>2, <3>1, <3>2
    <2> HIDE DEF it
    <2> QED BY <2>1, <2>2 DEF Iterates
  <1>6. SamplerPart!Total(f, k) = it[D]
    BY DEF SamplerPart!Total, SamplerPart!FoldSet, SamplerPart!MapThenFoldSet
  <1> HIDE DEF it, g
  <1>7. it[D] = s[D]
    BY <1>1, <1>2, <1>5, IterateIsSum
  <1>8. SumOf(g) = s[D]
    BY <1>1, <1>2, SumOfIs
  <1> QED BY <1>6, <1>7, <1>8 DEF g
(* Of the sampler's sum, what it last read of a thread and what it first did. *)
Took(t, k) == r9[t][k]
Had(t, k) == IF t \in r10 THEN 0 ELSE r8[t][k]

LEMMA BankedIs ==
  ASSUME IsFiniteSet(DOMAIN r9), NEW k, \A t \in DOMAIN r9 : Took(t, k) \in Int /\ Had(t, k) \in Int
  PROVE  SamplerPart!Banked(k) = SumOf([t \in DOMAIN r9 |-> Took(t, k) - Had(t, k)])
PROOF
  <1> DEFINE D == DOMAIN r9
             g == [t \in D |-> Took(t, k) - Had(t, k)]
             Once(it) == [U \in SUBSET D |->
                            IF U = {} THEN 0
                            ELSE it[U \ {CHOOSE x \in U : TRUE}]
                               + Took((CHOOSE x \in U : TRUE), k) - Had((CHOOSE x \in U : TRUE), k)]
             it == CHOOSE i : i = Once(i)
  <1>1. g \in [D -> Int] /\ IsFiniteSet(D)
    OBVIOUS
  <1>2. PICK s : Sums(s, g)
    BY <1>1, SumsExist
  <1>3. s = Once(s)
    <2>1. s = [U \in SUBSET D |-> s[U]]
      BY <1>2 DEF Sums
    <2>2. ASSUME NEW U \in SUBSET D
          PROVE  s[U] = IF U = {} THEN 0
                        ELSE s[U \ {CHOOSE x \in U : TRUE}]
                                + Took((CHOOSE x \in U : TRUE), k) - Had((CHOOSE x \in U : TRUE), k)
      <3>1. CASE U = {}
        BY <1>2, <3>1 DEF Sums
      <3>2. CASE U # {}
        <4>1. PICK c \in U : c = (CHOOSE x \in U : TRUE)
          BY <3>2
        <4>2. /\ s[U] = g[c] + s[U \ {c}] /\ s[U \ {c}] \in Int /\ g[c] \in Int
              /\ g[c] = Took(c, k) - Had(c, k)
          BY <1>1, <1>2 DEF Sums
        <4>3. s[U] = s[U \ {c}] + Took(c, k) - Had(c, k)
          BY <4>2
        <4> QED BY <3>2, <4>1, <4>3
      <3> QED BY <3>1, <3>2
    <2> QED BY <2>1, <2>2
  <1>4. it = Once(it)
    BY <1>3
  <1>5. Iterates(it, g)
    <2>1. it[{}] = 0
      BY <1>4
    <2>2. ASSUME NEW U \in SUBSET D, NEW c \in U, c = (CHOOSE e \in U : TRUE)
          PROVE  it[U] = it[U \ {c}] + g[c]
      <3>1. U # {} /\ g[c] = Took(c, k) - Had(c, k)
        OBVIOUS
      <3>2. it[U] = Once(it)[U]
        BY <1>4
      <3> HIDE DEF it
      <3> QED BY <2>2, <3>1, <3>2
    <2> HIDE DEF it
    <2> QED BY <2>1, <2>2 DEF Iterates
  <1>6. SamplerPart!Banked(k) = it[D]
    BY DEF Took, Had, SamplerPart!Banked, SamplerPart!FoldSet, SamplerPart!MapThenFoldSet
  <1> HIDE DEF it, g
  <1>7. it[D] = s[D]
    BY <1>1, <1>2, <1>5, IterateIsSum
  <1>8. SumOf(g) = s[D]
    BY <1>1, <1>2, SumOfIs
  <1> QED BY <1>6, <1>7, <1>8 DEF g

LEMMA SharedIs ==
  ASSUME IsFiniteSet(Threads), NEW m \in [Threads -> Int]
  PROVE  SamplerPart!Shared(m) = SumOf(m)
PROOF
  <1> DEFINE D == Threads
             g == [t \in D |-> m[t]]
             Once(it) == [U \in SUBSET D |->
                            IF U = {} THEN 0
                            ELSE it[U \ {CHOOSE x \in U : TRUE}] + m[(CHOOSE x \in U : TRUE)]]
             it == CHOOSE i : i = Once(i)
  <1>1. g \in [D -> Int] /\ IsFiniteSet(D)
    OBVIOUS
  <1>2. PICK s : Sums(s, g)
    BY <1>1, SumsExist
  <1>3. s = Once(s)
    <2>1. s = [U \in SUBSET D |-> s[U]]
      BY <1>2 DEF Sums
    <2>2. ASSUME NEW U \in SUBSET D
          PROVE  s[U] = IF U = {} THEN 0
                        ELSE s[U \ {CHOOSE x \in U : TRUE}] + m[(CHOOSE x \in U : TRUE)]
      <3>1. CASE U = {}
        BY <1>2, <3>1 DEF Sums
      <3>2. CASE U # {}
        <4>1. PICK c \in U : c = (CHOOSE x \in U : TRUE)
          BY <3>2
        <4>2. s[U] = g[c] + s[U \ {c}] /\ s[U \ {c}] \in Int /\ g[c] \in Int /\ g[c] = m[c]
          BY <1>1, <1>2 DEF Sums
        <4>3. s[U] = s[U \ {c}] + m[c]
          BY <4>2
        <4> QED BY <3>2, <4>1, <4>3
      <3> QED BY <3>1, <3>2
    <2> QED BY <2>1, <2>2
  <1>4. it = Once(it)
    BY <1>3
  <1>5. Iterates(it, g)
    <2>1. it[{}] = 0
      BY <1>4
    <2>2. ASSUME NEW U \in SUBSET D, NEW c \in U, c = (CHOOSE e \in U : TRUE)
          PROVE  it[U] = it[U \ {c}] + g[c]
      <3>1. U # {} /\ g[c] = m[c]
        OBVIOUS
      <3>2. it[U] = Once(it)[U]
        BY <1>4
      <3> HIDE DEF it
      <3> QED BY <2>2, <3>1, <3>2
    <2> HIDE DEF it
    <2> QED BY <2>1, <2>2 DEF Iterates
  <1>6. SamplerPart!Shared(m) = it[D]
    BY DEF SamplerPart!Shared, SamplerPart!FoldSet, SamplerPart!MapThenFoldSet
  <1>9. g = m
    OBVIOUS
  <1> HIDE DEF it, g
  <1>7. it[D] = s[D]
    BY <1>1, <1>2, <1>5, IterateIsSum
  <1>8. SumOf(g) = s[D]
    BY <1>1, <1>2, SumOfIs
  <1> QED BY <1>6, <1>7, <1>8, <1>9

LEMMA SamplerParams ==
  /\ IsFiniteSet(Threads) /\ Founders \subseteq Threads /\ CoverageFloor \in Nat
  /\ Cardinality(Founders) \in Nat
PROOF
  BY HarnessAssumption, FS_Subset, FS_CardinalityType

LEMMA TallyTotal ==
  ASSUME NEW f, SamplerPart!Tally(f), NEW k \in SamplerPart!Counters
  PROVE  /\ IsFiniteSet(DOMAIN f) /\ [t \in DOMAIN f |-> f[t][k]] \in [DOMAIN f -> Nat]
         /\ SamplerPart!Total(f, k) = SumOf([t \in DOMAIN f |-> f[t][k]])
               /\ SamplerPart!Total(f, k) \in Nat
PROOF
  <1>1. IsFiniteSet(DOMAIN f)
    BY SamplerParams, FS_Subset DEF SamplerPart!Tally
  <1>2. \A t \in DOMAIN f : f[t][k] \in Nat
    BY DEF SamplerPart!Tally
  <1> DEFINE g == [t \in DOMAIN f |-> f[t][k]]
  <1>3. g \in [DOMAIN f -> Int] /\ g \in [DOMAIN f -> Nat] /\ \A u \in DOMAIN f : g[u] >= 0
    BY <1>2
  <1>4. SamplerPart!Total(f, k) = SumOf(g)
    BY <1>1, <1>2, TotalIs
  <1> HIDE DEF g
  <1>5. SumOf(g) \in Nat
    BY <1>1, <1>3, SumAtLeast
  <1> QED BY <1>1, <1>3, <1>4, <1>5 DEF g

LEMMA TotalGrows ==
  ASSUME NEW f, SamplerPart!Tally(f), NEW h, SamplerPart!Tally(h), NEW k \in SamplerPart!Counters,
         NEW t, NEW c \in Nat,
         \A u \in DOMAIN f : f[u][k] <= (IF u \in DOMAIN h THEN h[u][k] ELSE 0) + Slack(t, c, u)
  PROVE  SamplerPart!Total(f, k) <= SamplerPart!Total(h, k) + c
PROOF
  <1> DEFINE g == [u \in DOMAIN f |-> f[u][k]]
             e == [u \in DOMAIN h |-> h[u][k]]
  <1>1. /\ g \in [DOMAIN f -> Nat] /\ e \in [DOMAIN h -> Nat]
        /\ IsFiniteSet(DOMAIN f) /\ IsFiniteSet(DOMAIN h)
    BY TallyTotal
  <1>2. \A u \in DOMAIN f \cup DOMAIN h : Val(g, u) <= Val(e, u) + Slack(t, c, u)
    <2> SUFFICES ASSUME NEW u \in DOMAIN f \cup DOMAIN h
                 PROVE Val(g, u) <= Val(e, u) + Slack(t, c, u)
      OBVIOUS
    <2>1. CASE u \in DOMAIN f
      <3>1. Val(g, u) = f[u][k] /\ Val(e, u) = IF u \in DOMAIN h THEN h[u][k] ELSE 0
        BY <2>1 DEF Val
      <3> QED BY <2>1, <3>1
    <2>2. CASE u \notin DOMAIN f
      <3>1. Val(g, u) = 0 /\ Val(e, u) = h[u][k]
        BY <2>2 DEF Val
      <3>2. h[u][k] \in Nat /\ Slack(t, c, u) \in Nat
        BY <2>2 DEF SamplerPart!Tally, Slack
      <3> QED BY <3>1, <3>2
    <2> QED BY <2>1, <2>2
  <1>3. g \in [DOMAIN f -> Int] /\ e \in [DOMAIN h -> Int]
    BY <1>1
  <1> HIDE DEF g, e
  <1>4. SumOf(g) <= SumOf(e) + c
    BY <1>1, <1>2, <1>3, SumGrows
  <1>5. SamplerPart!Total(f, k) = SumOf(g) /\ SamplerPart!Total(h, k) = SumOf(e)
    BY TallyTotal DEF g, e
  <1> QED BY <1>4, <1>5

LEMMA NoThreadsTally == SamplerPart!Tally(SamplerPart!NoThreads)
PROOF
  <1>1. SamplerPart!NoThreads \in [{} -> [SamplerPart!Counters -> Nat]]
           /\ DOMAIN SamplerPart!NoThreads = {}
    BY DEF SamplerPart!NoThreads
  <1> QED BY <1>1 DEF SamplerPart!Tally

(* A bank of a read keeps the tallies, the first reads of what had one, and   *)
(* what every thread is measured from.                                        *)
LEMMA Banks ==
  ASSUME NEW f, SamplerPart!Tally(f), NEW b \in BOOLEAN, SamplerPart!Bank(f, b),
         SamplerPart!Tally(r8), SamplerPart!Tally(r9), DOMAIN r8 = DOMAIN r9, r10 \subseteq DOMAIN r9,
         b \/ r9 = SamplerPart!NoThreads
  PROVE  /\ SamplerPart!Tally(r8') /\ SamplerPart!Tally(r9') /\ DOMAIN r8' = DOMAIN r9'
               /\ r10' \subseteq DOMAIN r9'
         /\ DOMAIN r9' = DOMAIN r9 \cup DOMAIN f
         /\ \A t \in DOMAIN f : r9'[t] = f[t]
         /\ \A t \in DOMAIN r9 \ DOMAIN f : r9'[t] = r9[t]
         /\ \A t \in DOMAIN r8 : r8'[t] = r8[t]
         /\ b => DOMAIN r8' \ r10' = DOMAIN r8 \ r10
         /\ ~b => r8' = f /\ r9' = f /\ r10' = {}
PROOF
  <1> DEFINE D == DOMAIN r8
             F == DOMAIN f
  <1>1. /\ r8' = [t \in D \cup F |-> IF t \in D THEN r8[t] ELSE f[t]]
        /\ r10' = IF b THEN r10 \cup (F \ D) ELSE r10
        /\ r9' = [t \in D \cup F |-> IF t \in F THEN f[t] ELSE r9[t]]
    BY DEF SamplerPart!Bank
  <1>2. D \subseteq Threads /\ F \subseteq Threads /\ D \cup F \subseteq Threads
    BY DEF SamplerPart!Tally
  <1>3. /\ \A t \in D : r8[t] \in [SamplerPart!Counters -> Nat]
              /\ r9[t] \in [SamplerPart!Counters -> Nat]
        /\ \A t \in F : f[t] \in [SamplerPart!Counters -> Nat]
    BY DEF SamplerPart!Tally
  <1>4. DOMAIN r8' = D \cup F /\ DOMAIN r9' = D \cup F
    BY <1>1
  <1>5. SamplerPart!Tally(r8') /\ SamplerPart!Tally(r9')
    <2>1. \A t \in D \cup F : (IF t \in D THEN r8[t] ELSE f[t]) \in [SamplerPart!Counters -> Nat]
      BY <1>3
    <2>2. \A t \in D \cup F : (IF t \in F THEN f[t] ELSE r9[t]) \in [SamplerPart!Counters -> Nat]
      BY <1>3
    <2>3. r8' \in [D \cup F -> [SamplerPart!Counters -> Nat]]
      BY <1>1, <2>1
    <2>4. r9' \in [D \cup F -> [SamplerPart!Counters -> Nat]]
      BY <1>1, <2>2
    <2> QED BY <1>2, <1>4, <2>3, <2>4 DEF SamplerPart!Tally
  <1>6. /\ r10' \subseteq DOMAIN r9' /\ DOMAIN r9' = DOMAIN r9 \cup F
        /\ \A t \in F : r9'[t] = f[t]
        /\ \A t \in DOMAIN r9 \ F : r9'[t] = r9[t]
        /\ \A t \in D : r8'[t] = r8[t]
        /\ b => DOMAIN r8' \ r10' = D \ r10
    BY <1>1, <1>4
  <1>7. ASSUME ~b PROVE r8' = f /\ r9' = f /\ r10' = {}
    <2>1. D = {} /\ r10 = {}
      BY <1>7 DEF SamplerPart!NoThreads
    <2>2. f = [t \in F |-> f[t]]
      BY DEF SamplerPart!Tally
    <2>3. r8' = [t \in F |-> f[t]] /\ r9' = [t \in F |-> f[t]]
      BY <1>1, <2>1
    <2> QED BY <1>1, <1>7, <2>1, <2>2, <2>3
  <1> QED BY <1>4, <1>5, <1>6, <1>7
SamplerVars == <<r1, r2, r3, r4, r5, r6, r7, r8, r9, r10, r11, r12, r13, r14, r15, r16>>

(* The counts of a thread that runs, starts or exits are still counts.        *)
LEMMA LiveTallies ==
  ASSUME SamplerPart!TalliesHeld
  PROVE  /\ SamplerPart!Work => SamplerPart!Tally(r3')
               /\ r2' \in [pid : Nat, done : [SamplerPart!Counters -> Nat]]
         /\ SamplerPart!ThreadStarts => SamplerPart!Tally(r3')
         /\ SamplerPart!ThreadExits => SamplerPart!Tally(r3')
         /\ SamplerPart!Tally(SamplerPart!ThreadCounters)
PROOF
  <1>1. DOMAIN r3 \subseteq Threads /\ r3 \in [DOMAIN r3 -> [SamplerPart!Counters -> Nat]]
    BY DEF SamplerPart!TalliesHeld, SamplerPart!Tally
  <1>2. r2 \in [pid : Nat, done : [SamplerPart!Counters -> Nat]]
    BY DEF SamplerPart!TalliesHeld
  <1>3. ASSUME SamplerPart!Work
        PROVE SamplerPart!Tally(r3') /\ r2' \in [pid : Nat, done : [SamplerPart!Counters -> Nat]]
    <2>1. PICK t \in DOMAIN r3, k \in SamplerPart!Counters :
             r3' = [r3 EXCEPT ![t][k] = @ + 1] /\ r2' = [r2 EXCEPT !.done[k] = @ + 1]
      BY <1>3 DEF SamplerPart!Work
    <2>2. r3' \in [DOMAIN r3 -> [SamplerPart!Counters -> Nat]]
      BY <1>1, <2>1
    <2>3. r2' \in [pid : Nat, done : [SamplerPart!Counters -> Nat]]
      BY <1>2, <2>1
    <2> QED BY <1>1, <2>2, <2>3 DEF SamplerPart!Tally
  <1>4. ASSUME SamplerPart!ThreadStarts PROVE SamplerPart!Tally(r3')
    <2>1. PICK t \in Threads : r3' = SamplerPart!Put(r3, t, SamplerPart!Zero)
      BY <1>4 DEF SamplerPart!ThreadStarts
    <2>2. SamplerPart!Zero \in [SamplerPart!Counters -> Nat]
      BY DEF SamplerPart!Zero
    <2>3. r3' \in [DOMAIN r3 \cup {t} -> [SamplerPart!Counters -> Nat]]
      BY <1>1, <2>1, <2>2 DEF SamplerPart!Put
    <2> QED BY <1>1, <2>3 DEF SamplerPart!Tally
  <1>5. ASSUME SamplerPart!ThreadExits PROVE SamplerPart!Tally(r3')
    <2>1. PICK t \in DOMAIN r3 : r3' = [u \in DOMAIN r3 \ {t} |-> r3[u]]
      BY <1>5 DEF SamplerPart!ThreadExits
    <2>2. r3' \in [DOMAIN r3 \ {t} -> [SamplerPart!Counters -> Nat]]
      BY <1>1, <2>1
    <2> QED BY <1>1, <2>2 DEF SamplerPart!Tally
  <1>6. SamplerPart!Tally(SamplerPart!ThreadCounters)
    BY NoThreadsTally DEF SamplerPart!TalliesHeld, SamplerPart!ThreadCounters
  <1> QED BY <1>3, <1>4, <1>5, <1>6

(* Every step keeps the tallies; nothing runs in a row that is closed.        *)
LEMMA TalliesKept ==
  ASSUME SamplerPart!TalliesHeld, [SamplerPart!SamplerNext]_SamplerVars
  PROVE  SamplerPart!TalliesHeld'
PROOF
  <1>a. /\ r2 \in [pid : Nat, done : [SamplerPart!Counters -> Nat]]
        /\ SamplerPart!Tally(r3) /\ SamplerPart!Tally(SamplerPart!InHand) /\ SamplerPart!Tally(r8)
              /\ SamplerPart!Tally(r9)
        /\ SamplerPart!Tally(r11.from) /\ SamplerPart!Tally(r11.to)
        /\ r7 = SamplerPart!Nothing \/ r7.kind = "read"
        /\ DOMAIN r8 = DOMAIN r9 /\ r10 \subseteq DOMAIN r9
    BY DEF SamplerPart!TalliesHeld
  <1>b. /\ r1 \in {"open", "opening", "opened"} =>
              /\ r6 = "off" /\ r13 = SamplerPart!Nothing /\ r7 = SamplerPart!Nothing /\ ~r12
              /\ r9 = SamplerPart!NoThreads
                    /\ r11 = [from |-> SamplerPart!NoThreads, to |-> SamplerPart!NoThreads]
        /\ r6 # "off" => r1 \in {"sampled", "running", "stopping"}
        /\ r6 \in {"off", "running", "joining", "last", "sum"}
        /\ ~r12 /\ r6 \in {"off", "last", "sum"} => r7 = SamplerPart!Nothing
    BY DEF SamplerPart!TalliesHeld
  <1>1. CASE SamplerPart!Work
    <2>1. SamplerPart!Tally(r3') /\ r2' \in [pid : Nat, done : [SamplerPart!Counters -> Nat]]
      BY <1>1, LiveTallies
    <2> QED BY <1>1, <1>a, <1>b, <2>1 DEF SamplerPart!Work, SamplerPart!smp,
                                          SamplerPart!TalliesHeld, SamplerPart!InHand,
                                          SamplerPart!Tally
  <1>2. CASE SamplerPart!ThreadStarts \/ SamplerPart!ThreadExits
    <2>1. SamplerPart!Tally(r3')
      BY <1>2, LiveTallies
    <2> QED BY <1>2, <1>a, <1>b, <2>1
            DEF SamplerPart!ThreadStarts, SamplerPart!ThreadExits, SamplerPart!smp,
                SamplerPart!TalliesHeld, SamplerPart!InHand, SamplerPart!Tally
  <1>3. CASE SamplerPart!EngineReplaced
    <2>1. r2' \in [pid : Nat, done : [SamplerPart!Counters -> Nat]] /\ SamplerPart!Tally(r3')
      BY <1>3, <1>a, NoThreadsTally DEF SamplerPart!EngineReplaced, SamplerPart!Zero,
                                        SamplerPart!Tally
    <2> QED BY <1>3, <1>a, <1>b, <2>1 DEF SamplerPart!EngineReplaced, SamplerPart!smp,
                                          SamplerPart!TalliesHeld, SamplerPart!InHand,
                                          SamplerPart!Tally
  <1>4. CASE SamplerPart!OpenStat \/ SamplerPart!OpenThreads \/ SamplerPart!StartCar
    BY <1>4, <1>a, <1>b
       DEF SamplerPart!OpenStat, SamplerPart!OpenThreads, SamplerPart!StartCar, SamplerPart!smp,
           SamplerPart!TalliesHeld, SamplerPart!InHand, SamplerPart!Tally
  <1>5. CASE SamplerPart!StopCar
    BY <1>5, <1>a, <1>b DEF SamplerPart!StopCar, SamplerPart!TalliesHeld, SamplerPart!InHand,
                            SamplerPart!Tally
  <1>6. CASE SamplerPart!CloseStat \/ SamplerPart!CloseThreads
    BY <1>6, <1>a, <1>b DEF SamplerPart!CloseStat, SamplerPart!CloseThreads, SamplerPart!smp,
                            SamplerPart!TalliesHeld, SamplerPart!InHand, SamplerPart!Tally
  <1>7. CASE SamplerPart!StartSampler
    <2>1. r9 = SamplerPart!NoThreads /\ r1 = "opened"
      BY <1>7, <1>b DEF SamplerPart!StartSampler
    <2>2. CASE r6' = "running" /\ SamplerPart!Bank(SamplerPart!ThreadCounters, FALSE)
               /\ r11' = [r11 EXCEPT !.from = SamplerPart!ThreadCounters]
      <3>1. SamplerPart!Tally(r8') /\ SamplerPart!Tally(r9') /\ DOMAIN r8' = DOMAIN r9'
               /\ r10' \subseteq DOMAIN r9'
        BY <1>a, <2>1, <2>2, Banks, LiveTallies
      <3>2. r11'.from = SamplerPart!ThreadCounters /\ r11'.to = SamplerPart!NoThreads
        BY <1>b, <2>1, <2>2
      <3>3. SamplerPart!Tally(r11'.from) /\ SamplerPart!Tally(r11'.to)
        BY <3>2, LiveTallies, NoThreadsTally
      <3> QED BY <1>7, <1>a, <1>b, <2>1, <2>2, <3>1, <3>3
              DEF SamplerPart!StartSampler, SamplerPart!TalliesHeld, SamplerPart!InHand,
                  SamplerPart!Tally
    <2>3. CASE UNCHANGED <<r6, r8, r9, r10, r11>>
      BY <1>7, <1>a, <1>b, <2>1, <2>3 DEF SamplerPart!StartSampler, SamplerPart!TalliesHeld,
                                          SamplerPart!InHand, SamplerPart!Tally
    <2> QED BY <1>7, <2>2, <2>3 DEF SamplerPart!StartSampler
  <1>8. CASE SamplerPart!LoopRead
    <2>1. SamplerPart!InHand' = SamplerPart!ThreadCounters /\ r7'.kind = "read"
             /\ SamplerPart!Tally(SamplerPart!ThreadCounters)
      BY <1>8, LiveTallies DEF SamplerPart!LoopRead, SamplerPart!InHand, SamplerPart!Nothing
    <2>2. SamplerPart!Tally(SamplerPart!InHand)'
      BY <2>1 DEF SamplerPart!Tally
    <2> QED BY <1>8, <1>a, <1>b, <2>1, <2>2 DEF SamplerPart!LoopRead, SamplerPart!TalliesHeld,
                                                SamplerPart!Tally
  <1>9. CASE SamplerPart!LoopBank
    <2>1. SamplerPart!Bank(SamplerPart!InHand, TRUE) /\ r7' = SamplerPart!Nothing
      BY <1>9 DEF SamplerPart!LoopBank, SamplerPart!InHand
    <2>2. SamplerPart!Tally(r8') /\ SamplerPart!Tally(r9') /\ DOMAIN r8' = DOMAIN r9'
             /\ r10' \subseteq DOMAIN r9'
      BY <1>a, <2>1, Banks
    <2>3. SamplerPart!Tally(SamplerPart!InHand)'
      BY <2>1, NoThreadsTally DEF SamplerPart!InHand, SamplerPart!Tally
    <2> QED BY <1>9, <1>a, <1>b, <2>1, <2>2, <2>3 DEF SamplerPart!LoopBank,
                                                      SamplerPart!TalliesHeld, SamplerPart!Tally
  <1>10. CASE SamplerPart!Join
    BY <1>10, <1>a, <1>b DEF SamplerPart!Join, SamplerPart!TalliesHeld, SamplerPart!InHand,
                             SamplerPart!Tally
  <1>11. CASE SamplerPart!LastPoll
    <2>1. SamplerPart!Bank(SamplerPart!ThreadCounters, TRUE)
      BY <1>11 DEF SamplerPart!LastPoll
    <2>2. SamplerPart!Tally(r8') /\ SamplerPart!Tally(r9') /\ DOMAIN r8' = DOMAIN r9'
             /\ r10' \subseteq DOMAIN r9'
      BY <1>a, <2>1, Banks, LiveTallies
    <2>3. SamplerPart!Tally(r11'.from) /\ SamplerPart!Tally(r11'.to)
      BY <1>11, <1>a, LiveTallies DEF SamplerPart!LastPoll
    <2> QED BY <1>11, <1>a, <1>b, <2>2, <2>3 DEF SamplerPart!LastPoll, SamplerPart!TalliesHeld,
                                                 SamplerPart!InHand, SamplerPart!Tally
  <1>12. CASE SamplerPart!SumUp
    <2>1. SamplerPart!Tally(SamplerPart!InHand)'
      BY <1>12, NoThreadsTally DEF SamplerPart!SumUp, SamplerPart!InHand, SamplerPart!Tally
    <2> QED BY <1>12, <1>a, <1>b, <2>1 DEF SamplerPart!SumUp, SamplerPart!TalliesHeld,
                                           SamplerPart!Tally
  <1>13. CASE SamplerPart!HarnessEnds
    <2>1. /\ SamplerPart!Tally(SamplerPart!InHand)' /\ SamplerPart!Tally(r8')
                /\ SamplerPart!Tally(r9') /\ SamplerPart!Tally(r11'.from)
                      /\ SamplerPart!Tally(r11'.to)
          /\ DOMAIN r8' = DOMAIN r9' /\ r10' \subseteq DOMAIN r9'
      BY <1>13, NoThreadsTally DEF SamplerPart!HarnessEnds, SamplerPart!InHand, SamplerPart!Tally
    <2> QED BY <1>13, <1>a, <2>1 DEF SamplerPart!HarnessEnds, SamplerPart!TalliesHeld,
                                     SamplerPart!Tally
  <1>14. CASE UNCHANGED SamplerVars
    BY <1>14, <1>a, <1>b DEF SamplerVars, SamplerPart!TalliesHeld, SamplerPart!InHand,
                             SamplerPart!Tally
  <1> QED BY <1>1, <1>2, <1>3, <1>4, <1>5, <1>6, <1>7, <1>8, <1>9, <1>10, <1>11, <1>12, <1>13,
             <1>14 DEF SamplerPart!SamplerNext
(* A step of one thread adds one to one of its counts, and to the engine's.   *)
LEMMA Works ==
  ASSUME SamplerPart!TalliesHeld, SamplerPart!Work
  PROVE  \E t \in DOMAIN r3, k \in SamplerPart!Counters :
            /\ DOMAIN r3' = DOMAIN r3 /\ r3'[t][k] = r3[t][k] + 1
            /\ \A u \in DOMAIN r3, l \in SamplerPart!Counters : u # t \/ l # k => r3'[u][l] = r3[u][l]
            /\ r2'.pid = r2.pid /\ r2'.done[k] = r2.done[k] + 1
            /\ \A l \in SamplerPart!Counters : l # k => r2'.done[l] = r2.done[l]
PROOF
  <1>1. r3 \in [DOMAIN r3 -> [SamplerPart!Counters -> Nat]]
           /\ r2 \in [pid : Nat, done : [SamplerPart!Counters -> Nat]]
    BY DEF SamplerPart!TalliesHeld, SamplerPart!Tally
  <1>2. PICK t \in DOMAIN r3, k \in SamplerPart!Counters :
           r3' = [r3 EXCEPT ![t][k] = @ + 1] /\ r2' = [r2 EXCEPT !.done[k] = @ + 1]
    BY DEF SamplerPart!Work
  <1>3. DOMAIN r3' = DOMAIN r3 /\ r3'[t][k] = r3[t][k] + 1
    BY <1>1, <1>2
  <1>4. \A u \in DOMAIN r3, l \in SamplerPart!Counters : u # t \/ l # k => r3'[u][l] = r3[u][l]
    BY <1>1, <1>2
  <1>5. r2'.pid = r2.pid /\ r2'.done = [r2.done EXCEPT ![k] = @ + 1]
    BY <1>1, <1>2
  <1>6. r2.done \in [SamplerPart!Counters -> Nat]
    BY <1>1
  <1>7. r2'.done[k] = r2.done[k] + 1 /\ \A l \in SamplerPart!Counters : l # k
           => r2'.done[l] = r2.done[l]
    BY <1>5, <1>6
  <1> QED BY <1>3, <1>4, <1>5, <1>7

Grown(k) ==
  /\ SamplerPart!Spent(k) \in Int /\ SamplerPart!Total(r3, k) \in Nat
  /\ SamplerPart!Spent(k)' \in Int
  /\ \E c \in {0, 1} : SamplerPart!Spent(k)' = SamplerPart!Spent(k) + c
        /\ SamplerPart!Total(r3', k) <= SamplerPart!Total(r3, k) + c

LEMMA WorkIsSpent ==
  ASSUME SamplerPart!TalliesHeld, SamplerPart!Work \/ SamplerPart!ThreadStarts
            \/ SamplerPart!ThreadExits,
         r4.opened \in [SamplerPart!Counters -> Nat], NEW k \in SamplerPart!Counters
  PROVE  r2'.pid = r2.pid /\ Grown(k)
PROOF
  <1>1. /\ SamplerPart!Tally(r3) /\ SamplerPart!Tally(r3')
              /\ r2 \in [pid : Nat, done : [SamplerPart!Counters -> Nat]]
        /\ r2.done[k] \in Nat /\ r4.opened[k] \in Nat
    BY LiveTallies DEF SamplerPart!TalliesHeld
  <1>2. SamplerPart!Total(r3, k) \in Nat /\ r4' = r4 /\ SamplerPart!Spent(k) \in Int
           /\ SamplerPart!Spent(k) = r2.done[k] - r4.opened[k]
        /\ SamplerPart!Spent(k)' = r2'.done[k] - r4.opened[k]
    <2>1. SamplerPart!Total(r3, k) \in Nat
      BY <1>1, TallyTotal
    <2>2. r4' = r4
      BY DEF SamplerPart!Work, SamplerPart!ThreadStarts, SamplerPart!ThreadExits
    <2> QED BY <1>1, <2>1, <2>2 DEF SamplerPart!Spent
  <1>3. CASE SamplerPart!Work
    <2>1. PICK t \in DOMAIN r3, l \in SamplerPart!Counters :
            /\ DOMAIN r3' = DOMAIN r3 /\ r3'[t][l] = r3[t][l] + 1
            /\ \A u \in DOMAIN r3, o \in SamplerPart!Counters : u # t \/ o # l => r3'[u][o] = r3[u][o]
            /\ r2'.pid = r2.pid /\ r2'.done[l] = r2.done[l] + 1
            /\ \A o \in SamplerPart!Counters : o # l => r2'.done[o] = r2.done[o]
      BY <1>3, Works
    <2>2. \A u \in DOMAIN r3 : r3[u][k] \in Nat
      BY <1>1 DEF SamplerPart!Tally
    <2>3. CASE k = l
      <3>1. \A u \in DOMAIN r3' :
               r3'[u][k] <= (IF u \in DOMAIN r3 THEN r3[u][k] ELSE 0) + Slack(t, 1, u)
        BY <2>1, <2>2, <2>3 DEF Slack
      <3>2. SamplerPart!Total(r3', k) <= SamplerPart!Total(r3, k) + 1
        BY <1>1, <3>1, TotalGrows
      <3>3. SamplerPart!Spent(k)' = SamplerPart!Spent(k) + 1 /\ SamplerPart!Spent(k)' \in Int
        BY <1>1, <1>2, <2>1, <2>3
      <3> QED BY <1>2, <2>1, <3>2, <3>3 DEF Grown
    <2>4. CASE k # l
      <3>1. \A u \in DOMAIN r3' :
               r3'[u][k] <= (IF u \in DOMAIN r3 THEN r3[u][k] ELSE 0) + Slack(t, 0, u)
        BY <2>1, <2>2, <2>4 DEF Slack
      <3>2. SamplerPart!Total(r3', k) <= SamplerPart!Total(r3, k) + 0
        BY <1>1, <3>1, TotalGrows
      <3>3. SamplerPart!Spent(k)' = SamplerPart!Spent(k) + 0 /\ SamplerPart!Spent(k)' \in Int
        BY <1>1, <1>2, <2>1, <2>4
      <3> QED BY <1>2, <2>1, <3>2, <3>3 DEF Grown
    <2> QED BY <2>3, <2>4
  <1>4. CASE SamplerPart!ThreadStarts \/ SamplerPart!ThreadExits
    <2>1. r2' = r2
      BY <1>4 DEF SamplerPart!ThreadStarts, SamplerPart!ThreadExits
    <2>2. \A u \in DOMAIN r3' :
             r3'[u][k] <= (IF u \in DOMAIN r3 THEN r3[u][k] ELSE 0) + Slack(0, 0, u)
      <3>0. \A u \in DOMAIN r3 : r3[u][k] \in Nat
        BY <1>1 DEF SamplerPart!Tally
      <3>1. CASE SamplerPart!ThreadStarts
        <4>1. PICK t \in Threads \ (DOMAIN r3 \cup DOMAIN r9) :
                      r3' = SamplerPart!Put(r3, t, SamplerPart!Zero)
          BY <3>1 DEF SamplerPart!ThreadStarts
        <4>2. \A u \in DOMAIN r3' : r3'[u] = IF u \in DOMAIN r3 THEN r3[u] ELSE SamplerPart!Zero
          BY <4>1 DEF SamplerPart!Put
        <4>3. SamplerPart!Zero[k] = 0
          BY DEF SamplerPart!Zero
        <4> QED BY <3>0, <4>2, <4>3 DEF Slack
      <3>2. CASE SamplerPart!ThreadExits
        <4>1. \A u \in DOMAIN r3' : u \in DOMAIN r3 /\ r3'[u] = r3[u]
          BY <3>2 DEF SamplerPart!ThreadExits
        <4> QED BY <3>0, <4>1 DEF Slack
      <3> QED BY <1>4, <3>1, <3>2
    <2>3. SamplerPart!Total(r3', k) <= SamplerPart!Total(r3, k) + 0
      BY <1>1, <2>2, TotalGrows
    <2>4. SamplerPart!Spent(k)' = SamplerPart!Spent(k) + 0
      BY <1>2, <2>1
    <2> QED BY <1>2, <2>1, <2>3, <2>4 DEF Grown
  <1> QED BY <1>3, <1>4

LEMMA SnapshotsKept ==
  ASSUME SamplerPart!TalliesHeld, SamplerPart!SnapshotsHeld, [SamplerPart!SamplerNext]_SamplerVars
  PROVE  SamplerPart!SnapshotsHeld'
PROOF
  <1>a. r2 \in [pid : Nat, done : [SamplerPart!Counters -> Nat]] /\ SamplerPart!Tally(r3)
    BY DEF SamplerPart!TalliesHeld
  <1>b. /\ r2.pid \in Nat /\ r2.done \in [SamplerPart!Counters -> Nat]
        /\ \A k \in SamplerPart!Counters : r2.done[k] \in Nat
    BY <1>a
  <1>c. r1 # "open" =>
          /\ r4.pid \in Nat /\ r4.pid <= r2.pid /\ r4.cpu \in Nat
          /\ r4.opened \in [SamplerPart!Counters -> Nat]
          /\ r2.pid = r4.pid => \A k \in SamplerPart!Counters : SamplerPart!Spent(k) >= 0
    BY DEF SamplerPart!SnapshotsHeld
  <1>d. r1 \notin {"open", "opening"} =>
          /\ r4.sums \in [SamplerPart!Counters -> Nat]
          /\ r2.pid = r4.pid => \A k \in SamplerPart!Counters :
                SamplerPart!Total(r3, k) <= r4.sums[k] + SamplerPart!Spent(k)
    BY DEF SamplerPart!SnapshotsHeld
  <1>e. r1 \in {"closing", "closed"} => r5.cpu \in Nat
    BY DEF SamplerPart!SnapshotsHeld
  <1>1. CASE SamplerPart!Work \/ SamplerPart!ThreadStarts \/ SamplerPart!ThreadExits
    <2>1. r1 # "open" /\ r1' = r1 /\ r4' = r4 /\ r5' = r5
      BY <1>1 DEF SamplerPart!Work, SamplerPart!ThreadStarts, SamplerPart!ThreadExits
    <2>2. r2'.pid = r2.pid /\ \A k \in SamplerPart!Counters : Grown(k)
      <3>1. "oncpu" \in SamplerPart!Counters
        BY DEF SamplerPart!Counters
      <3> QED BY <1>1, <1>c, <2>1, <3>1, WorkIsSpent
    <2>3. ASSUME r2'.pid = r4'.pid, NEW k \in SamplerPart!Counters PROVE SamplerPart!Spent(k)' >= 0
      BY <1>c, <2>1, <2>2, <2>3 DEF Grown
    <2>4. ASSUME r2'.pid = r4'.pid, NEW k \in SamplerPart!Counters, r1 # "opening"
          PROVE  SamplerPart!Total(r3', k) <= r4.sums[k] + SamplerPart!Spent(k)'
      <3>1. r4.sums[k] \in Nat /\ SamplerPart!Total(r3, k) <= r4.sums[k] + SamplerPart!Spent(k)
        BY <1>d, <2>1, <2>2, <2>4
      <3>2. SamplerPart!Total(r3', k) \in Nat
        <4>1. SamplerPart!Tally(r3')
          BY <1>1, LiveTallies
        <4> QED BY <4>1, TallyTotal
      <3>3. PICK c \in {0, 1} : SamplerPart!Spent(k)' = SamplerPart!Spent(k) + c
                    /\ SamplerPart!Total(r3', k) <= SamplerPart!Total(r3, k) + c
        BY <2>2 DEF Grown
      <3>4. SamplerPart!Spent(k) \in Int /\ SamplerPart!Total(r3, k) \in Nat
        BY <2>2 DEF Grown
      <3> QED BY <3>1, <3>2, <3>3, <3>4
    <2>5. \A k \in SamplerPart!Counters : SamplerPart!Total(r3, k)' = SamplerPart!Total(r3', k)
      OBVIOUS
    <2> QED BY <1>c, <1>d, <1>e, <2>1, <2>2, <2>3, <2>4, <2>5 DEF SamplerPart!SnapshotsHeld
  <1>2. CASE SamplerPart!EngineReplaced
    <2>1. r1 # "open" /\ r1' = r1 /\ r4' = r4 /\ r5' = r5 /\ r2'.pid = r2.pid + 1
      BY <1>2 DEF SamplerPart!EngineReplaced
    <2>2. r4.pid <= r2'.pid /\ r2'.pid # r4.pid
      BY <1>b, <1>c, <2>1
    <2> QED BY <1>c, <1>d, <1>e, <2>1, <2>2 DEF SamplerPart!SnapshotsHeld
  <1>3. CASE SamplerPart!OpenStat
    <2>1. r1' = "opening" /\ r2' = r2 /\ r4' = SamplerPart!StatRead
      BY <1>3 DEF SamplerPart!OpenStat
    <2>2. r4'.pid = r2.pid /\ r4'.cpu = r2.done.oncpu /\ r4'.opened = r2.done
      BY <2>1 DEF SamplerPart!StatRead
    <2>3. r2.done.oncpu \in Nat
      BY <1>b DEF SamplerPart!Counters
    <2>4. \A k \in SamplerPart!Counters : SamplerPart!Spent(k)' >= 0
      BY <1>b, <2>1, <2>2 DEF SamplerPart!Spent
    <2> QED BY <1>b, <2>1, <2>2, <2>3, <2>4 DEF SamplerPart!SnapshotsHeld
  <1>4. CASE SamplerPart!OpenThreads
    <2>1. r1 = "opening" /\ r1' = "opened" /\ r2' = r2 /\ r3' = r3 /\ r4' = SamplerPart!Snapshot(r4)
      BY <1>4 DEF SamplerPart!OpenThreads
    <2>2. /\ r4'.pid = r4.pid /\ r4'.cpu = r4.cpu /\ r4'.opened = r4.opened
          /\ r4'.sums = [k \in SamplerPart!Counters |-> SamplerPart!Total(r3, k)]
      BY <2>1 DEF SamplerPart!Snapshot
    <2>3. \A k \in SamplerPart!Counters : SamplerPart!Total(r3, k) \in Nat
             /\ SamplerPart!Total(r3, k)' = SamplerPart!Total(r3, k)
      BY <1>a, <2>1, TallyTotal
    <2>4. \A k \in SamplerPart!Counters : SamplerPart!Spent(k)' = SamplerPart!Spent(k)
             /\ SamplerPart!Spent(k) \in Int
      BY <1>b, <1>c, <2>1, <2>2 DEF SamplerPart!Spent
    <2>5. r4'.sums \in [SamplerPart!Counters -> Nat] /\ \A k \in SamplerPart!Counters :
             r4'.sums[k] = SamplerPart!Total(r3, k)
      BY <2>2, <2>3
    <2>6. ASSUME r2'.pid = r4'.pid, NEW k \in SamplerPart!Counters
          PROVE  SamplerPart!Spent(k)' >= 0
                    /\ SamplerPart!Total(r3, k)' <= r4'.sums[k] + SamplerPart!Spent(k)'
      <3>1. SamplerPart!Spent(k) >= 0
        BY <1>c, <2>1, <2>2, <2>6
      <3> QED BY <2>3, <2>4, <2>5, <3>1
    <2> QED BY <1>c, <2>1, <2>2, <2>5, <2>6 DEF SamplerPart!SnapshotsHeld
  <1>5. CASE SamplerPart!StartSampler \/ SamplerPart!StartCar \/ SamplerPart!LoopRead
                \/ SamplerPart!LoopBank \/ SamplerPart!StopCar \/ SamplerPart!Join
                      \/ SamplerPart!LastPoll
             \/ SamplerPart!SumUp \/ UNCHANGED SamplerVars
    <2>1. /\ UNCHANGED <<r2, r3, r4, r5>>
          /\ \/ r1' = r1
             \/ r1 \in {"opened", "sampled", "running"} /\ r1' \in {"sampled", "running", "stopping"}
      BY <1>5 DEF SamplerPart!StartSampler, SamplerPart!StartCar, SamplerPart!LoopRead,
                  SamplerPart!LoopBank, SamplerPart!StopCar, SamplerPart!Join,
                  SamplerPart!LastPoll, SamplerPart!SumUp, SamplerVars
    <2>2. \A k \in SamplerPart!Counters : SamplerPart!Spent(k)' = SamplerPart!Spent(k)
             /\ SamplerPart!Total(r3, k)' = SamplerPart!Total(r3, k)
      BY <2>1 DEF SamplerPart!Spent
    <2> QED BY <1>c, <1>d, <1>e, <2>1, <2>2 DEF SamplerPart!SnapshotsHeld
  <1>6. CASE SamplerPart!CloseStat \/ SamplerPart!CloseThreads
    <2>1. /\ UNCHANGED <<r2, r3, r4>> /\ r1' \in {"closing", "closed"}
          /\ r1 \in {"stopping", "closing"}
      BY <1>6 DEF SamplerPart!CloseStat, SamplerPart!CloseThreads
    <2>2. \A k \in SamplerPart!Counters : SamplerPart!Spent(k)' = SamplerPart!Spent(k)
             /\ SamplerPart!Total(r3, k)' = SamplerPart!Total(r3, k)
      BY <2>1 DEF SamplerPart!Spent
    <2>3. r5'.cpu \in Nat
      <3>1. CASE SamplerPart!CloseStat
        BY <1>b, <3>1 DEF SamplerPart!CloseStat, SamplerPart!StatRead, SamplerPart!Counters
      <3>2. CASE SamplerPart!CloseThreads
        BY <1>e, <3>2 DEF SamplerPart!CloseThreads, SamplerPart!Snapshot
      <3> QED BY <1>6, <3>1, <3>2
    <2> QED BY <1>c, <1>d, <2>1, <2>2, <2>3 DEF SamplerPart!SnapshotsHeld
  <1>7. CASE SamplerPart!HarnessEnds
    BY <1>7 DEF SamplerPart!HarnessEnds, SamplerPart!SnapshotsHeld
  <1> QED BY <1>1, <1>2, <1>3, <1>4, <1>5, <1>6, <1>7 DEF SamplerPart!SamplerNext
(* Shares that cover what was read cover what is read again, and a new thread. *)
LEMMA SharesStay ==
  ASSUME SamplerPart!SharesHeld, r6 # "off", UNCHANGED <<r2, r4>>,
         \A t, k : SamplerPart!Base(t, k)' = SamplerPart!Base(t, k),
         \A f \in {r3', r9', SamplerPart!InHand'} : \A t \in DOMAIN f :
            \/ \E g \in {r3, r9, SamplerPart!InHand} : t \in DOMAIN g /\ f[t] = g[t]
            \/ t \in Threads \ DOMAIN r8 /\ f[t] = SamplerPart!Zero
  PROVE  SamplerPart!SharesHeld'
PROOF
  <1>1. \A k \in SamplerPart!Counters : SamplerPart!Spent(k)' = SamplerPart!Spent(k)
    BY DEF SamplerPart!Spent
  <1> SUFFICES ASSUME r2.pid = r4.pid, NEW k \in SamplerPart!Counters
               PROVE  /\ \E m \in [Threads -> 0..SamplerPart!Spent(k)'] :
                            /\ SamplerPart!Shared(m) <= SamplerPart!Spent(k)'
                            /\ \A f \in {r3', r9', SamplerPart!InHand'} : \A t \in DOMAIN f :
                                  f[t][k] <= SamplerPart!Base(t, k)' + m[t]
                      /\ \A f \in {r3', r9', SamplerPart!InHand'} : \A t \in DOMAIN f :
                            SamplerPart!Base(t, k)' <= f[t][k]
    BY DEF SamplerPart!SharesHeld
  <1>2. PICK m \in [Threads -> 0..SamplerPart!Spent(k)] :
           /\ SamplerPart!Shared(m) <= SamplerPart!Spent(k)
           /\ \A f \in {r3, r9, SamplerPart!InHand} : \A t \in DOMAIN f :
                 f[t][k] <= SamplerPart!Base(t, k) + m[t]
    BY DEF SamplerPart!SharesHeld
  <1>3. \A f \in {r3, r9, SamplerPart!InHand} : \A t \in DOMAIN f : SamplerPart!Base(t, k) <= f[t][k]
    BY DEF SamplerPart!SharesHeld
  <1>4. ASSUME NEW f \in {r3', r9', SamplerPart!InHand'}, NEW t \in DOMAIN f
        PROVE  f[t][k] <= SamplerPart!Base(t, k) + m[t] /\ SamplerPart!Base(t, k) <= f[t][k]
    <2>1. CASE \E g \in {r3, r9, SamplerPart!InHand} : t \in DOMAIN g /\ f[t] = g[t]
      BY <1>2, <1>3, <2>1
    <2>2. CASE t \in Threads \ DOMAIN r8 /\ f[t] = SamplerPart!Zero
      <3>1. SamplerPart!Base(t, k) = 0 /\ f[t][k] = 0
        BY <2>2 DEF SamplerPart!Base, SamplerPart!Zero
      <3>2. m[t] \in 0..SamplerPart!Spent(k) /\ SamplerPart!Spent(k)' = SamplerPart!Spent(k)
        BY <1>1, <1>2, <2>2
      <3>3. m[t] >= 0 /\ m[t] \in Int
        BY <3>2
      <3> QED BY <3>1, <3>3
    <2> QED BY <2>1, <2>2
  <1>5. /\ SamplerPart!Spent(k)' = SamplerPart!Spent(k)
        /\ \A t : SamplerPart!Base(t, k)' = SamplerPart!Base(t, k)
    BY <1>1
  <1>6. /\ m \in [Threads -> 0..SamplerPart!Spent(k)']
        /\ SamplerPart!Shared(m) <= SamplerPart!Spent(k)'
        /\ \A f \in {r3', r9', SamplerPart!InHand'} : \A t \in DOMAIN f :
              f[t][k] <= SamplerPart!Base(t, k)' + m[t]
    BY <1>2, <1>4, <1>5
  <1>7. \A f \in {r3', r9', SamplerPart!InHand'} : \A t \in DOMAIN f :
           SamplerPart!Base(t, k)' <= f[t][k]
    BY <1>4, <1>5
  <1> QED BY <1>6, <1>7

(* What a thread does is added to its share.                                  *)
LEMMA SharesWork ==
  ASSUME SamplerPart!TalliesHeld, SamplerPart!SnapshotsHeld, SamplerPart!SharesHeld,
         SamplerPart!Work, r6 # "off"
  PROVE  SamplerPart!SharesHeld'
PROOF
  <1>1. PICK t \in DOMAIN r3, l \in SamplerPart!Counters :
          /\ DOMAIN r3' = DOMAIN r3 /\ r3'[t][l] = r3[t][l] + 1
          /\ \A u \in DOMAIN r3, o \in SamplerPart!Counters : u # t \/ o # l => r3'[u][o] = r3[u][o]
          /\ r2'.pid = r2.pid /\ r2'.done[l] = r2.done[l] + 1
          /\ \A o \in SamplerPart!Counters : o # l => r2'.done[o] = r2.done[o]
    BY Works
  <1>2. r4' = r4 /\ r9' = r9 /\ SamplerPart!InHand' = SamplerPart!InHand /\ \A u, k :
           SamplerPart!Base(u, k)' = SamplerPart!Base(u, k)
    BY DEF SamplerPart!Work, SamplerPart!smp, SamplerPart!InHand, SamplerPart!Base
  <1>3. t \in Threads /\ r1 # "open" /\ r2 \in [pid : Nat, done : [SamplerPart!Counters -> Nat]]
    BY DEF SamplerPart!TalliesHeld, SamplerPart!Tally, SamplerPart!Work
  <1> SUFFICES ASSUME r2.pid = r4.pid, NEW k \in SamplerPart!Counters
               PROVE  /\ \E m \in [Threads -> 0..SamplerPart!Spent(k)'] :
                            /\ SamplerPart!Shared(m) <= SamplerPart!Spent(k)'
                            /\ \A f \in {r3', r9, SamplerPart!InHand} : \A u \in DOMAIN f :
                                  f[u][k] <= SamplerPart!Base(u, k) + m[u]
                      /\ \A f \in {r3', r9, SamplerPart!InHand} : \A u \in DOMAIN f :
                            SamplerPart!Base(u, k) <= f[u][k]
    BY <1>1, <1>2 DEF SamplerPart!SharesHeld
  <1>4. PICK m \in [Threads -> 0..SamplerPart!Spent(k)] :
           /\ SamplerPart!Shared(m) <= SamplerPart!Spent(k)
           /\ \A f \in {r3, r9, SamplerPart!InHand} : \A u \in DOMAIN f :
                 f[u][k] <= SamplerPart!Base(u, k) + m[u]
    BY DEF SamplerPart!SharesHeld
  <1>5. \A f \in {r3, r9, SamplerPart!InHand} : \A u \in DOMAIN f : SamplerPart!Base(u, k) <= f[u][k]
    BY DEF SamplerPart!SharesHeld
  <1>6. \A f \in {r3, r9, SamplerPart!InHand} : \A u \in DOMAIN f :
           u \in Threads /\ f[u][k] \in Nat /\ SamplerPart!Base(u, k) \in Nat
    <2>1. ASSUME NEW u, NEW f, SamplerPart!Tally(f), u \in DOMAIN f
          PROVE u \in Threads /\ f[u][k] \in Nat
      BY <2>1 DEF SamplerPart!Tally
    <2>2. ASSUME NEW u PROVE SamplerPart!Base(u, k) \in Nat
      BY <2>1 DEF SamplerPart!Base, SamplerPart!TalliesHeld
    <2> QED BY <2>1, <2>2 DEF SamplerPart!TalliesHeld
  <1>7. SamplerPart!Spent(k) \in Int /\ SamplerPart!Spent(k) >= 0 /\ r2.done[k] \in Nat
    BY <1>3 DEF SamplerPart!SnapshotsHeld, SamplerPart!Spent
  <1>8. \A u \in Threads : m[u] \in Nat /\ m[u] <= SamplerPart!Spent(k)
    BY <1>4, <1>7
  <1>9. CASE k # l
    <2>1. SamplerPart!Spent(k)' = SamplerPart!Spent(k)
      BY <1>1, <1>2, <1>9 DEF SamplerPart!Spent
    <2>2. \A u \in DOMAIN r3' : u \in DOMAIN r3 /\ r3'[u][k] = r3[u][k]
      BY <1>1, <1>9
    <2> QED BY <1>4, <1>5, <2>1, <2>2
  <1>10. CASE k = l
    <2> DEFINE n == [m EXCEPT ![t] = m[t] + 1]
    <2>1. SamplerPart!Spent(k)' = SamplerPart!Spent(k) + 1
      <3>1. r4.opened[k] \in Nat
        BY <1>3 DEF SamplerPart!SnapshotsHeld
      <3>2. r2'.done[k] = r2.done[k] + 1 /\ r4' = r4
        BY <1>1, <1>2, <1>10
      <3> QED BY <1>7, <3>1, <3>2 DEF SamplerPart!Spent
    <2>2. /\ \A u \in Threads : n[u] = IF u = t THEN m[u] + 1 ELSE m[u]
          /\ n \in [Threads -> Nat] /\ m \in [Threads -> Nat]
      BY <1>3, <1>4, <1>8
    <2> HIDE DEF n
    <2>3. n \in [Threads -> 0..SamplerPart!Spent(k)']
      <3>1. \A u \in Threads : n[u] \in 0..(SamplerPart!Spent(k) + 1)
        BY <1>7, <1>8, <2>2
      <3> QED BY <2>1, <2>2, <3>1
    <2>4. SamplerPart!Shared(n) <= SamplerPart!Spent(k)'
      <3>1. m \in [Threads -> Int] /\ n \in [Threads -> Int]
        BY <2>2
      <3>2. \A u \in Threads \cup Threads : Val(n, u) <= Val(m, u) + Slack(t, 1, u)
        BY <1>8, <2>2 DEF Val, Slack
      <3>3. SumOf(n) <= SumOf(m) + 1
        BY <3>1, <3>2, SamplerParams, SumGrows
      <3>4. SumOf(n) \in Int /\ SumOf(m) \in Int
        BY <3>1, SamplerParams, SumsExist, SumOfIs
      <3>5. SamplerPart!Shared(n) = SumOf(n) /\ SamplerPart!Shared(m) = SumOf(m)
        BY <3>1, SamplerParams, SharedIs
      <3>6. SumOf(m) <= SamplerPart!Spent(k)
        BY <1>4, <3>5
      <3> QED BY <1>7, <2>1, <3>3, <3>4, <3>5, <3>6
    <2>5. ASSUME NEW f \in {r3', r9, SamplerPart!InHand}, NEW u \in DOMAIN f
          PROVE  f[u][k] <= SamplerPart!Base(u, k) + n[u] /\ SamplerPart!Base(u, k) <= f[u][k]
      <3>1. CASE f = r3'
        <4>1. u \in DOMAIN r3 /\ u \in Threads /\ r3[u][k] \in Nat /\ SamplerPart!Base(u, k) \in Nat
                 /\ m[u] \in Nat
          BY <1>1, <1>6, <1>8, <3>1
        <4>2. r3[u][k] <= SamplerPart!Base(u, k) + m[u] /\ SamplerPart!Base(u, k) <= r3[u][k]
          BY <1>4, <1>5, <4>1
        <4>3. CASE u = t
          <5>1. r3'[u][k] = r3[u][k] + 1 /\ n[u] = m[u] + 1
            BY <1>1, <1>10, <2>2, <4>1, <4>3
          <5> QED BY <3>1, <4>1, <4>2, <5>1
        <4>4. CASE u # t
          <5>1. r3'[u][k] = r3[u][k] /\ n[u] = m[u]
            BY <1>1, <2>2, <4>1, <4>4
          <5> QED BY <3>1, <4>1, <4>2, <5>1
        <4> QED BY <4>3, <4>4
      <3>2. CASE f \in {r9, SamplerPart!InHand}
        <4>1. u \in Threads /\ f[u][k] \in Nat /\ SamplerPart!Base(u, k) \in Nat /\ m[u] \in Nat
                 /\ n[u] \in Nat
          BY <1>6, <1>8, <2>2, <3>2
        <4>2. f[u][k] <= SamplerPart!Base(u, k) + m[u] /\ SamplerPart!Base(u, k) <= f[u][k]
                 /\ m[u] <= n[u]
          BY <1>4, <1>5, <2>2, <3>2, <4>1
        <4> QED BY <4>1, <4>2
      <3> QED BY <3>1, <3>2
    <2> QED BY <2>3, <2>4, <2>5
  <1> QED BY <1>9, <1>10

(* When the sampler starts every share is nothing.                            *)
LEMMA SharesStart ==
  ASSUME SamplerPart!TalliesHeld, SamplerPart!SnapshotsHeld, SamplerPart!StartSampler, r6' # "off"
  PROVE  SamplerPart!SharesHeld'
PROOF
  <1>1. r9 = SamplerPart!NoThreads /\ r7 = SamplerPart!Nothing /\ r1 = "opened" /\ r6 = "off"
    BY DEF SamplerPart!TalliesHeld, SamplerPart!StartSampler
  <1>2. SamplerPart!Bank(SamplerPart!ThreadCounters, FALSE) /\ UNCHANGED <<r2, r3, r4, r7>>
    BY <1>1 DEF SamplerPart!StartSampler
  <1>3. r8' = SamplerPart!ThreadCounters /\ r9' = SamplerPart!ThreadCounters /\ r10' = {}
    BY <1>1, <1>2, Banks, LiveTallies DEF SamplerPart!TalliesHeld
  <1> SUFFICES ASSUME r2'.pid = r4'.pid PROVE SamplerPart!SharesHeld'
    BY DEF SamplerPart!SharesHeld
  <1>4. r8' = r3 /\ r9' = r3 /\ r3' = r3 /\ r10' = {} /\ SamplerPart!InHand' = SamplerPart!NoThreads
           /\ DOMAIN SamplerPart!NoThreads = {}
    BY <1>1, <1>2, <1>3 DEF SamplerPart!ThreadCounters, SamplerPart!InHand, SamplerPart!NoThreads
  <1>5. ASSUME NEW k \in SamplerPart!Counters
        PROVE  /\ \E m \in [Threads -> 0..SamplerPart!Spent(k)'] :
                     /\ SamplerPart!Shared(m) <= SamplerPart!Spent(k)'
                     /\ \A f \in {r3', r9', SamplerPart!InHand'} : \A t \in DOMAIN f :
                           f[t][k] <= SamplerPart!Base(t, k)' + m[t]
               /\ \A f \in {r3', r9', SamplerPart!InHand'} : \A t \in DOMAIN f :
                     SamplerPart!Base(t, k)' <= f[t][k]
    <2> DEFINE m == [u \in Threads |-> 0]
    <2>1. SamplerPart!Spent(k)' \in Int /\ SamplerPart!Spent(k)' >= 0
      <3>1. r2.pid = r4.pid /\ SamplerPart!Spent(k)' = SamplerPart!Spent(k)
        BY <1>2 DEF SamplerPart!Spent
      <3>2. SamplerPart!Spent(k) >= 0 /\ SamplerPart!Spent(k) \in Int
        BY <1>1, <3>1 DEF SamplerPart!SnapshotsHeld, SamplerPart!Spent, SamplerPart!TalliesHeld
      <3> QED BY <3>1, <3>2
    <2>2. m \in [Threads -> 0..SamplerPart!Spent(k)'] /\ m \in [Threads -> Int]
             /\ \A u \in Threads : m[u] <= 0
      BY <2>1
    <2>3. SamplerPart!Shared(m) <= SamplerPart!Spent(k)'
      <3> HIDE DEF m
      <3>1. SamplerPart!Shared(m) = SumOf(m) /\ SumOf(m) <= 0 /\ SumOf(m) \in Int
        BY <2>2, SamplerParams, SharedIs, SumOfLow, SumsExist, SumOfIs
      <3> QED BY <2>1, <3>1
    <2>4. \A t \in DOMAIN r3 : t \in Threads /\ r3[t][k] \in Nat /\ SamplerPart!Base(t, k)' = r3[t][k]
      BY <1>4 DEF SamplerPart!TalliesHeld, SamplerPart!Tally, SamplerPart!Base
    <2>5. \A f \in {r3', r9', SamplerPart!InHand'} : \A t \in DOMAIN f :
              f[t][k] <= SamplerPart!Base(t, k)' + m[t] /\ SamplerPart!Base(t, k)' <= f[t][k]
      BY <1>4, <2>4
    <2> HIDE DEF m
    <2> QED BY <2>2, <2>3, <2>5
  <1> QED BY <1>5 DEF SamplerPart!SharesHeld

LEMMA SharesKept ==
  ASSUME SamplerPart!TalliesHeld, SamplerPart!SnapshotsHeld, SamplerPart!SharesHeld,
         [SamplerPart!SamplerNext]_SamplerVars
  PROVE  SamplerPart!SharesHeld'
PROOF
  <1> SUFFICES ASSUME r6' # "off" PROVE SamplerPart!SharesHeld'
    BY DEF SamplerPart!SharesHeld
  <1>a. r6 # "off" => r1 \in {"sampled", "running", "stopping"}
    BY DEF SamplerPart!TalliesHeld
  <1>b. /\ SamplerPart!Tally(SamplerPart!InHand) /\ SamplerPart!Tally(r8) /\ SamplerPart!Tally(r9)
              /\ DOMAIN r8 = DOMAIN r9
        /\ r10 \subseteq DOMAIN r9
    BY DEF SamplerPart!TalliesHeld
  <1>1. CASE SamplerPart!Work
    BY <1>1, SharesWork DEF SamplerPart!Work, SamplerPart!smp
  <1>2. CASE SamplerPart!ThreadStarts
    <2>1. /\ r6' = r6 /\ UNCHANGED <<r2, r4, r7, r8, r9, r10>>
          /\ \E t \in Threads \ (DOMAIN r3 \cup DOMAIN r9) :
                r3' = SamplerPart!Put(r3, t, SamplerPart!Zero)
      BY <1>2 DEF SamplerPart!ThreadStarts, SamplerPart!smp
    <2>2. \A t, k : SamplerPart!Base(t, k)' = SamplerPart!Base(t, k)
      BY <2>1 DEF SamplerPart!Base
    <2>3. SamplerPart!InHand' = SamplerPart!InHand
      BY <2>1 DEF SamplerPart!InHand
    <2>4. \A t \in DOMAIN r3' : \/ t \in DOMAIN r3 /\ r3'[t] = r3[t]
                                \/ t \in Threads \ DOMAIN r8 /\ r3'[t] = SamplerPart!Zero
      BY <1>b, <2>1 DEF SamplerPart!Put
    <2> QED BY <2>1, <2>2, <2>3, <2>4, SharesStay
  <1>3. CASE SamplerPart!ThreadExits
    <2>1. /\ r6' = r6 /\ UNCHANGED <<r2, r4, r7, r8, r9, r10>>
          /\ \E t \in DOMAIN r3 : r3' = [u \in DOMAIN r3 \ {t} |-> r3[u]]
      BY <1>3 DEF SamplerPart!ThreadExits, SamplerPart!smp
    <2>2. \A t, k : SamplerPart!Base(t, k)' = SamplerPart!Base(t, k)
      BY <2>1 DEF SamplerPart!Base
    <2>3. SamplerPart!InHand' = SamplerPart!InHand
      BY <2>1 DEF SamplerPart!InHand
    <2>4. \A t \in DOMAIN r3' : t \in DOMAIN r3 /\ r3'[t] = r3[t]
      BY <2>1
    <2> QED BY <2>1, <2>2, <2>3, <2>4, SharesStay
  <1>4. CASE SamplerPart!EngineReplaced
    <2>1. r4' = r4 /\ r2'.pid = r2.pid + 1 /\ r1 # "open"
      BY <1>4 DEF SamplerPart!EngineReplaced
    <2>2. r4.pid <= r2.pid /\ r4.pid \in Nat /\ r2.pid \in Nat
      BY <2>1 DEF SamplerPart!SnapshotsHeld, SamplerPart!TalliesHeld
    <2>3. r2'.pid # r4'.pid
      BY <2>1, <2>2
    <2> QED BY <2>3 DEF SamplerPart!SharesHeld
  <1>5. CASE SamplerPart!OpenStat \/ SamplerPart!OpenThreads \/ SamplerPart!CloseStat
                \/ SamplerPart!CloseThreads
    BY <1>5, <1>a DEF SamplerPart!OpenStat, SamplerPart!OpenThreads, SamplerPart!CloseStat,
                      SamplerPart!CloseThreads, SamplerPart!smp
  <1>6. CASE SamplerPart!StartSampler
    BY <1>6, SharesStart
  <1>7. CASE SamplerPart!StartCar \/ SamplerPart!StopCar \/ SamplerPart!Join \/ UNCHANGED SamplerVars
    <2>1. r6 # "off" /\ UNCHANGED <<r2, r3, r4, r7, r8, r9, r10>>
      BY <1>7 DEF SamplerPart!StartCar, SamplerPart!StopCar, SamplerPart!Join, SamplerPart!smp,
                  SamplerVars
    <2>2. \A t, k : SamplerPart!Base(t, k)' = SamplerPart!Base(t, k)
      BY <2>1 DEF SamplerPart!Base
    <2>3. SamplerPart!InHand' = SamplerPart!InHand
      BY <2>1 DEF SamplerPart!InHand
    <2> QED BY <2>1, <2>2, <2>3, SharesStay
  <1>8. CASE SamplerPart!LoopRead
    <2>1. /\ r6' = r6 /\ UNCHANGED <<r2, r3, r4, r8, r9, r10>>
                /\ SamplerPart!InHand' = SamplerPart!ThreadCounters
      BY <1>8 DEF SamplerPart!LoopRead, SamplerPart!InHand, SamplerPart!Nothing
    <2>2. \A t, k : SamplerPart!Base(t, k)' = SamplerPart!Base(t, k)
      BY <2>1 DEF SamplerPart!Base
    <2>3. \A t \in DOMAIN SamplerPart!ThreadCounters : t \in DOMAIN r3
             /\ SamplerPart!ThreadCounters[t] = r3[t]
      BY DEF SamplerPart!ThreadCounters, SamplerPart!NoThreads
    <2> QED BY <2>1, <2>2, <2>3, SharesStay
  <1>9. CASE SamplerPart!LoopBank
    <2>1. /\ r6' = r6 /\ UNCHANGED <<r2, r3, r4>> /\ SamplerPart!Bank(SamplerPart!InHand, TRUE)
                /\ r7' = SamplerPart!Nothing
      BY <1>9 DEF SamplerPart!LoopBank, SamplerPart!InHand
    <2>2. /\ DOMAIN r9' = DOMAIN r9 \cup DOMAIN SamplerPart!InHand
          /\ \A t \in DOMAIN SamplerPart!InHand : r9'[t] = SamplerPart!InHand[t]
          /\ \A t \in DOMAIN r9 \ DOMAIN SamplerPart!InHand : r9'[t] = r9[t]
          /\ \A t \in DOMAIN r8 : r8'[t] = r8[t]
          /\ DOMAIN r8' \ r10' = DOMAIN r8 \ r10
      BY <1>b, <2>1, Banks
    <2>3. \A t, k : SamplerPart!Base(t, k)' = SamplerPart!Base(t, k)
      BY <2>2 DEF SamplerPart!Base
    <2>4. DOMAIN SamplerPart!InHand' = {}
      BY <2>1 DEF SamplerPart!InHand, SamplerPart!NoThreads
    <2>5. \A t \in DOMAIN r9' : \E g \in {r3, r9, SamplerPart!InHand} : t \in DOMAIN g
             /\ r9'[t] = g[t]
      BY <2>2
    <2> QED BY <2>1, <2>3, <2>4, <2>5, SharesStay
  <1>10. CASE SamplerPart!LastPoll
    <2>1. /\ r6 # "off" /\ UNCHANGED <<r2, r3, r4, r7>>
                /\ SamplerPart!Bank(SamplerPart!ThreadCounters, TRUE)
      BY <1>10 DEF SamplerPart!LastPoll
    <2>2. /\ DOMAIN r9' = DOMAIN r9 \cup DOMAIN SamplerPart!ThreadCounters
          /\ \A t \in DOMAIN SamplerPart!ThreadCounters : r9'[t] = SamplerPart!ThreadCounters[t]
          /\ \A t \in DOMAIN r9 \ DOMAIN SamplerPart!ThreadCounters : r9'[t] = r9[t]
          /\ \A t \in DOMAIN r8 : r8'[t] = r8[t]
          /\ DOMAIN r8' \ r10' = DOMAIN r8 \ r10
      BY <1>b, <2>1, Banks, LiveTallies
    <2>3. \A t, k : SamplerPart!Base(t, k)' = SamplerPart!Base(t, k)
      BY <2>2 DEF SamplerPart!Base
    <2>4. SamplerPart!InHand' = SamplerPart!InHand
      BY <2>1 DEF SamplerPart!InHand
    <2>5. \A t \in DOMAIN SamplerPart!ThreadCounters : t \in DOMAIN r3
             /\ SamplerPart!ThreadCounters[t] = r3[t]
      BY DEF SamplerPart!ThreadCounters, SamplerPart!NoThreads
    <2>6. \A t \in DOMAIN r9' : \E g \in {r3, r9, SamplerPart!InHand} : t \in DOMAIN g
             /\ r9'[t] = g[t]
      BY <2>2, <2>5
    <2> QED BY <2>1, <2>3, <2>4, <2>6, SharesStay
  <1>11. CASE SamplerPart!SumUp \/ SamplerPart!HarnessEnds
    BY <1>11 DEF SamplerPart!SumUp, SamplerPart!HarnessEnds
  <1> QED BY <1>1, <1>2, <1>3, <1>4, <1>5, <1>6, <1>7, <1>8, <1>9, <1>10, <1>11
             DEF SamplerPart!SamplerNext
LEMMA SpansKept ==
  ASSUME SamplerPart!TalliesHeld, SamplerPart!SpansHeld, [SamplerPart!SamplerNext]_SamplerVars
  PROVE  SamplerPart!SpansHeld'
PROOF
  <1> SUFFICES ASSUME r6' # "off" PROVE SamplerPart!SpansHeld'
    BY DEF SamplerPart!SpansHeld
  <1>a. /\ SamplerPart!Tally(SamplerPart!InHand) /\ SamplerPart!Tally(r8) /\ SamplerPart!Tally(r9)
              /\ DOMAIN r8 = DOMAIN r9
        /\ r10 \subseteq DOMAIN r9
        /\ r6 # "off" => r1 \in {"sampled", "running", "stopping"}
        /\ ~r12 /\ r6 \in {"off", "last", "sum"} => r7 = SamplerPart!Nothing
    BY DEF SamplerPart!TalliesHeld
  <1>b. r6 # "off" =>
          /\ r13 = SamplerPart!Nothing
          /\ DOMAIN r11.from = DOMAIN r8 \ r10
          /\ \A t \in DOMAIN r11.from : r8[t] = r11.from[t]
          /\ (r6 = "sum" /\ ~r12) =>
                DOMAIN r11.to \subseteq DOMAIN r9 /\ \A t \in DOMAIN r11.to : r9[t] = r11.to[t]
    BY DEF SamplerPart!SpansHeld
  <1>1. CASE SamplerPart!Work \/ SamplerPart!ThreadStarts \/ SamplerPart!ThreadExits
                \/ SamplerPart!EngineReplaced \/ SamplerPart!StartCar
             \/ SamplerPart!StopCar \/ SamplerPart!Join \/ SamplerPart!LoopRead
                   \/ UNCHANGED SamplerVars
    <2>1. /\ UNCHANGED <<r8, r9, r10, r11, r13>> /\ r6 # "off"
          /\ r6' = "sum" => r6 = "sum" /\ r12' = r12
      BY <1>1 DEF SamplerPart!Work, SamplerPart!ThreadStarts, SamplerPart!ThreadExits,
                  SamplerPart!EngineReplaced, SamplerPart!StartCar, SamplerPart!StopCar,
                  SamplerPart!Join, SamplerPart!LoopRead, SamplerPart!smp, SamplerVars
    <2> QED BY <1>b, <2>1 DEF SamplerPart!SpansHeld
  <1>2. CASE SamplerPart!OpenStat \/ SamplerPart!OpenThreads \/ SamplerPart!CloseStat
                \/ SamplerPart!CloseThreads
    BY <1>2, <1>a DEF SamplerPart!OpenStat, SamplerPart!OpenThreads, SamplerPart!CloseStat,
                      SamplerPart!CloseThreads, SamplerPart!smp
  <1>3. CASE SamplerPart!StartSampler
    <2>1. r9 = SamplerPart!NoThreads /\ r13 = SamplerPart!Nothing /\ r1 = "opened" /\ r6 = "off"
          /\ r11 = [from |-> SamplerPart!NoThreads, to |-> SamplerPart!NoThreads]
      BY <1>3 DEF SamplerPart!StartSampler, SamplerPart!TalliesHeld
    <2>2. /\ SamplerPart!Bank(SamplerPart!ThreadCounters, FALSE) /\ r6' = "running" /\ r13' = r13
          /\ r11' = [r11 EXCEPT !.from = SamplerPart!ThreadCounters]
      BY <1>3, <2>1 DEF SamplerPart!StartSampler
    <2>3. r8' = SamplerPart!ThreadCounters /\ r9' = SamplerPart!ThreadCounters /\ r10' = {}
      BY <1>a, <2>1, <2>2, Banks, LiveTallies
    <2>4. r11'.from = SamplerPart!ThreadCounters
      BY <2>1, <2>2
    <2> QED BY <2>1, <2>2, <2>3, <2>4 DEF SamplerPart!SpansHeld
  <1>4. CASE SamplerPart!LoopBank
    <2>1. /\ r6' = r6 /\ r6 # "off" /\ UNCHANGED <<r11, r12, r13>>
                /\ SamplerPart!Bank(SamplerPart!InHand, TRUE)
          /\ r7 # SamplerPart!Nothing
      BY <1>4 DEF SamplerPart!LoopBank, SamplerPart!InHand
    <2>2. /\ \A t \in DOMAIN r8 : r8'[t] = r8[t]
          /\ DOMAIN r8' \ r10' = DOMAIN r8 \ r10
      BY <1>a, <2>1, Banks
    <2>3. ~(r6' = "sum" /\ ~r12')
      BY <1>a, <2>1
    <2> QED BY <1>b, <2>1, <2>2, <2>3 DEF SamplerPart!SpansHeld
  <1>5. CASE SamplerPart!LastPoll
    <2>1. /\ r6 # "off" /\ UNCHANGED <<r12, r13>>
                /\ SamplerPart!Bank(SamplerPart!ThreadCounters, TRUE)
          /\ r11' = [r11 EXCEPT !.to = SamplerPart!ThreadCounters]
      BY <1>5 DEF SamplerPart!LastPoll
    <2>2. /\ DOMAIN r9' = DOMAIN r9 \cup DOMAIN SamplerPart!ThreadCounters
          /\ \A t \in DOMAIN SamplerPart!ThreadCounters : r9'[t] = SamplerPart!ThreadCounters[t]
          /\ \A t \in DOMAIN r8 : r8'[t] = r8[t]
          /\ DOMAIN r8' \ r10' = DOMAIN r8 \ r10
      BY <1>a, <2>1, Banks, LiveTallies
    <2> QED BY <1>b, <2>1, <2>2 DEF SamplerPart!SpansHeld
  <1>6. CASE SamplerPart!SumUp \/ SamplerPart!HarnessEnds
    BY <1>6 DEF SamplerPart!SumUp, SamplerPart!HarnessEnds
  <1> QED BY <1>1, <1>2, <1>3, <1>4, <1>5, <1>6 DEF SamplerPart!SamplerNext

(* The sum is of what every thread gained, and no gain is more than a share.  *)
LEMMA BankSums ==
  ASSUME SamplerPart!TalliesHeld, SamplerPart!SnapshotsHeld, SamplerPart!SharesHeld,
         SamplerPart!SpansHeld, SamplerPart!SumUp, r2.pid = r4.pid,
         NEW k \in SamplerPart!Counters
  PROVE  /\ SamplerPart!Banked(k) \in 0..SamplerPart!Spent(k)
         /\ ~r12 => \A t \in DOMAIN r11.to :
               SamplerPart!Banked(k) >= r11.to[t][k] - (IF t \in DOMAIN r11.from THEN r11.from[t][k] ELSE 0)
PROOF
  <1>1. r6 = "sum"
    BY DEF SamplerPart!SumUp
  <1>2. PICK m \in [Threads -> 0..SamplerPart!Spent(k)] :
           /\ SamplerPart!Shared(m) <= SamplerPart!Spent(k)
           /\ \A f \in {r3, r9, SamplerPart!InHand} : \A t \in DOMAIN f :
                 f[t][k] <= SamplerPart!Base(t, k) + m[t]
    BY <1>1 DEF SamplerPart!SharesHeld
  <1>3. \A f \in {r3, r9, SamplerPart!InHand} : \A t \in DOMAIN f : SamplerPart!Base(t, k) <= f[t][k]
    BY <1>1 DEF SamplerPart!SharesHeld
  <1>4. /\ DOMAIN r9 \subseteq Threads /\ DOMAIN r8 = DOMAIN r9 /\ IsFiniteSet(DOMAIN r9)
        /\ \A t \in DOMAIN r9 : r9[t][k] \in Nat /\ r8[t][k] \in Nat
    BY SamplerParams, FS_Subset DEF SamplerPart!TalliesHeld, SamplerPart!Tally
  <1>5. SamplerPart!Spent(k) \in Int
    <2>1. r1 \in {"sampled", "running", "stopping"}
      BY <1>1 DEF SamplerPart!TalliesHeld
    <2>2. r2.done[k] \in Nat /\ r4.opened[k] \in Nat
      BY <2>1 DEF SamplerPart!TalliesHeld, SamplerPart!SnapshotsHeld
    <2> QED BY <2>2 DEF SamplerPart!Spent
  <1>6. \A t \in DOMAIN r9 : Took(t, k) \in Nat /\ Had(t, k) \in Nat
           /\ Had(t, k) = SamplerPart!Base(t, k)
    BY <1>4 DEF Took, Had, SamplerPart!Base
  <1>7. \A t \in Threads : m[t] \in Nat
    BY <1>2, <1>5
  <1> DEFINE g == [t \in DOMAIN r9 |-> Took(t, k) - Had(t, k)]
  <1>8. /\ g \in [DOMAIN r9 -> Int] /\ \A t \in DOMAIN r9 : g[t] >= 0 /\ g[t] <= m[t]
        /\ \A t \in DOMAIN r9 : g[t] = Took(t, k) - Had(t, k)
    <2>1. ASSUME NEW t \in DOMAIN r9
          PROVE  Took(t, k) - Had(t, k) \in Nat /\ Took(t, k) - Had(t, k) <= m[t]
      <3>1. Took(t, k) \in Nat /\ Had(t, k) \in Nat /\ m[t] \in Nat
        BY <1>4, <1>6, <1>7
      <3>2. Took(t, k) <= Had(t, k) + m[t] /\ Had(t, k) <= Took(t, k)
        BY <1>2, <1>3, <1>6 DEF Took
      <3> QED BY <3>1, <3>2
    <2> QED BY <2>1
  <1>9. SamplerPart!Banked(k) = SumOf(g)
    BY <1>4, <1>6, BankedIs
  <1> HIDE DEF g
  <1>10. SumOf(g) \in Nat /\ \A t \in DOMAIN r9 : g[t] <= SumOf(g)
    BY <1>4, <1>8, SumAtLeast
  <1>11. SumOf(g) <= SamplerPart!Spent(k)
    <2>1. m \in [Threads -> Int]
      BY <1>2, <1>7
    <2>2. \A t \in DOMAIN r9 \cup Threads : Val(g, t) <= Val(m, t) + Slack(0, 0, t)
      BY <1>4, <1>7, <1>8, <2>1 DEF Val, Slack
    <2>3. SumOf(g) <= SumOf(m) + 0
      BY <1>4, <1>8, <2>1, <2>2, SamplerParams, SumGrows
    <2>4. SamplerPart!Shared(m) = SumOf(m) /\ SumOf(m) \in Int
      BY <2>1, SamplerParams, SharedIs, SumsExist, SumOfIs
    <2> QED BY <1>2, <1>5, <1>10, <2>3, <2>4
  <1>12. SamplerPart!Banked(k) \in 0..SamplerPart!Spent(k)
    BY <1>5, <1>9, <1>10, <1>11
  <1>13. ASSUME ~r12, NEW t \in DOMAIN r11.to
         PROVE  SamplerPart!Banked(k) >= r11.to[t][k] - (IF t \in DOMAIN r11.from THEN r11.from[t][k] ELSE 0)
    <2>1. t \in DOMAIN r9 /\ r9[t] = r11.to[t]
      BY <1>1, <1>13 DEF SamplerPart!SpansHeld
    <2>2. /\ t \in DOMAIN r11.from <=> t \notin r10
          /\ t \in DOMAIN r11.from => r8[t] = r11.from[t]
      BY <1>1, <1>4, <2>1 DEF SamplerPart!SpansHeld
    <2>3. /\ Took(t, k) = r11.to[t][k]
          /\ Had(t, k) = IF t \in DOMAIN r11.from THEN r11.from[t][k] ELSE 0
      BY <2>1, <2>2 DEF Took, Had
    <2>4. g[t] <= SumOf(g) /\ g[t] = Took(t, k) - Had(t, k) /\ Took(t, k) \in Nat /\ Had(t, k) \in Nat
      BY <1>6, <1>8, <1>10, <2>1
    <2>5. SamplerPart!Banked(k) >= Took(t, k) - Had(t, k)
      BY <1>9, <1>10, <2>4
    <2> QED BY <2>3, <2>5
  <1> QED BY <1>12, <1>13

LEMMA BankKept ==
  ASSUME SamplerPart!TalliesHeld, SamplerPart!SnapshotsHeld, SamplerPart!SharesHeld,
         SamplerPart!SpansHeld, SamplerPart!BankHeld,
         [SamplerPart!SamplerNext]_SamplerVars
  PROVE  SamplerPart!BankHeld'
PROOF
  <1> SUFFICES ASSUME r13' # SamplerPart!Nothing, r2'.pid = r4'.pid
               PROVE  /\ r13'.kind = "sums"
                      /\ \A k \in SamplerPart!Counters : r13'.of[k] \in 0..SamplerPart!Spent(k)'
                      /\ ~r12' => \A k \in SamplerPart!Counters, t \in DOMAIN r11'.to :
                            r13'.of[k] >= r11'.to[t][k]
                               - (IF t \in DOMAIN r11'.from THEN r11'.from[t][k] ELSE 0)
    BY DEF SamplerPart!BankHeld, SamplerPart!Nothing
  <1>a. r6 # "off" => r13 = SamplerPart!Nothing
    BY DEF SamplerPart!SpansHeld
  <1>b. r1 \in {"open", "opening", "opened"} => r13 = SamplerPart!Nothing
    BY DEF SamplerPart!TalliesHeld
  <1>c. (r13 # SamplerPart!Nothing /\ r2.pid = r4.pid) =>
           /\ r13.kind = "sums"
           /\ \A k \in SamplerPart!Counters : r13.of[k] \in 0..SamplerPart!Spent(k)
           /\ ~r12 => \A k \in SamplerPart!Counters, t \in DOMAIN r11.to :
                r13.of[k] >= r11.to[t][k] - (IF t \in DOMAIN r11.from THEN r11.from[t][k] ELSE 0)
    BY DEF SamplerPart!BankHeld
  <1>1. CASE SamplerPart!Work
    <2>1. UNCHANGED <<r4, r11, r12, r13>> /\ r1 # "open"
      BY <1>1 DEF SamplerPart!Work, SamplerPart!smp
    <2>2. r4.opened \in [SamplerPart!Counters -> Nat]
      BY <2>1 DEF SamplerPart!SnapshotsHeld
    <2>3. r2'.pid = r2.pid /\ \A k \in SamplerPart!Counters : Grown(k)
      <3>1. "oncpu" \in SamplerPart!Counters
        BY DEF SamplerPart!Counters
      <3> QED BY <1>1, <2>2, <3>1, WorkIsSpent
    <2>4. \A k \in SamplerPart!Counters : r13.of[k] \in 0..SamplerPart!Spent(k)'
      <3> SUFFICES ASSUME NEW k \in SamplerPart!Counters PROVE r13.of[k] \in 0..SamplerPart!Spent(k)'
        OBVIOUS
      <3>1. r13.of[k] \in 0..SamplerPart!Spent(k)
        BY <1>c, <2>1, <2>3
      <3>2. PICK c \in {0, 1} : SamplerPart!Spent(k)' = SamplerPart!Spent(k) + c
        BY <2>3 DEF Grown
      <3>3. SamplerPart!Spent(k) \in Int /\ SamplerPart!Spent(k)' \in Int
        BY <2>3 DEF Grown
      <3> QED BY <3>1, <3>2, <3>3
    <2> QED BY <1>c, <2>1, <2>3, <2>4
  <1>2. CASE SamplerPart!EngineReplaced
    <2>1. r4' = r4 /\ r2'.pid = r2.pid + 1 /\ r1 # "open"
      BY <1>2 DEF SamplerPart!EngineReplaced
    <2>2. r4.pid <= r2.pid /\ r4.pid \in Nat /\ r2.pid \in Nat
      BY <2>1 DEF SamplerPart!SnapshotsHeld, SamplerPart!TalliesHeld
    <2> QED BY <2>1, <2>2
  <1>3. CASE SamplerPart!OpenStat \/ SamplerPart!OpenThreads \/ SamplerPart!StartSampler
                \/ SamplerPart!Join \/ SamplerPart!LastPoll
    <2>1. r13' = r13 /\ r13 = SamplerPart!Nothing
      BY <1>3, <1>a, <1>b DEF SamplerPart!OpenStat, SamplerPart!OpenThreads,
                              SamplerPart!StartSampler, SamplerPart!Join, SamplerPart!LastPoll,
                              SamplerPart!smp
    <2> QED BY <2>1 DEF SamplerPart!Nothing
  <1>4. CASE SamplerPart!ThreadStarts \/ SamplerPart!ThreadExits \/ SamplerPart!StartCar
                \/ SamplerPart!LoopRead \/ SamplerPart!LoopBank \/ SamplerPart!StopCar
             \/ SamplerPart!CloseStat \/ SamplerPart!CloseThreads \/ UNCHANGED SamplerVars
    <2>1. UNCHANGED <<r2, r4, r11, r12, r13>>
      BY <1>4 DEF SamplerPart!ThreadStarts, SamplerPart!ThreadExits, SamplerPart!StartCar,
                  SamplerPart!LoopRead, SamplerPart!LoopBank, SamplerPart!StopCar,
                  SamplerPart!CloseStat, SamplerPart!CloseThreads, SamplerPart!smp, SamplerVars
    <2>2. \A k \in SamplerPart!Counters : SamplerPart!Spent(k)' = SamplerPart!Spent(k)
      BY <2>1 DEF SamplerPart!Spent
    <2> QED BY <1>c, <2>1, <2>2
  <1>5. CASE SamplerPart!SumUp
    <2>1. UNCHANGED <<r2, r4, r11, r12>> /\ r13' \in {SamplerPart!Nothing,
             [kind |-> "sums", of |-> [k \in SamplerPart!Counters |-> SamplerPart!Banked(k)]]}
      BY <1>5 DEF SamplerPart!SumUp
    <2>2. r13'.kind = "sums" /\ \A k \in SamplerPart!Counters : r13'.of[k] = SamplerPart!Banked(k)
      BY <2>1 DEF SamplerPart!Nothing
    <2>3. \A k \in SamplerPart!Counters : SamplerPart!Spent(k)' = SamplerPart!Spent(k)
      BY <2>1 DEF SamplerPart!Spent
    <2> QED BY <1>5, <2>1, <2>2, <2>3, BankSums
  <1>6. CASE SamplerPart!HarnessEnds
    BY <1>6 DEF SamplerPart!HarnessEnds, SamplerPart!Nothing
  <1> QED BY <1>1, <1>2, <1>3, <1>4, <1>5, <1>6 DEF SamplerPart!SamplerNext

(* What the survivors have gained, if it is shown, covers the engine's time.  *)
LEMMA SurvivorsTell ==
  ASSUME SamplerPart!TalliesHeld, SamplerPart!SnapshotsHeld, SamplerPart!CloseThreads,
         r2.pid = r4.pid, ~SamplerPart!Withheld(r4, r5')
  PROVE  /\ \A k \in SamplerPart!Counters : r5'.sums[k] >= r4.sums[k]
               /\ r5'.sums[k] - r4.sums[k] \in 0..SamplerPart!Spent(k)
         /\ \/ 100 * (r5'.sums["oncpu"] - r4.sums["oncpu"]) >= 95 * (r5'.cpu - r4.cpu)
            \/ r5'.cpu - r4.cpu < CoverageFloor
PROOF
  <1>1. /\ r1 = "closing" /\ r5'.cpu = r5.cpu
              /\ r5'.sums = [k \in SamplerPart!Counters |-> SamplerPart!Total(r3, k)]
    BY DEF SamplerPart!CloseThreads, SamplerPart!Snapshot
  <1>2. r4.cpu \in Nat /\ r5'.cpu \in Nat /\ r4.sums \in [SamplerPart!Counters -> Nat]
        /\ r4.opened \in [SamplerPart!Counters -> Nat]
    BY <1>1 DEF SamplerPart!SnapshotsHeld
  <1>3. \A k \in SamplerPart!Counters : r5'.sums[k] = SamplerPart!Total(r3, k)
           /\ SamplerPart!Total(r3, k) \in Nat /\ r4.sums[k] \in Nat
    BY <1>1, <1>2, TallyTotal DEF SamplerPart!TalliesHeld
  <1>4. ASSUME NEW k \in SamplerPart!Counters
        PROVE  r5'.sums[k] >= r4.sums[k] /\ r5'.sums[k] - r4.sums[k] \in 0..SamplerPart!Spent(k)
    <2>1. ~(r5'.sums[k] < r4.sums[k])
      BY DEF SamplerPart!Withheld, SamplerPart!Fell
    <2>2. SamplerPart!Total(r3, k) <= r4.sums[k] + SamplerPart!Spent(k)
      BY <1>1 DEF SamplerPart!SnapshotsHeld
    <2>3. SamplerPart!Spent(k) \in Int
      <3>1. r2.done[k] \in Nat /\ r4.opened[k] \in Nat
        BY <1>2 DEF SamplerPart!TalliesHeld
      <3> QED BY <3>1 DEF SamplerPart!Spent
    <2> QED BY <1>3, <2>1, <2>2, <2>3
  <1>5. "oncpu" \in SamplerPart!Counters
    BY DEF SamplerPart!Counters
  <1>6. r5'.sums["oncpu"] \in Nat /\ r4.sums["oncpu"] \in Nat
    BY <1>3, <1>5
  <1>7. ~(/\ r5'.cpu - r4.cpu >= CoverageFloor
          /\ 100 * (r5'.sums["oncpu"] - r4.sums["oncpu"]) < 95 * (r5'.cpu - r4.cpu))
    BY DEF SamplerPart!Withheld, SamplerPart!LowCoverage
  <1>8. \/ 100 * (r5'.sums["oncpu"] - r4.sums["oncpu"]) >= 95 * (r5'.cpu - r4.cpu)
        \/ r5'.cpu - r4.cpu < CoverageFloor
    BY <1>2, <1>6, <1>7, SamplerParams
  <1> QED BY <1>4, <1>8

LEMMA CountsKept ==
  ASSUME SamplerPart!TalliesHeld, SamplerPart!SnapshotsHeld, SamplerPart!SharesHeld,
         SamplerPart!SpansHeld, SamplerPart!BankHeld, SamplerPart!CountsAreTheRows,
         [SamplerPart!SamplerNext]_SamplerVars
  PROVE  SamplerPart!CountsAreTheRows'
PROOF
  <1>1. CASE SamplerPart!CloseThreads
    <2> SUFFICES ASSUME r15'.sched # SamplerPart!Nothing, r2.pid = r4.pid
                 PROVE  SamplerPart!CountsAreTheRows'
      BY <1>1 DEF SamplerPart!CountsAreTheRows, SamplerPart!CloseThreads, SamplerPart!Nothing
    <2>1. /\ UNCHANGED <<r2, r4, r11, r12, r13>> /\ r15' = SamplerPart!Delta(r4, r5')
      BY <1>1 DEF SamplerPart!CloseThreads, SamplerPart!smp
    <2>2. \A k \in SamplerPart!Counters : SamplerPart!Spent(k)' = SamplerPart!Spent(k)
             /\ SamplerPart!Spent(k) = r2.done[k] - r4.opened[k]
      BY <2>1 DEF SamplerPart!Spent
    <2>3. r4.pid = r5'.pid
      BY <2>1 DEF SamplerPart!Delta, SamplerPart!Nothing
    <2>4. CASE r13 # SamplerPart!Nothing
      <3>1. r15'.sched = r13 /\ r15' = [kind |-> "row", sched |-> r13]
        BY <2>1, <2>3, <2>4 DEF SamplerPart!Delta
      <3>2. /\ r13.kind = "sums"
            /\ \A k \in SamplerPart!Counters : r13.of[k] \in 0..SamplerPart!Spent(k)
            /\ ~r12 => \A k \in SamplerPart!Counters, t \in DOMAIN r11.to :
                 r13.of[k] >= r11.to[t][k] - (IF t \in DOMAIN r11.from THEN r11.from[t][k] ELSE 0)
        BY <2>4 DEF SamplerPart!BankHeld
      <3> QED BY <2>1, <2>2, <3>1, <3>2 DEF SamplerPart!CountsAreTheRows
    <2>5. CASE r13 = SamplerPart!Nothing
      <3>1. ~SamplerPart!Withheld(r4, r5')
        BY <2>1, <2>3, <2>5 DEF SamplerPart!Delta
      <3>2. r15'.sched = [kind |-> "survivors",
                          of |-> [k \in SamplerPart!Counters |->
                                     IF r5'.sums[k] >= r4.sums[k]
                                     THEN r5'.sums[k] - r4.sums[k] ELSE -1]]
        BY <2>1, <2>3, <2>5, <3>1 DEF SamplerPart!Delta
      <3>3. /\ \A k \in SamplerPart!Counters :
                  r5'.sums[k] >= r4.sums[k] /\ r5'.sums[k] - r4.sums[k] \in 0..SamplerPart!Spent(k)
            /\ \/ 100 * (r5'.sums["oncpu"] - r4.sums["oncpu"]) >= 95 * (r5'.cpu - r4.cpu)
               \/ r5'.cpu - r4.cpu < CoverageFloor
        BY <1>1, <3>1, SurvivorsTell
      <3>4. /\ r15'.sched.kind = "survivors"
            /\ \A k \in SamplerPart!Counters : r15'.sched.of[k] = r5'.sums[k] - r4.sums[k]
        BY <3>2, <3>3
      <3>5. "oncpu" \in SamplerPart!Counters
        BY DEF SamplerPart!Counters
      <3>6. r15'.sched.of.oncpu = r5'.sums["oncpu"] - r4.sums["oncpu"]
        BY <3>4, <3>5
      <3> QED BY <2>1, <2>2, <3>3, <3>4, <3>6 DEF SamplerPart!CountsAreTheRows
    <2> QED BY <2>4, <2>5
  <1>2. CASE UNCHANGED SamplerVars
    BY <1>2 DEF SamplerVars, SamplerPart!CountsAreTheRows
  <1>3. CASE SamplerPart!SamplerNext /\ ~SamplerPart!CloseThreads
    <2>1. r1' # "closed"
      <3>1. r6 # "off" => r1 # "closed"
        BY DEF SamplerPart!TalliesHeld
      <3>2. r1 = "closed" => r6 = "off"
        BY <3>1
      <3>3. CASE SamplerPart!LoopBank
        BY <3>1, <3>3 DEF SamplerPart!LoopBank
      <3>4. CASE SamplerPart!LoopRead \/ SamplerPart!Join \/ SamplerPart!LastPoll \/ SamplerPart!SumUp
        BY <3>1, <3>4 DEF SamplerPart!LoopRead, SamplerPart!Join, SamplerPart!LastPoll,
                          SamplerPart!SumUp
      <3>5. CASE SamplerPart!Work \/ SamplerPart!ThreadStarts \/ SamplerPart!ThreadExits
                    \/ SamplerPart!EngineReplaced
        BY <3>5 DEF SamplerPart!Work, SamplerPart!ThreadStarts, SamplerPart!ThreadExits,
                    SamplerPart!EngineReplaced
      <3>6. CASE SamplerPart!OpenStat \/ SamplerPart!OpenThreads \/ SamplerPart!StartSampler
                    \/ SamplerPart!StartCar \/ SamplerPart!StopCar \/ SamplerPart!CloseStat
                 \/ SamplerPart!HarnessEnds
        BY <3>6 DEF SamplerPart!OpenStat, SamplerPart!OpenThreads, SamplerPart!StartSampler,
                    SamplerPart!StartCar, SamplerPart!StopCar, SamplerPart!CloseStat,
                    SamplerPart!HarnessEnds
      <3> QED BY <1>3, <3>3, <3>4, <3>5, <3>6 DEF SamplerPart!SamplerNext
    <2> QED BY <2>1 DEF SamplerPart!CountsAreTheRows
  <1> QED BY <1>1, <1>2, <1>3

LEMMA SamplerStarts == SamplerPart!SamplerInit => SamplerPart!SamplerInv
PROOF
  <1> SUFFICES ASSUME SamplerPart!SamplerInit PROVE SamplerPart!SamplerInv
    OBVIOUS
  <1>1. /\ r1 = "open" /\ r6 = "off" /\ r7 = SamplerPart!Nothing /\ r8 = SamplerPart!NoThreads
              /\ r9 = SamplerPart!NoThreads
        /\ r10 = {} /\ r11 = [from |-> SamplerPart!NoThreads, to |-> SamplerPart!NoThreads] /\ ~r12
              /\ r13 = SamplerPart!Nothing
    BY DEF SamplerPart!SamplerInit
  <1>2. SamplerPart!Cardinality(Founders) \in Nat
    <2>1. SamplerPart!Cardinality(Founders) = Cardinality(Founders)
      BY DEF Cardinality, SamplerPart!Cardinality
    <2> QED BY <2>1, SamplerParams
  <1>3. r2 \in [pid : Nat, done : [SamplerPart!Counters -> Nat]]
    BY <1>2 DEF SamplerPart!SamplerInit
  <1>4. SamplerPart!Tally(r3)
    BY SamplerParams DEF SamplerPart!SamplerInit, SamplerPart!Tally
  <1>5. SamplerPart!Tally(SamplerPart!InHand)
    BY <1>1, NoThreadsTally DEF SamplerPart!InHand
  <1>6. SamplerPart!TalliesHeld
    BY <1>1, <1>3, <1>4, <1>5, NoThreadsTally DEF SamplerPart!TalliesHeld
  <1>7. SamplerPart!SnapshotsHeld
    BY <1>1 DEF SamplerPart!SnapshotsHeld
  <1>8. SamplerPart!SharesHeld /\ SamplerPart!SpansHeld /\ SamplerPart!BankHeld
           /\ SamplerPart!CountsAreTheRows
    BY <1>1 DEF SamplerPart!SharesHeld, SamplerPart!SpansHeld, SamplerPart!BankHeld,
                SamplerPart!CountsAreTheRows
  <1> QED BY <1>6, <1>7, <1>8 DEF SamplerPart!SamplerInv

SamplerHeld == part = "sampler" => SamplerPart!SamplerInv

LEMMA SamplerStep == SamplerHeld /\ [PartsNext]_pvars => SamplerHeld'
PROOF
  <1> SUFFICES ASSUME SamplerHeld, [PartsNext]_pvars, part' = "sampler" PROVE SamplerPart!SamplerInv'
    BY DEF SamplerHeld
  <1>1. part = "sampler" /\ SamplerPart!SamplerInv
    BY PartStays DEF SamplerHeld
  <1>2. [SamplerPart!SamplerNext]_SamplerVars
    <2>1. CASE UNCHANGED pvars
      BY <2>1 DEF pvars, SamplerVars, After0, After1, After4, After5, After6, After8, After9,
                  After10, After11, After13, After14, After15
    <2>2. CASE PartsNext
      BY <1>1, <2>2 DEF PartsNext
    <2> QED BY <2>1, <2>2
  <1> QED BY <1>1, <1>2, TalliesKept, SnapshotsKept, SharesKept, SpansKept, BankKept, CountsKept
          DEF SamplerPart!SamplerInv

(* What a row says the engine's threads did is no more than the engine did    *)
(* between the snapshots, whichever threads came and went and however the     *)
(* sampler's polls raced (procstat.py, perfstat.py).                          *)
THEOREM CountersAreTheRowsCorrect == PartsSpec => []CountersAreTheRows
PROOF
  <1>1. PartsInit => SamplerHeld
    BY SamplerStarts DEF PartsInit, SamplerHeld
  <1>2. SamplerHeld => CountersAreTheRows
    BY DEF SamplerHeld, SamplerPart!SamplerInv, CountersAreTheRows
  <1> QED BY <1>1, <1>2, SamplerStep, PTL DEF PartsSpec, pvars
===============================================================================
