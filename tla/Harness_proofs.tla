---------------------------- MODULE Harness_proofs ----------------------------
(* The parts of the harness for every table and bound: that each keeps the    *)
(* invariant its module explains its promise by, and the promise.  A behaviour *)
(* is one of one part, so a part's invariant is about its own steps alone.    *)
(* Here what is made of rows, and who has them measured; and, at the end, that *)
(* the variables of every part keep their types.                              *)
EXTENDS Measuring_proofs, Arm_proofs

-----------------------------------------------------------------------------
(* RecallJoin: r1 takesAcorn, r2 acorn, r3 rows, r4 files, r5 sweeping.       *)

JoinHeld == part = "join" => JoinPart!JoinInv

LEMMA JoinInit == PartsInit => JoinHeld
PROOF
  <1> SUFFICES ASSUME PartsInit, part = "join" PROVE JoinPart!JoinInv
    BY DEF JoinHeld
  <1>1. JoinPart!JoinInit
    BY DEF PartsInit
  <1> QED BY <1>1 DEF JoinPart!JoinInit, JoinPart!JoinInv, JoinPart!RowsSane,
                      JoinPart!FilesTell, JoinPart!StampsOwn

(* What speaks for a row is of what it searched.                              *)
LEMMA JoinSpeaks == JoinPart!JoinInv => JoinPart!JoinedSweepIsTheRows
PROOF
  <1> SUFFICES ASSUME JoinPart!JoinInv, NEW r \in r3, NEW f \in r4,
                      f.name \in JoinPart!Candidates(r), JoinPart!Speaks(r, f.doc)
               PROVE  /\ f.doc.of.coll = r.of.coll /\ f.doc.of.params = r.of.params
                      /\ f.doc.of.grade = r.of.grade /\ ~f.doc.clash
                      /\ r1 = "yes" /\ (r.says \/ r.of.acorn = r2) =>
                            f.doc.of.acorn = r.of.acorn
                      /\ ~f.doc.old \/ f.doc.dataset # "silent" =>
                            f.doc.of.dataset = r.of.dataset
                      /\ ~f.doc.old => f.doc.of.limit = r.of.limit
    BY DEF JoinPart!JoinedSweepIsTheRows, JoinPart!Joinable
  <1>1. r.of \in JoinPart!Searches /\ JoinPart!Sane(r.of) /\ r.of.limit = JoinPart!Default
    BY DEF JoinPart!JoinInv, JoinPart!RowsSane
  <1>2. /\ f.doc.of \in JoinPart!Searches /\ JoinPart!Sane(f.doc.of)
        /\ f.doc.acorn = f.doc.of.acorn /\ f.doc.collection \in {f.doc.of.coll, "else"}
        /\ f.doc.dataset \in {f.doc.of.dataset, "silent"}
        /\ JoinPart!OfSweep(f) \/ JoinPart!OfOldHarness(f)
    BY DEF JoinPart!JoinInv, JoinPart!FilesTell, JoinPart!FileTells
  <1>3. /\ f.doc.collection = r.of.coll /\ f.doc.grade = r.of.grade
        /\ f.doc.dataset \in {"silent", r.of.dataset}
        /\ JoinPart!SweepParams(f.doc) = r.of.params /\ ~f.doc.clash
    BY DEF JoinPart!Speaks
  <1>4. f.doc.of.coll = r.of.coll
    BY <1>1, <1>2, <1>3 DEF JoinPart!Searches, JoinPart!Collections
  <1>5. f.doc.of.params # "silent" /\ f.doc.of.limit # 0
    BY <1>2, HarnessAssumption DEF JoinPart!Searches, JoinPart!Limits, JoinPart!Default
  <1>6. /\ f.doc.of.params = r.of.params /\ f.doc.of.grade = r.of.grade
        /\ ~f.doc.old => /\ f.doc.of.limit = r.of.limit
                         /\ f.doc.of.dataset = r.of.dataset
    <2>1. CASE JoinPart!OfOldHarness(f)
      BY <1>1, <1>3, <1>5, <2>1 DEF JoinPart!OfOldHarness, JoinPart!SweepParams
    <2>2. CASE JoinPart!OfSweep(f)
      <3> DEFINE Path(params, grade) ==
                   JoinPart!RecallPath(r.of.dataset, r.of.coll, JoinPart!Default, params, grade)
      <3>1. CASE r.of.grade # JoinPart!None
        <4>1. f.name = Path(r.of.params, r.of.grade)
          BY <3>1 DEF JoinPart!Candidates
        <4> QED BY <1>1, <2>2, <4>1 DEF JoinPart!OfSweep, JoinPart!PathOf, JoinPart!RecallPath
      <3>2. CASE r.of.grade = JoinPart!None
        <4>1. f.name \in {Path(r.of.params, JoinPart!None), Path(JoinPart!None, JoinPart!None),
                          JoinPart!LegacyPath(r.of.coll)}
          BY <3>2 DEF JoinPart!Candidates
        <4>2. /\ f.doc.of.grade = JoinPart!None /\ f.doc.of.limit = JoinPart!Default
              /\ f.doc.of.dataset = r.of.dataset
              /\ f.doc.of.params \in {r.of.params, JoinPart!None}
          BY <1>5, <2>2, <4>1 DEF JoinPart!OfSweep, JoinPart!PathOf, JoinPart!RecallPath,
                                  JoinPart!LegacyPath
        <4>4. f.doc.own # "silent" \/ f.doc.stamped # "silent" =>
                 JoinPart!SweepParams(f.doc) = f.doc.of.params
          BY <1>5, <2>2 DEF JoinPart!OfSweep, JoinPart!SweepParams
        <4>5. f.doc.own = "silent" /\ f.doc.stamped = "silent" =>
                 JoinPart!SweepParams(f.doc) = JoinPart!None
          BY DEF JoinPart!SweepParams
        <4> QED BY <1>1, <1>3, <3>2, <4>2, <4>4, <4>5
      <3> QED BY <3>1, <3>2
    <2> QED BY <1>2, <2>1, <2>2
  <1>7. r1 = "yes" /\ (r.says \/ r.of.acorn = r2) => f.doc.of.acorn = r.of.acorn
    <2>1. CASE r.of.grade # JoinPart!None
      <3>1. r1 = "no" \/ f.doc.acorn = IF r.says THEN r.of.acorn ELSE r2
        BY <2>1 DEF JoinPart!Speaks, JoinPart!AcornMatches
      <3> QED BY <1>2, <3>1
    <2>2. CASE r.of.grade = JoinPart!None
      <3>1. ~r.of.acorn /\ ~f.doc.of.acorn
        BY <1>1, <1>2, <1>6, <2>2 DEF JoinPart!Sane
      <3>2. r.of.acorn \in BOOLEAN /\ f.doc.of.acorn \in BOOLEAN
        BY <1>1, <1>2 DEF JoinPart!Searches
      <3> QED BY <3>1, <3>2
    <2> QED BY <2>1, <2>2
  <1>8. f.doc.dataset # "silent" => f.doc.of.dataset = r.of.dataset
    BY <1>2, <1>3
  <1> QED BY <1>3, <1>4, <1>6, <1>7, <1>8

(* What a stamp adds is the sweep's own; nothing else of the file moves.      *)
LEMMA StampKeeps ==
  ASSUME NEW s, NEW doc, DOMAIN doc = JoinPart!Fields
  PROVE  LET new == JoinPart!Stamped(s, doc)
         IN  /\ DOMAIN new = JoinPart!Fields
             /\ new.of = doc.of /\ new.acorn = doc.acorn /\ new.own = doc.own
             /\ new.collection = doc.collection /\ new.old = doc.old
             /\ new.dataset = s.dataset /\ new.stamped = s.params /\ new.grade = s.grade
PROOF
  BY DEF JoinPart!Stamped, JoinPart!Fields

LEMMA JoinStep == JoinPart!JoinInv /\ JoinPart!JoinNext => JoinPart!JoinInv'
PROOF
  <1> SUFFICES ASSUME JoinPart!JoinInv, JoinPart!JoinNext PROVE JoinPart!JoinInv'
    OBVIOUS
  <1> USE DEF JoinPart!JoinInv
  <1>1. CASE UNCHANGED <<r3, r4>> /\ r5' \subseteq r5
    BY <1>1 DEF JoinPart!RowsSane, JoinPart!FilesTell, JoinPart!StampsOwn
  <1>2. CASE JoinPart!Engine \/ JoinPart!Restamp \/ JoinPart!DieUnstamped
    BY <1>1, <1>2 DEF JoinPart!Engine, JoinPart!Restamp, JoinPart!DieUnstamped
  <1>3. CASE JoinPart!RunRow
    <2>1. JoinPart!RowsSane'
      BY <1>3 DEF JoinPart!RunRow, JoinPart!Recorded, JoinPart!RowsSane
    <2>2. UNCHANGED <<r4, r5>>
      BY <1>3 DEF JoinPart!RunRow
    <2> QED BY <2>1, <2>2 DEF JoinPart!FilesTell, JoinPart!StampsOwn
  <1>4. CASE JoinPart!BinaryWrites
    <2>1. PICK s \in JoinPart!Searches, records, clash, other \in BOOLEAN :
             /\ JoinPart!Sane(s)
             /\ LET doc == [of |-> s, old |-> FALSE, dataset |-> "silent",
                            collection |-> IF other THEN "else" ELSE s.coll,
                            own |-> IF records THEN s.params ELSE "silent",
                            stamped |-> "silent", grade |-> JoinPart!None, acorn |-> s.acorn,
                            clash |-> clash]
                IN  r4' = JoinPart!Put(JoinPart!PathOf(s), doc) /\ r5' = {s}
      BY <1>4 DEF JoinPart!BinaryWrites
    <2> DEFINE doc == [of |-> s, old |-> FALSE, dataset |-> "silent",
                       collection |-> IF other THEN "else" ELSE s.coll,
                       own |-> IF records THEN s.params ELSE "silent",
                       stamped |-> "silent", grade |-> JoinPart!None, acorn |-> s.acorn,
                       clash |-> clash]
               file == [name |-> JoinPart!PathOf(s), doc |-> doc]
    <2>2. JoinPart!FileTells(file)
      BY <2>1 DEF JoinPart!FileTells, JoinPart!OfSweep, JoinPart!Fields
    <2> HIDE DEF doc
    <2>3. r4' = {f \in r4 : f.name # JoinPart!PathOf(s)} \cup {file} /\ r5' = {s}
      BY <2>1 DEF JoinPart!Put, doc
    <2>4. doc.of = s
      BY DEF doc
    <2>5. JoinPart!FilesTell'
      BY <2>2, <2>3 DEF JoinPart!FilesTell
    <2>6. JoinPart!StampsOwn'
      BY <2>3, <2>4 DEF JoinPart!StampsOwn
    <2>7. JoinPart!RowsSane'
      BY <1>4 DEF JoinPart!BinaryWrites, JoinPart!RowsSane
    <2> QED BY <2>5, <2>6, <2>7
  <1>5. CASE JoinPart!Stamp
    <2>1. PICK s \in r5, f \in r4 :
             /\ f.name = JoinPart!PathOf(s)
             /\ r4' = IF JoinPart!Contradicts(s, f.doc) THEN r4 \ {f}
                      ELSE JoinPart!Put(f.name, JoinPart!Stamped(s, f.doc))
      BY <1>5 DEF JoinPart!Stamp
    <2>2. r5' = {} /\ r3' = r3
      BY <1>5 DEF JoinPart!Stamp
    <2>3. f.doc.of = s /\ JoinPart!FileTells(f)
      BY <2>1 DEF JoinPart!StampsOwn, JoinPart!FilesTell
    <2> DEFINE doc == JoinPart!Stamped(s, f.doc)
               file == [name |-> f.name, doc |-> doc]
    <2>4. /\ DOMAIN doc = JoinPart!Fields
          /\ doc.of = f.doc.of /\ doc.acorn = f.doc.acorn /\ doc.own = f.doc.own
          /\ doc.collection = f.doc.collection /\ doc.old = f.doc.old
          /\ doc.dataset = s.dataset /\ doc.stamped = s.params /\ doc.grade = s.grade
      BY <2>3, StampKeeps DEF JoinPart!FileTells
    <2> HIDE DEF doc
    <2>5. JoinPart!OfSweep(file) \/ JoinPart!OfOldHarness(file)
      BY <2>3, <2>4 DEF JoinPart!FileTells, JoinPart!OfSweep, JoinPart!OfOldHarness
    <2>6. JoinPart!FileTells(file)
      BY <2>3, <2>4, <2>5 DEF JoinPart!FileTells
    <2>7. \A g \in r4' : g \in r4 \/ g = file
      BY <2>1 DEF JoinPart!Put, doc
    <2>8. JoinPart!FilesTell'
      BY <2>6, <2>7 DEF JoinPart!FilesTell
    <2> QED BY <2>2, <2>8 DEF JoinPart!StampsOwn, JoinPart!RowsSane
  <1>6. CASE JoinPart!Legacy
    <2>a. PICK s \in JoinPart!Searches, says \in BOOLEAN, clash \in BOOLEAN :
             /\ JoinPart!Sane(s)
             /\ \E name : r4' = JoinPart!Put(name,
                   [of |-> s, old |-> TRUE, dataset |-> IF says THEN s.dataset ELSE "silent",
                    collection |-> s.coll, own |-> "silent",
                    stamped |-> s.params, grade |-> s.grade, acorn |-> s.acorn,
                    clash |-> clash])
      BY <1>6 DEF JoinPart!Legacy
    <2> DEFINE doc == [of |-> s, old |-> TRUE,
                       dataset |-> IF says THEN s.dataset ELSE "silent",
                       collection |-> s.coll, own |-> "silent",
                       stamped |-> s.params, grade |-> s.grade, acorn |-> s.acorn,
                       clash |-> clash]
    <2>1. PICK name : r4' = JoinPart!Put(name, doc)
      BY <2>a
    <2>2. r5 = {} /\ r5' = {} /\ r3' = r3
      BY <1>6 DEF JoinPart!Legacy
    <2> DEFINE file == [name |-> name, doc |-> doc]
    <2>3. JoinPart!FileTells(file)
      BY <2>a DEF JoinPart!FileTells, JoinPart!OfOldHarness, JoinPart!Fields
    <2> HIDE DEF doc
    <2>4. \A g \in r4' : g \in r4 \/ g = file
      BY <2>1 DEF JoinPart!Put, doc
    <2>5. JoinPart!FilesTell'
      BY <2>3, <2>4 DEF JoinPart!FilesTell
    <2> QED BY <2>2, <2>5 DEF JoinPart!StampsOwn, JoinPart!RowsSane
  <1> QED BY <1>2, <1>3, <1>4, <1>5, <1>6 DEF JoinPart!JoinNext

LEMMA JoinSafe == PartsSpec => []JoinHeld
PROOF
  <1>1. JoinHeld /\ [PartsNext]_pvars => JoinHeld'
    <2> SUFFICES ASSUME JoinHeld, [PartsNext]_pvars, part' = "join" PROVE JoinPart!JoinInv'
      BY DEF JoinHeld
    <2>1. part = "join"
      BY PartStays
    <2>2. JoinPart!JoinInv
      BY <2>1 DEF JoinHeld
    <2>3. JoinPart!JoinNext \/ UNCHANGED <<r3, r4, r5>>
      BY <2>1 DEF PartsNext, pvars, After0, After1, After4
    <2>4. CASE UNCHANGED <<r3, r4, r5>>
      BY <2>2, <2>4 DEF JoinPart!JoinInv, JoinPart!RowsSane, JoinPart!FilesTell,
                        JoinPart!StampsOwn
    <2> QED BY <2>2, <2>3, <2>4, JoinStep
  <1> QED BY <1>1, JoinInit, PTL DEF PartsSpec, pvars

(* No sweep, stamped or not, of this harness or an older one, is joined to a  *)
(* row that searched something else.                                          *)
THEOREM RecallIsTheRowsCorrect == PartsSpec => []RecallIsTheRows
PROOF
  <1>1. JoinHeld => RecallIsTheRows
    BY JoinSpeaks DEF JoinHeld, RecallIsTheRows
  <1> QED BY <1>1, JoinSafe, PTL

-----------------------------------------------------------------------------
(* Provenance: r1 commits, r2 head, r3 edited, r4 undone, r5 file, r6 pin,    *)
(* r7 server, r8 bannerOf, r9 record, r10 clock.                              *)

RecordHeld == part = "record" => RecordPart!RecordInv

LEMMA RecordInit == PartsInit => RecordHeld
PROOF
  <1> SUFFICES ASSUME PartsInit, part = "record" PROVE RecordPart!RecordInv
    BY DEF RecordHeld
  <1>1. RecordPart!ProvenanceInit
    BY DEF PartsInit
  <1> QED BY <1>1 DEF RecordPart!ProvenanceInit, RecordPart!RecordInv, RecordPart!Nobody,
                      RecordPart!CommitsDated, RecordPart!BuildsDated,
                      RecordPart!RecordIsTheServer

(* What is recorded of a server at that moment is of it.                      *)
LEMMA RecordTells ==
  ASSUME RecordPart!CommitsDated, RecordPart!BuildsDated, NEW s \in r7
  PROVE  LET r == RecordPart!BuildRecord(s)
             image == r.of.image
         IN  /\ r.sha = image
             /\ r.ownLog => r.flags = image
             /\ r.source # "checkout" => r.commit = image.commit
             /\ r.predates = "yes" => r.commit # image.commit
             /\ r.predates = "no" /\ ~r.dirty /\ ~r.undone =>
                   r.commit = image.commit /\ ~image.edited
PROOF
  <1> DEFINE r == RecordPart!BuildRecord(s)
  <1>1. /\ r.of = s /\ r.sha = s.image /\ r.source = RecordPart!Source(s)
        /\ r.flags = RecordPart!FlagsOf(s)
        /\ r.commit = IF RecordPart!Source(s) = "checkout" THEN r2 ELSE s.image.commit
        /\ r.predates = IF s.from = "checkout" THEN RecordPart!Predates(s) ELSE "unknown"
    BY DEF RecordPart!BuildRecord, RecordPart!BinarySha
  <1>2. /\ r.dirty = (RecordPart!Source(s) = "checkout" /\ r3) /\ r.undone = r4
        /\ r.ownLog = (r8 \in {RecordPart!Nobody, {s.image}})
    BY DEF RecordPart!BuildRecord
  <1> HIDE DEF r
  <1>3. r.ownLog => r.flags = s.image
    BY <1>1, <1>2 DEF RecordPart!FlagsOf, RecordPart!Nobody
  <1>4. r.predates # "unknown" => s.from = "checkout" /\ RecordPart!Source(s) = "checkout"
    BY <1>1 DEF RecordPart!Source
  <1>5. r.predates = "yes" => s.image \in r5 /\ s.image.built < r1[r2]
    BY <1>1 DEF RecordPart!Predates
  <1>6. r.predates = "no" => s.image \in r5 /\ ~(s.image.built < r1[r2])
    BY <1>1 DEF RecordPart!Predates
  <1>7. s.image \in r5 => /\ s.image.built \in Nat /\ r1[s.image.commit] \in Nat
                          /\ r1[s.image.commit] <= s.image.built
                          /\ \/ r4 \/ r1[r2] > s.image.built
                             \/ s.image.commit = r2 /\ (s.image.edited => r3)
    BY DEF RecordPart!CommitsDated, RecordPart!BuildsDated
  <1>8. r1[r2] \in Nat
    BY DEF RecordPart!CommitsDated
  <1>9. r.predates = "yes" => r.commit # s.image.commit
    BY <1>1, <1>4, <1>5, <1>7, <1>8
  <1>10. r.predates = "no" /\ ~r.dirty /\ ~r.undone =>
            r.commit = s.image.commit /\ ~s.image.edited
    BY <1>1, <1>2, <1>4, <1>6, <1>7, <1>8
  <1> QED BY <1>1, <1>3, <1>9, <1>10 DEF r

LEMMA RecordStep == RecordPart!RecordInv /\ RecordPart!ProvenanceNext => RecordPart!RecordInv'
PROOF
  <1> SUFFICES ASSUME RecordPart!RecordInv, RecordPart!ProvenanceNext
               PROVE  RecordPart!RecordInv'
    OBVIOUS
  <1>1. /\ r10 \in Nat /\ r1 \in Seq(0..r10) /\ r2 \in DOMAIN r1
        /\ RecordPart!BuildsDated /\ RecordPart!RecordIsTheServer
    BY DEF RecordPart!RecordInv, RecordPart!CommitsDated
  <1>2. CASE RecordPart!Edit
    <2>1. UNCHANGED <<r1, r2, r5, r9, r10>> /\ r3' = ~r3 /\ r4' = (r4 \/ r3)
      BY <1>2 DEF RecordPart!Edit
    <2>2. RecordPart!BuildsDated'
      BY <1>1, <2>1 DEF RecordPart!BuildsDated
    <2> QED BY <1>1, <2>1, <2>2 DEF RecordPart!RecordInv, RecordPart!CommitsDated,
                                    RecordPart!RecordIsTheServer
  <1>3. CASE RecordPart!CommitEdit
    <2>1. /\ r1' = Append(r1, r10') /\ r2' = Len(r1) + 1 /\ r10' = r10 + 1
          /\ UNCHANGED <<r4, r5, r9>>
      BY <1>3 DEF RecordPart!CommitEdit, RecordPart!Tick
    <2>2. r1' \in Seq(0..r10') /\ r2' \in DOMAIN r1' /\ r1'[r2'] = r10' /\ r10' \in Nat
      BY <1>1, <2>1
    <2>3. \A c \in DOMAIN r1 : c \in DOMAIN r1' /\ r1'[c] = r1[c]
      BY <1>1, <2>1
    <2>4. ASSUME NEW i \in r5
          PROVE  /\ i.built \in 0..r10' /\ i.commit \in DOMAIN r1'
                 /\ r1'[i.commit] <= i.built /\ r1'[r2'] > i.built
      BY <1>1, <2>1, <2>2, <2>3 DEF RecordPart!BuildsDated
    <2>5. RecordPart!BuildsDated'
      BY <2>1, <2>4 DEF RecordPart!BuildsDated
    <2> QED BY <1>1, <2>1, <2>2, <2>5 DEF RecordPart!RecordInv, RecordPart!CommitsDated,
                                          RecordPart!RecordIsTheServer
  <1>4. CASE RecordPart!Checkout
    <2>1. /\ ~r3 /\ r2' \in DOMAIN r1
          /\ r4' = (r4 \/ \E i \in r5 : r1[r2'] <= i.built)
          /\ UNCHANGED <<r1, r3, r5, r9, r10>>
      BY <1>4 DEF RecordPart!Checkout
    <2>2. RecordPart!BuildsDated'
      <3> SUFFICES ASSUME NEW i \in r5
                   PROVE  r4' \/ r1[r2'] > i.built
        BY <1>1, <2>1 DEF RecordPart!BuildsDated
      <3>1. i.built \in Nat /\ r1[r2'] \in Nat
        BY <1>1, <2>1 DEF RecordPart!BuildsDated
      <3>2. r1[r2'] <= i.built => r4'
        BY <2>1, Zenon
      <3> QED BY <3>1, <3>2
    <2> QED BY <1>1, <2>1, <2>2 DEF RecordPart!RecordInv, RecordPart!CommitsDated,
                                    RecordPart!RecordIsTheServer
  <1>5. CASE RecordPart!BuildFile
    <2>1. /\ r5' = {[commit |-> r2, edited |-> r3, built |-> r10']} /\ r10' = r10 + 1
          /\ UNCHANGED <<r1, r2, r3, r9>>
      BY <1>5 DEF RecordPart!BuildFile, RecordPart!Tick
    <2>2. r1 \in Seq(0..r10') /\ r10' \in Nat /\ r1[r2] \in 0..r10
      BY <1>1, <2>1
    <2>3. ASSUME NEW i \in r5'
          PROVE  /\ i.built = r10' /\ i.commit = r2 /\ i.edited = r3
      BY <2>1
    <2>4. RecordPart!BuildsDated'
      BY <1>1, <2>1, <2>2, <2>3 DEF RecordPart!BuildsDated
    <2> QED BY <1>1, <2>1, <2>2, <2>4 DEF RecordPart!RecordInv, RecordPart!CommitsDated,
                                          RecordPart!RecordIsTheServer
  <1>6. CASE RecordPart!CopyPin \/ RecordPart!Start \/ RecordPart!Stop
    <2>1. UNCHANGED <<r1, r2, r3, r4, r5, r9, r10>>
      BY <1>6 DEF RecordPart!CopyPin, RecordPart!Start, RecordPart!Stop
    <2> QED BY <1>1, <2>1 DEF RecordPart!RecordInv, RecordPart!CommitsDated,
                              RecordPart!BuildsDated, RecordPart!RecordIsTheServer
  <1>7. CASE RecordPart!Collect
    <2>1. /\ r9' = {RecordPart!BuildRecord(s) : s \in r7}
          /\ UNCHANGED <<r1, r2, r3, r4, r5, r10>>
      BY <1>7 DEF RecordPart!Collect
    <2>2. RecordPart!RecordIsTheServer'
      BY <1>1, <2>1, RecordTells DEF RecordPart!RecordIsTheServer, RecordPart!CommitsDated
    <2> QED BY <1>1, <2>1, <2>2 DEF RecordPart!RecordInv, RecordPart!CommitsDated,
                                    RecordPart!BuildsDated
  <1> QED BY <1>2, <1>3, <1>4, <1>5, <1>6, <1>7 DEF RecordPart!ProvenanceNext

LEMMA RecordSafe == PartsSpec => []RecordHeld
PROOF
  <1>1. RecordHeld /\ [PartsNext]_pvars => RecordHeld'
    <2> SUFFICES ASSUME RecordHeld, [PartsNext]_pvars, part' = "record"
                 PROVE  RecordPart!RecordInv'
      BY DEF RecordHeld
    <2>1. part = "record"
      BY PartStays
    <2>2. RecordPart!RecordInv
      BY <2>1 DEF RecordHeld
    <2>3. RecordPart!ProvenanceNext \/ UNCHANGED <<r1, r2, r3, r4, r5, r9, r10>>
      BY <2>1 DEF PartsNext, pvars, After0, After1, After4, After5, After6, After8, After9
    <2>4. CASE UNCHANGED <<r1, r2, r3, r4, r5, r9, r10>>
      BY <2>2, <2>4 DEF RecordPart!RecordInv, RecordPart!CommitsDated,
                        RecordPart!BuildsDated, RecordPart!RecordIsTheServer
    <2> QED BY <2>2, <2>3, <2>4, RecordStep
  <1> QED BY <1>1, RecordInit, PTL DEF PartsSpec, pvars

(* run.json names the image that served and, where nothing was undone since   *)
(* its build, the commit and the edits it was built of.                       *)
THEOREM RunJsonIsTheServerCorrect == PartsSpec => []RunJsonIsTheServer
PROOF
  <1>1. RecordHeld => RunJsonIsTheServer
    BY DEF RecordHeld, RecordPart!RecordInv, RunJsonIsTheServer
  <1> QED BY <1>1, RecordSafe, PTL

-----------------------------------------------------------------------------
(* Retention: r1 day, r2 present, r3 touched, r4 noted, r5 cited, r6 running, *)
(* r8 torn.  What is pruned is decided by what is there, whatever came before. *)

RetentionHeld == part = "retention" => RetentionPart!PruneKeeps

(* One retained directory of a measurement keeps all of it, and whatever is   *)
(* worth keeping is retained.                                                 *)
LEMMA PrunedWhole ==
  ASSUME NEW d \in RetentionPart!Prunable(r6), NEW e \in r2, d.stem = e.stem
  PROVE  e \in RetentionPart!Prunable(r6) /\ ~RetentionPart!Worth(e)
PROOF
  <1>1. \A x \in r2 : x.stem = d.stem => ~RetentionPart!Retained(x, r6)
    BY DEF RetentionPart!Prunable, RetentionPart!LabelStem
  <1>2. e \in RetentionPart!Prunable(r6)
    BY <1>1 DEF RetentionPart!Prunable, RetentionPart!LabelStem
  <1>3. ~RetentionPart!Retained(e, r6)
    BY <1>1
  <1>4. RetentionPart!Worth(e) => RetentionPart!Retained(e, r6)
    BY DEF RetentionPart!Worth, RetentionPart!Retained, RetentionPart!CitedLabels,
           RetentionPart!OtherArm
  <1> QED BY <1>2, <1>3, <1>4

LEMMA RetentionSafe == PartsSpec => []RetentionHeld
PROOF
  <1>1. PartsInit => RetentionHeld
    BY DEF PartsInit, RetentionHeld, RetentionPart!RetentionInit, RetentionPart!PruneKeeps
  <1>2. RetentionHeld /\ [PartsNext]_pvars => RetentionHeld'
    <2> SUFFICES ASSUME RetentionHeld, [PartsNext]_pvars, part' = "retention" PROVE ~r8'
      BY DEF RetentionHeld, RetentionPart!PruneKeeps
    <2>1. part = "retention" /\ ~r8
      BY PartStays DEF RetentionHeld, RetentionPart!PruneKeeps
    <2>2. RetentionPart!RetentionNext \/ UNCHANGED r8
      BY <2>1 DEF PartsNext, pvars, After0, After1, After4, After5, After6
    <2>3. CASE RetentionPart!EndRun
      <3>1. r8' = (r8 \/ \E d \in RetentionPart!Prunable(r6), e \in r2 :
                      d.stem = e.stem
                      /\ (e \notin RetentionPart!Prunable(r6) \/ RetentionPart!Worth(e)))
        BY <2>3 DEF RetentionPart!EndRun
      <3> QED BY <2>1, <3>1, PrunedWhole
    <2>4. CASE UNCHANGED r8
      BY <2>1, <2>4
    <2> QED BY <2>2, <2>3, <2>4 DEF RetentionPart!RetentionNext, RetentionPart!NextDay,
          RetentionPart!StartRun, RetentionPart!WriteLabel, RetentionPart!Note,
          RetentionPart!Cite, RetentionPart!Die
  <1> QED BY <1>1, <1>2, PTL DEF PartsSpec, pvars

-----------------------------------------------------------------------------
(* Night: r1 run, r2 at, r3 launches, r4 log, r5 pages, r6 fromRows, r7 kept, *)
(* r9 code.                                                                   *)

NightHeld == part = "night" => NightPart!NightInv

LEMMA NightInit == PartsInit => NightHeld
PROOF
  <1> SUFFICES ASSUME PartsInit, part = "night" PROVE NightPart!NightInv
    BY DEF NightHeld
  <1>1. NightPart!NightInit
    BY DEF PartsInit
  <1> QED BY <1>1 DEF NightPart!NightInit, NightPart!NightInv, NightPart!LogHeld,
                      NightPart!CodesHeld, NightPart!PageHeld, NightPart!NightIsOneRun,
                      NightPart!NoRun

(* More lines of the log's one launch.                                        *)
LEMMA SaysMore ==
  ASSUME NEW m \in Nat, NEW log \in Seq(1..m), NEW who \in 1..m, NEW n \in Nat \ {0},
         \A i, j \in DOMAIN log : log[i] = log[j], log # <<>> => log[1] = who
  PROVE  LET more == log \o [i \in 1..n |-> who]
         IN  /\ more \in Seq(1..m) /\ more # <<>> /\ more[1] = who
             /\ \A i, j \in DOMAIN more : more[i] = more[j]
PROOF
  <1> DEFINE lines == [i \in 1..n |-> who]
             more == log \o lines
  <1>1. lines \in Seq(1..m) /\ Len(lines) = n
    OBVIOUS
  <1>2. /\ more \in Seq(1..m) /\ Len(more) = Len(log) + n /\ DOMAIN more = 1..Len(more)
        /\ \A i \in 1..Len(more) : more[i] = IF i <= Len(log) THEN log[i]
                                             ELSE lines[i - Len(log)]
    BY <1>1
  <1>3. ASSUME NEW i \in 1..Len(log) PROVE log[i] = who
    <2>1. log # <<>> /\ 1 \in DOMAIN log /\ i \in DOMAIN log
      OBVIOUS
    <2> QED BY <2>1
  <1>4. ASSUME NEW i \in 1..Len(more) PROVE more[i] = who
    BY <1>1, <1>2, <1>3
  <1> HIDE DEF more
  <1>5. 1 \in 1..Len(more)
    BY <1>2
  <1>6. /\ more \in Seq(1..m) /\ more # <<>> /\ more[1] = who
        /\ \A i, j \in DOMAIN more : more[i] = more[j]
    BY <1>2, <1>4, <1>5
  <1> QED BY <1>6 DEF more

LEMMA NightStep == NightPart!NightInv /\ NightPart!NightNext => NightPart!NightInv'
PROOF
  <1> SUFFICES ASSUME NightPart!NightInv, NightPart!NightNext PROVE NightPart!NightInv'
    OBVIOUS
  <1>0. /\ r3 \in Nat /\ r4 \in Seq(1..r3) /\ r9 \in Seq(NightPart!Codes) /\ Len(r9) = r3
        /\ \A i, j \in DOMAIN r4 : r4[i] = r4[j]
        /\ r2 # "idle" => r4 # <<>> /\ r1 = r4[1]
        /\ r4 = <<>> \/ r2 \in {"measure", "report"} => r7 = 0
        /\ r2 = "measure" => r9[r1] # "ok"
        /\ r2 = "report" /\ r9[r1] = "ok" => r5 = r1
        /\ r4 # <<>> /\ r9[r4[1]] = "ok" => r7 \in {0, r4[1]}
    BY DEF NightPart!NightInv, NightPart!LogHeld, NightPart!CodesHeld, NightPart!PageHeld,
           NightPart!NightIsOneRun, NightPart!NoRun
  <1>1. r4 # <<>> => r4[1] \in 1..r3 /\ r4[1] \in DOMAIN r9
    BY <1>0
  <1> SUFFICES /\ r3' \in Nat /\ r4' \in Seq(1..r3') /\ r9' \in Seq(NightPart!Codes) /\ Len(r9') = r3'
               /\ \A i, j \in DOMAIN r4' : r4'[i] = r4'[j]
               /\ r2' # "idle" => r4' # <<>> /\ r1' = r4'[1]
               /\ r4' = <<>> \/ r2' \in {"measure", "report"} => r7' = 0
               /\ r2' = "measure" => r9'[r1'] # "ok"
               /\ r2' = "report" /\ r9'[r1'] = "ok" => r5' = r1'
               /\ r4' # <<>> /\ r9'[r4'[1]] = "ok" => r7' \in {0, r4'[1]}
    BY DEF NightPart!NightInv, NightPart!LogHeld, NightPart!CodesHeld, NightPart!PageHeld,
           NightPart!NightIsOneRun, NightPart!NoRun
  <1>2. CASE NightPart!Launch
    <2>1. r2 = "idle" /\ r3' = r3 + 1 /\ UNCHANGED <<r5, r7>>
      BY <1>2 DEF NightPart!Launch
    <2>2. CASE r4 # <<>>
      <3>1. r9' = Append(r9, "log_exists") /\ UNCHANGED <<r1, r2, r4>>
        BY <1>2, <2>2 DEF NightPart!Launch
      <3>2. r9' \in Seq(NightPart!Codes) /\ Len(r9') = r3' /\ r9'[r4[1]] = r9[r4[1]]
        <4>1. "log_exists" \in NightPart!Codes
          BY DEF NightPart!Codes
        <4>2. /\ Append(r9, "log_exists") \in Seq(NightPart!Codes)
              /\ Len(Append(r9, "log_exists")) = Len(r9) + 1
              /\ \A i \in 1..Len(r9) : Append(r9, "log_exists")[i] = r9[i]
          BY <1>0, <4>1, AppendProperties
        <4>3. r4[1] \in 1..Len(r9)
          BY <1>0, <1>1, <2>2
        <4> QED BY <1>0, <2>1, <3>1, <4>2, <4>3
      <3>3. r4 \in Seq(1..r3')
        BY <1>0, <2>1
      <3> QED BY <1>0, <2>1, <2>2, <3>1, <3>2, <3>3
    <2>3. CASE r4 = <<>>
      <3>1. /\ r4' = r4 \o [i \in 1..1 |-> r3']
            /\ \/ r2' = "measure" /\ r1' = r3' /\ r9' = Append(r9, "running")
               \/ r2' = "idle" /\ r9' = Append(r9, "no_qdrant")
        BY <1>2, <2>3 DEF NightPart!Launch, NightPart!Say
      <3>2. r3' \in 1..r3' /\ r3' \in Nat /\ <<>> \in Seq(1..r3')
        BY <1>0, <2>1
      <3>3. /\ r4' \in Seq(1..r3') /\ r4' # <<>> /\ r4'[1] = r3'
            /\ \A i, j \in DOMAIN r4' : r4'[i] = r4'[j]
        BY <2>3, <3>1, <3>2, SaysMore
      <3>4. r9' \in Seq(NightPart!Codes) /\ Len(r9') = r3' /\ r9'[r3'] \in {"running", "no_qdrant"}
        <4>1. "running" \in NightPart!Codes /\ "no_qdrant" \in NightPart!Codes
          BY DEF NightPart!Codes
        <4>2. ASSUME NEW c \in NightPart!Codes
              PROVE  /\ Append(r9, c) \in Seq(NightPart!Codes)
                     /\ Len(Append(r9, c)) = Len(r9) + 1 /\ Append(r9, c)[Len(r9) + 1] = c
          BY <1>0, AppendProperties
        <4> QED BY <1>0, <2>1, <3>1, <4>1, <4>2
      <3> QED BY <1>0, <2>1, <2>3, <3>1, <3>2, <3>3, <3>4
    <2> QED BY <2>2, <2>3
  <1>3. CASE NightPart!Measured
    <2>1. /\ r2 = "measure" /\ r2' = "report" /\ r4' = r4 \o [i \in 1..2 |-> r1]
          /\ UNCHANGED <<r1, r3, r7>>
          /\ \/ r5' = r1 /\ r9' = [r9 EXCEPT ![r1] = "ok"]
             \/ r5' = r5 /\ r9' = [r9 EXCEPT ![r1] = "failed"]
      BY <1>3 DEF NightPart!Measured, NightPart!Say
    <2>2. r4 # <<>> /\ r1 = r4[1] /\ r1 \in 1..r3 /\ r7 = 0 /\ r1 \in DOMAIN r9
      BY <1>0, <1>1, <2>1
    <2>3. /\ r4' \in Seq(1..r3) /\ r4' # <<>> /\ r4'[1] = r1
          /\ \A i, j \in DOMAIN r4' : r4'[i] = r4'[j]
      <3> DEFINE more == r4 \o [i \in 1..2 |-> r1]
      <3>1. /\ r3 \in Nat /\ r4 \in Seq(1..r3) /\ r1 \in 1..r3 /\ 2 \in Nat \ {0}
            /\ \A i, j \in DOMAIN r4 : r4[i] = r4[j]
            /\ r4 # <<>> => r4[1] = r1
        BY <1>0, <2>2
      <3>2. /\ more \in Seq(1..r3) /\ more # <<>> /\ more[1] = r1
            /\ \A i, j \in DOMAIN more : more[i] = more[j]
        BY <3>1, SaysMore
      <3> HIDE DEF more
      <3>3. r4' = more
        BY <2>1 DEF more
      <3> QED BY <3>2, <3>3
    <2>4. r9' \in Seq(NightPart!Codes) /\ Len(r9') = r3
      <3>1. "ok" \in NightPart!Codes /\ "failed" \in NightPart!Codes /\ r1 \in 1..Len(r9)
        BY <1>0, <2>2 DEF NightPart!Codes
      <3>2. /\ [r9 EXCEPT ![r1] = "ok"] \in Seq(NightPart!Codes)
            /\ Len([r9 EXCEPT ![r1] = "ok"]) = Len(r9)
        BY <1>0, <3>1, ExceptSeq
      <3>3. /\ [r9 EXCEPT ![r1] = "failed"] \in Seq(NightPart!Codes)
            /\ Len([r9 EXCEPT ![r1] = "failed"]) = Len(r9)
        BY <1>0, <3>1, ExceptSeq
      <3> QED BY <1>0, <2>1, <3>2, <3>3
    <2>5. r9'[r1] = "ok" => r5' = r1
      BY <1>0, <2>1, <2>2
    <2> QED BY <1>0, <2>1, <2>2, <2>3, <2>4, <2>5
  <1>4. CASE NightPart!KeepReport
    <2>1. /\ r2 = "report" /\ r2' = "analyse" /\ r4' = r4 \o [i \in 1..2 |-> r1]
          /\ r5 # 0 => r5' = r5
          /\ r7' = IF r5' # 0 THEN r5' ELSE r7
          /\ UNCHANGED <<r1, r3, r9>>
      BY <1>4 DEF NightPart!KeepReport, NightPart!Say, NightPart!NoRun
    <2>2. r4 # <<>> /\ r1 = r4[1] /\ r1 \in 1..r3 /\ r7 = 0
      BY <1>0, <1>1, <2>1
    <2>3. /\ r4' \in Seq(1..r3) /\ r4' # <<>> /\ r4'[1] = r1
          /\ \A i, j \in DOMAIN r4' : r4'[i] = r4'[j]
      <3> DEFINE more == r4 \o [i \in 1..2 |-> r1]
      <3>1. /\ r3 \in Nat /\ r4 \in Seq(1..r3) /\ r1 \in 1..r3 /\ 2 \in Nat \ {0}
            /\ \A i, j \in DOMAIN r4 : r4[i] = r4[j]
            /\ r4 # <<>> => r4[1] = r1
        BY <1>0, <2>2
      <3>2. /\ more \in Seq(1..r3) /\ more # <<>> /\ more[1] = r1
            /\ \A i, j \in DOMAIN more : more[i] = more[j]
        BY <3>1, SaysMore
      <3> HIDE DEF more
      <3>3. r4' = more
        BY <2>1 DEF more
      <3> QED BY <3>2, <3>3
    <2>4. r9[r1] = "ok" => r7' = r1
      BY <1>0, <2>1, <2>2
    <2> QED BY <1>0, <2>1, <2>2, <2>3, <2>4
  <1>5. CASE NightPart!Analyse
    <2>1. /\ r2 = "analyse" /\ r2' = "idle" /\ r4' = r4 \o [i \in 1..1 |-> r1]
          /\ UNCHANGED <<r3, r5, r7, r9>>
      BY <1>5 DEF NightPart!Analyse, NightPart!Say
    <2>2. r4 # <<>> /\ r1 = r4[1] /\ r1 \in 1..r3
      BY <1>0, <1>1, <2>1
    <2>3. /\ r4' \in Seq(1..r3) /\ r4' # <<>> /\ r4'[1] = r1
          /\ \A i, j \in DOMAIN r4' : r4'[i] = r4'[j]
      <3> DEFINE more == r4 \o [i \in 1..1 |-> r1]
      <3>1. /\ r3 \in Nat /\ r4 \in Seq(1..r3) /\ r1 \in 1..r3 /\ 1 \in Nat \ {0}
            /\ \A i, j \in DOMAIN r4 : r4[i] = r4[j]
            /\ r4 # <<>> => r4[1] = r1
        BY <1>0, <2>2
      <3>2. /\ more \in Seq(1..r3) /\ more # <<>> /\ more[1] = r1
            /\ \A i, j \in DOMAIN more : more[i] = more[j]
        BY <3>1, SaysMore
      <3> HIDE DEF more
      <3>3. r4' = more
        BY <2>1 DEF more
      <3> QED BY <3>2, <3>3
    <2> QED BY <1>0, <2>1, <2>2, <2>3
  <1>6. CASE NightPart!Killed
    <2>1. r2' = "idle" /\ UNCHANGED <<r3, r4, r5, r7, r9>>
      BY <1>6 DEF NightPart!Killed
    <2> QED BY <1>0, <2>1
  <1>7. CASE NightPart!MoveAside
    <2>1. r2 = "idle" /\ r4' = <<>> /\ r7' = 0 /\ UNCHANGED <<r2, r3, r9>>
      BY <1>7 DEF NightPart!MoveAside, NightPart!NoRun
    <2>2. r4' \in Seq(1..r3) /\ DOMAIN r4' = {}
      BY <2>1
    <2> QED BY <1>0, <2>1, <2>2
  <1>8. CASE NightPart!Rerender
    <2>1. r2 \in {"idle", "analyse"} /\ UNCHANGED <<r1, r2, r3, r4, r7, r9>>
      BY <1>8 DEF NightPart!Rerender
    <2> QED BY <1>0, <2>1
  <1>9. CASE NightPart!Step
    <2>1. UNCHANGED <<r1, r2, r3, r4, r5, r7, r9>>
      BY <1>9 DEF NightPart!Step
    <2> QED BY <1>0, <2>1
  <1> QED BY <1>2, <1>3, <1>4, <1>5, <1>6, <1>7, <1>8, <1>9 DEF NightPart!NightNext

LEMMA NightSafe == PartsSpec => []NightHeld
PROOF
  <1>1. NightHeld /\ [PartsNext]_pvars => NightHeld'
    <2> SUFFICES ASSUME NightHeld, [PartsNext]_pvars, part' = "night"
                 PROVE  NightPart!NightInv'
      BY DEF NightHeld
    <2>1. part = "night"
      BY PartStays
    <2>2. NightPart!NightInv
      BY <2>1 DEF NightHeld
    <2>3. NightPart!NightNext \/ UNCHANGED <<r1, r2, r3, r4, r5, r7, r9>>
      BY <2>1 DEF PartsNext, pvars, After0, After1, After4, After5, After6, After8, After9
    <2>4. CASE UNCHANGED <<r1, r2, r3, r4, r5, r7, r9>>
      BY <2>2, <2>4 DEF NightPart!NightInv, NightPart!LogHeld, NightPart!CodesHeld,
                        NightPart!PageHeld, NightPart!NightIsOneRun
    <2> QED BY <2>2, <2>3, <2>4, NightStep
  <1> QED BY <1>1, NightInit, PTL DEF PartsSpec, pvars

(* What is pruned was worth nothing and goes whole; and a night's directory   *)
(* is of one launch, its report of that launch's own rows.                    *)
THEOREM ResultsAreKeptCorrect == PartsSpec => []ResultsAreKept
PROOF
  <1>1. RetentionHeld /\ NightHeld => ResultsAreKept
    BY DEF RetentionHeld, NightHeld, NightPart!NightInv, ResultsAreKept
  <1> QED BY <1>1, RetentionSafe, NightSafe, PTL

-----------------------------------------------------------------------------
(* Sink: r1 tree, r2 datasetNow, r3 runJson, r4 rowsJson, r6 confJson,        *)
(* r7 conformance, r8 perf, r9 clock.                                         *)

SinkHeld == part = "sink" => SinkPart!SinkInv

Datasets == {"sift", "dbp"}
RunsTo(n) == [build : SinkPart!Builds, dataset : Datasets, when : 0..n]
RowsTo(n) == [w : SinkPart!Workload, build : SinkPart!Builds, dataset : Datasets, when : 0..n]

(* Of times no later than n, one is the latest.                               *)
LEMMA LatestExists ==
  ASSUME NEW n \in Nat, NEW ts, ts \subseteq 0..n, ts # {}
  PROVE  \E t \in ts : \A u \in ts : u <= t
PROOF
  <1> DEFINE ages == {n - t : t \in ts}
  <1>1. ages \subseteq Nat /\ ages # {}
    <2>1. \A t \in ts : n - t \in Nat
      OBVIOUS
    <2>2. PICK t \in ts : TRUE
      OBVIOUS
    <2>3. n - t \in ages
      OBVIOUS
    <2> QED BY <2>1, <2>3
  <1>2. \E a \in ages : \A b \in ages : ~(<<b, a>> \in OpToRel(<, Nat))
    <2> DEFINE less == OpToRel(<, Nat)
    <2>1. IsWellFoundedOn(less, Nat)
      BY NatLessThanWellFounded
    <2> HIDE DEF less, ages
    <2>2. \E a \in ages : \A b \in ages : ~(<<b, a>> \in less)
      BY <1>1, <2>1, WFMin
    <2> QED BY <2>2 DEF less
  <1>3. PICK a \in ages : \A b \in ages : ~(b < a)
    BY <1>1, <1>2 DEF OpToRel
  <1>4. PICK t \in ts : a = n - t
    OBVIOUS
  <1>5. ASSUME NEW u \in ts PROVE u <= t
    <2>1. n - u \in ages
      OBVIOUS
    <2>2. ~(n - u < n - t)
      BY <1>3, <1>4, <2>1
    <2> QED BY <2>2
  <1> QED BY <1>5

LEMMA SinkInit == PartsInit => SinkHeld
PROOF
  <1> SUFFICES ASSUME PartsInit, part = "sink" PROVE SinkPart!SinkInv
    BY DEF SinkHeld
  <1>1. SinkPart!SinkInit
    BY DEF PartsInit
  <1>2. SinkPart!First \in SinkPart!Builds
    BY DEF SinkPart!First, SinkPart!Builds
  <1> QED BY <1>1, <1>2, HarnessAssumption
          DEF SinkPart!SinkInit, SinkPart!SinkInv, SinkPart!FilesHeld, SinkPart!RowsDated,
              SinkPart!ConfHeld, SinkPart!LicenceHeld, SinkPart!NoFile, SinkPart!Label

(* The clock only widens the types.                                           *)
LEMMA Later ==
  ASSUME NEW n \in Nat PROVE RunsTo(n) \subseteq RunsTo(n + 1) /\ RowsTo(n) \subseteq RowsTo(n + 1)
PROOF
  <1>1. 0..n \subseteq 0..(n + 1)
    OBVIOUS
  <1> QED BY <1>1 DEF RunsTo, RowsTo

(* What a measurement writes is of its moment, and so newer than every row    *)
(* the file keeps.                                                            *)
LEMMA MeasureDated ==
  ASSUME SinkPart!FilesHeld, SinkPart!RowsDated, NEW l \in SinkPart!Label, SinkPart!Measure(l)
  PROVE  SinkPart!FilesHeld' /\ SinkPart!RowsDated'
PROOF
  <1> DEFINE run == [build |-> r1, dataset |-> r2, when |-> r9']
             Row(w) == [w |-> w, build |-> r1, dataset |-> r2, when |-> r9']
  <1>1. /\ r1 \in SinkPart!Builds /\ r2 \in Datasets /\ r9 \in Nat
        /\ r3 \in [SinkPart!Label -> SUBSET RunsTo(r9)]
        /\ r4 \in [SinkPart!Label -> SUBSET RowsTo(r9)]
    BY HarnessAssumption DEF SinkPart!FilesHeld, RunsTo, RowsTo, Datasets
  <1>2. r9' = r9 + 1 /\ r9' \in 0..MaxSinkTimes /\ UNCHANGED <<r1, r2>>
    BY <1>1, HarnessAssumption DEF SinkPart!Measure, SinkPart!Tick
  <1>3. r3' = [r3 EXCEPT ![l] = {run}]
    BY DEF SinkPart!Measure
  <1>4. PICK done \in {{}, {"W2", "W4"}, {"W11"}, SinkPart!Workload} :
             r4' = [r4 EXCEPT ![l] = {r \in @ : r.w \notin done} \cup {Row(w) : w \in done}]
    BY DEF SinkPart!Measure, SinkPart!Row
  <1>5. done \subseteq SinkPart!Workload
    BY DEF SinkPart!Workload
  <1>6. run \in RunsTo(r9') /\ \A w \in done : Row(w) \in RowsTo(r9')
    BY <1>1, <1>2, <1>5 DEF RunsTo, RowsTo
  <1>7. /\ DOMAIN r3' = SinkPart!Label /\ DOMAIN r4' = SinkPart!Label
        /\ \A k \in SinkPart!Label :
              /\ r3'[k] = IF k = l THEN {run} ELSE r3[k]
              /\ r4'[k] = IF k = l THEN {r \in r4[l] : r.w \notin done} \cup {Row(w) : w \in done}
                                   ELSE r4[k]
    BY <1>1, <1>3, <1>4
  <1>8. r3' \in [SinkPart!Label -> SUBSET RunsTo(r9')]
    <2>1. r3' = [k \in SinkPart!Label |-> r3'[k]]
      BY <1>1, <1>3
    <2>2. \A k \in SinkPart!Label : r3'[k] \subseteq RunsTo(r9')
      BY <1>1, <1>2, <1>6, <1>7, Later
    <2> QED BY <2>1, <2>2
  <1>9. r4' \in [SinkPart!Label -> SUBSET RowsTo(r9')]
    <2>1. r4' = [k \in SinkPart!Label |-> r4'[k]]
      BY <1>1, <1>4
    <2>2. ASSUME NEW k \in SinkPart!Label, NEW r \in r4'[k] PROVE r \in RowsTo(r9')
      <3>1. r \in r4[k] \/ \E w \in done : r = Row(w)
        BY <1>7, <2>2
      <3>2. CASE r \in r4[k]
        <4>1. r4[k] \subseteq RowsTo(r9)
          BY <1>1
        <4> QED BY <1>1, <1>2, <3>2, <4>1, Later
      <3> QED BY <1>6, <3>1, <3>2
    <2> QED BY <2>1, <2>2
  <1>10. SinkPart!FilesHeld'
    BY <1>1, <1>2, <1>8, <1>9 DEF SinkPart!FilesHeld, RunsTo, RowsTo, Datasets
  <1>11. SinkPart!RowsDated'
    <2> SUFFICES ASSUME NEW k \in SinkPart!Label, NEW r \in r4'[k], NEW m \in r3'[k]
                 PROVE  /\ r.when <= m.when
                        /\ r.when = m.when => r.build = m.build /\ r.dataset = m.dataset
      BY DEF SinkPart!RowsDated
    <2>1. CASE k # l
      <3>1. r \in r4[k] /\ m \in r3[k]
        BY <1>7, <2>1
      <3> QED BY <3>1 DEF SinkPart!RowsDated
    <2>2. CASE k = l
      <3>1. m = run /\ m.when = r9' /\ m.build = r1 /\ m.dataset = r2
        BY <1>7, <2>2
      <3>2. CASE \E w \in done : r = Row(w)
        <4>1. r.when = r9' /\ r.build = r1 /\ r.dataset = r2
          BY <3>2
        <4> QED BY <1>1, <1>2, <3>1, <4>1
      <3>3. CASE r \in r4[l]
        <4>1. r \in RowsTo(r9)
          BY <1>1, <3>3
        <4>2. r.when \in 0..r9
          BY <4>1 DEF RowsTo
        <4> QED BY <1>1, <1>2, <3>1, <4>2
      <3> QED BY <1>7, <2>2, <3>2, <3>3
    <2> QED BY <2>1, <2>2
  <1> QED BY <1>10, <1>11

(* A differ's row is what its hash says, so that ingesting one again changes  *)
(* nothing a licence rests on.                                                *)
LEMMA OneRowPerHash ==
  ASSUME NEW c, NEW d, SinkPart!SaysItsHash(c), SinkPart!SaysItsHash(d), c.hash = d.hash
  PROVE  c = d
PROOF
  <1>1. c = [hash |-> c.hash, build |-> c.hash[1], dataset |-> c.hash[2],
             licensesPerf |-> c.hash[3] # "T0", licensesComparative |-> c.hash[3] = "T3"]
    BY Zenon DEF SinkPart!SaysItsHash
  <1>2. d = [hash |-> d.hash, build |-> d.hash[1], dataset |-> d.hash[2],
             licensesPerf |-> d.hash[3] # "T0", licensesComparative |-> d.hash[3] = "T3"]
    BY Zenon DEF SinkPart!SaysItsHash
  <1> QED BY <1>1, <1>2, Zenon

LEMMA LicencesStay ==
  ASSUME SinkPart!ConfHeld, NEW l \in SinkPart!Label, SinkPart!Ingest(l)
  PROVE  r7 \subseteq r7' /\ SinkPart!ConfHeld'
PROOF
  <1>1. r7' = {c \in r7 : ~\E d \in r6[l] : d.hash = c.hash} \cup r6[l] /\ r6' = r6
    BY DEF SinkPart!Ingest
  <1>2. /\ \A k \in SinkPart!Label : \A c \in r6[k] : SinkPart!SaysItsHash(c)
        /\ \A c \in r7 : SinkPart!SaysItsHash(c)
    BY DEF SinkPart!ConfHeld
  <1>3. ASSUME NEW c \in r7 PROVE c \in r7'
    <2>1. CASE \E d \in r6[l] : d.hash = c.hash
      <3>1. PICK d \in r6[l] : d.hash = c.hash
        BY <2>1
      <3>2. c = d
        BY <1>2, <3>1, OneRowPerHash
      <3> QED BY <1>1, <3>1, <3>2
    <2> QED BY <1>1, <2>1
  <1>4. SinkPart!ConfHeld'
    BY <1>1, <1>2 DEF SinkPart!ConfHeld, SinkPart!SaysItsHash
  <1> QED BY <1>3, <1>4

(* A row that is let in is under a licence of its own; one of the session     *)
(* run.json names is of that licence's build and dataset.                     *)
LEMMA LetInLicensed ==
  ASSUME SinkPart!FilesHeld, SinkPart!RowsDated, SinkPart!ConfHeld,
         NEW l \in SinkPart!Label, NEW r \in r4[l], NEW c \in r6[l], NEW m \in r3[l],
         ~SinkPart!Refused(l, r, c, m)
  PROVE  LET p == SinkPart!Entry(l, r, c, m)
         IN  /\ p.engine \in SinkPart!Label /\ p.when \in 0..r9
             /\ \E k \in r7' :
                   /\ k.hash = p.hash /\ k.licensesPerf
                   /\ p.workload \in SinkPart!Plumbing \/ p.recall
                   /\ ~p.orphan => p.row.dataset = k.dataset
                   /\ ~p.orphan => SinkPart!Own(p.engine, p.row.build) = SinkPart!Own(p.engine, k.build)
PROOF
  <1> DEFINE p == SinkPart!Entry(l, r, c, m)
  <1>1. /\ r \in RowsTo(r9) /\ m \in RunsTo(r9) /\ r9 \in Nat
    <2>1. r4[l] \subseteq RowsTo(r9) /\ r3[l] \subseteq RunsTo(r9) /\ r9 \in Nat
      BY HarnessAssumption DEF SinkPart!FilesHeld, RunsTo, RowsTo, Datasets
    <2> QED BY <2>1
  <1>2. /\ c \in r7' /\ c.licensesPerf /\ m.dataset = c.dataset
        /\ l = "sm" => r.build.isa = c.build.isa /\ m.build.commit = c.build.commit
        /\ l = "qd" => m.build.qdrant = c.build.qdrant
        /\ r.w \in SinkPart!Plumbing \/ SinkPart!HasRecall(l, r.w, m)
    BY DEF SinkPart!Refused
  <1>3. /\ p.engine = l /\ p.workload = r.w /\ p.hash = c.hash /\ p.when = r.when /\ p.row = r
        /\ p.recall = SinkPart!HasRecall(l, r.w, m) /\ p.orphan = (r.when < m.when)
    BY Zenon DEF SinkPart!Entry
  <1>4. r.when \in 0..r9 /\ m.when \in 0..r9
    BY <1>1 DEF RunsTo, RowsTo
  <1>5. ASSUME ~p.orphan PROVE r.build = m.build /\ r.dataset = m.dataset
    <2>1. ~(r.when < m.when)
      BY <1>3, <1>5
    <2>2. /\ r.when <= m.when
          /\ r.when = m.when => r.build = m.build /\ r.dataset = m.dataset
      BY DEF SinkPart!RowsDated
    <2> QED BY <1>4, <2>1, <2>2
  <1>6. ASSUME ~p.orphan PROVE SinkPart!Own(l, r.build) = SinkPart!Own(l, c.build)
    <2>1. CASE l = "sm"
      BY <1>2, <1>5, <1>6, <2>1 DEF SinkPart!Own
    <2>2. CASE l = "qd"
      BY <1>2, <1>5, <1>6, <2>2 DEF SinkPart!Own
    <2> QED BY <2>1, <2>2 DEF SinkPart!Label
  <1>7. p.workload \in SinkPart!Plumbing \/ p.recall
    BY <1>2, <1>3, Zenon
  <1> HIDE DEF p
  <1>8. \E k \in r7' :
           /\ k.hash = p.hash /\ k.licensesPerf
           /\ p.workload \in SinkPart!Plumbing \/ p.recall
           /\ ~p.orphan => p.row.dataset = k.dataset
           /\ ~p.orphan => SinkPart!Own(p.engine, p.row.build) = SinkPart!Own(p.engine, k.build)
    BY <1>2, <1>3, <1>5, <1>6, <1>7
  <1> QED BY <1>3, <1>4, <1>8 DEF p

LEMMA IngestLicensed ==
  ASSUME SinkPart!SinkInv, NEW l \in SinkPart!Label, SinkPart!Ingest(l)
  PROVE  SinkPart!LicenceHeld'
PROOF
  <1>0. /\ SinkPart!FilesHeld /\ SinkPart!RowsDated /\ SinkPart!ConfHeld /\ SinkPart!LicenceHeld
        /\ r9' = r9
    BY DEF SinkPart!SinkInv, SinkPart!Ingest
  <1> SUFFICES ASSUME NEW p \in r8'
               PROVE  /\ p.engine \in SinkPart!Label /\ p.when \in 0..r9
                      /\ \E c \in r7' :
                            /\ c.hash = p.hash /\ c.licensesPerf
                            /\ p.workload \in SinkPart!Plumbing \/ p.recall
                            /\ ~p.orphan => p.row.dataset = c.dataset
                            /\ ~p.orphan => SinkPart!Own(p.engine, p.row.build) = SinkPart!Own(p.engine, c.build)
    BY <1>0, Zenon DEF SinkPart!LicenceHeld
  <1>1. \/ p \in r8
        \/ \E r \in r4[l], c \in r6[l], m \in r3[l] :
              ~SinkPart!Refused(l, r, c, m) /\ p = SinkPart!Entry(l, r, c, m)
    BY DEF SinkPart!Ingest, SinkPart!Upsert
  <1>2. CASE p \in r8
    <2>1. r7 \subseteq r7'
      BY <1>0, LicencesStay
    <2> QED BY <1>0, <1>2, <2>1, Zenon DEF SinkPart!LicenceHeld
  <1>3. ASSUME NEW r \in r4[l], NEW c \in r6[l], NEW m \in r3[l],
               ~SinkPart!Refused(l, r, c, m), p = SinkPart!Entry(l, r, c, m)
        PROVE  /\ p.engine \in SinkPart!Label /\ p.when \in 0..r9
               /\ \E k \in r7' :
                     /\ k.hash = p.hash /\ k.licensesPerf
                     /\ p.workload \in SinkPart!Plumbing \/ p.recall
                     /\ ~p.orphan => p.row.dataset = k.dataset
                     /\ ~p.orphan => SinkPart!Own(p.engine, p.row.build) = SinkPart!Own(p.engine, k.build)
    BY <1>0, <1>3, LetInLicensed, Zenon
  <1> QED BY <1>1, <1>2, <1>3, Zenon

LEMMA SinkStep == SinkPart!SinkInv /\ SinkPart!SinkNext => SinkPart!SinkInv'
PROOF
  <1> SUFFICES ASSUME SinkPart!SinkInv, SinkPart!SinkNext PROVE SinkPart!SinkInv'
    OBVIOUS
  <1>0. SinkPart!FilesHeld /\ SinkPart!RowsDated /\ SinkPart!ConfHeld /\ SinkPart!LicenceHeld
    BY DEF SinkPart!SinkInv
  <1>1. r9 \in Nat
    BY <1>0, HarnessAssumption DEF SinkPart!FilesHeld
  <1>2. ASSUME UNCHANGED <<r3, r4>>, r9' = r9 + 1, r9 < MaxSinkTimes,
               r1' \in SinkPart!Builds, r2' \in Datasets
        PROVE  SinkPart!FilesHeld' /\ SinkPart!RowsDated'
    <2>1. /\ r3 \in [SinkPart!Label -> SUBSET RunsTo(r9)]
          /\ r4 \in [SinkPart!Label -> SUBSET RowsTo(r9)]
      BY <1>0 DEF SinkPart!FilesHeld, RunsTo, RowsTo, Datasets
    <2>2. /\ r3' \in [SinkPart!Label -> SUBSET RunsTo(r9')]
          /\ r4' \in [SinkPart!Label -> SUBSET RowsTo(r9')]
      BY <1>1, <1>2, <2>1, Later
    <2>3. r9' \in 0..MaxSinkTimes
      BY <1>1, <1>2, HarnessAssumption
    <2> QED BY <1>0, <1>2, <2>2, <2>3
            DEF SinkPart!FilesHeld, SinkPart!RowsDated, RunsTo, RowsTo, Datasets
  <1>3. ASSUME UNCHANGED <<r7, r8>>, r9' = r9 + 1 PROVE SinkPart!LicenceHeld'
    <2>1. 0..r9 \subseteq 0..r9'
      BY <1>1, <1>3
    <2> QED BY <1>0, <1>3, <2>1, Zenon DEF SinkPart!LicenceHeld
  <1>4. CASE SinkPart!Rebuild
    <2>1. /\ UNCHANGED <<r3, r4, r6, r7, r8>> /\ r9' = r9 + 1 /\ r9 < MaxSinkTimes
          /\ r1' \in SinkPart!Builds /\ r2' \in Datasets
      BY <1>0, <1>4 DEF SinkPart!Rebuild, SinkPart!Tick, SinkPart!FilesHeld, Datasets
    <2>2. SinkPart!ConfHeld'
      BY <1>0, <2>1 DEF SinkPart!ConfHeld, SinkPart!SaysItsHash
    <2> QED BY <1>2, <1>3, <2>1, <2>2 DEF SinkPart!SinkInv
  <1>5. CASE SinkPart!Differ
    <2>1. /\ UNCHANGED <<r1, r2, r3, r4, r7, r8>> /\ r9' = r9 + 1 /\ r9 < MaxSinkTimes
          /\ r1' \in SinkPart!Builds /\ r2' \in Datasets
      BY <1>0, <1>5 DEF SinkPart!Differ, SinkPart!Tick, SinkPart!FilesHeld, Datasets
    <2>2. PICK tier \in {"T0", "T1", "T3"} :
               r6' = [l \in SinkPart!Label |->
                        {[hash |-> <<r1, r2, tier>>, build |-> r1, dataset |-> r2,
                          licensesPerf |-> tier # "T0", licensesComparative |-> tier = "T3"]}]
      BY <1>5 DEF SinkPart!Differ
    <2>3. SinkPart!SaysItsHash([hash |-> <<r1, r2, tier>>, build |-> r1, dataset |-> r2,
                                licensesPerf |-> tier # "T0",
                                licensesComparative |-> tier = "T3"])
      BY <2>1 DEF SinkPart!SaysItsHash
    <2>4. \A l \in SinkPart!Label : \A c \in r6'[l] : SinkPart!SaysItsHash(c)
      BY <2>2, <2>3
    <2>5. SinkPart!ConfHeld'
      BY <1>0, <2>1, <2>4 DEF SinkPart!ConfHeld, SinkPart!SaysItsHash
    <2> QED BY <1>2, <1>3, <2>1, <2>5 DEF SinkPart!SinkInv
  <1>6. ASSUME NEW l \in SinkPart!Label, SinkPart!Measure(l) PROVE SinkPart!SinkInv'
    <2>1. UNCHANGED <<r6, r7, r8>> /\ r9' = r9 + 1
      BY <1>6 DEF SinkPart!Measure, SinkPart!Tick
    <2>2. SinkPart!ConfHeld'
      BY <1>0, <2>1 DEF SinkPart!ConfHeld, SinkPart!SaysItsHash
    <2> QED BY <1>0, <1>3, <1>6, <2>1, <2>2, MeasureDated DEF SinkPart!SinkInv
  <1>7. ASSUME NEW l \in SinkPart!Label, SinkPart!Sweep(l) PROVE SinkPart!SinkInv'
    <2>1. /\ UNCHANGED <<r1, r2, r3, r4, r6, r7, r8>> /\ r9' = r9 + 1 /\ r9 < MaxSinkTimes
          /\ r1' \in SinkPart!Builds /\ r2' \in Datasets
      BY <1>0, <1>7 DEF SinkPart!Sweep, SinkPart!Tick, SinkPart!FilesHeld, Datasets
    <2>2. SinkPart!ConfHeld'
      BY <1>0, <2>1 DEF SinkPart!ConfHeld, SinkPart!SaysItsHash
    <2> QED BY <1>2, <1>3, <2>1, <2>2 DEF SinkPart!SinkInv
  <1>8. ASSUME NEW l \in SinkPart!Label, SinkPart!Ingest(l) PROVE SinkPart!SinkInv'
    <2>1. UNCHANGED <<r1, r2, r3, r4, r9>>
      BY <1>8 DEF SinkPart!Ingest
    <2>2. SinkPart!FilesHeld' /\ SinkPart!RowsDated'
      BY <1>0, <2>1 DEF SinkPart!FilesHeld, SinkPart!RowsDated
    <2> QED BY <1>0, <1>8, <2>2, LicencesStay, IngestLicensed DEF SinkPart!SinkInv
  <1> QED BY <1>4, <1>5, <1>6, <1>7, <1>8 DEF SinkPart!SinkNext

(* The newest of some rows is one of them.                                    *)
LEMMA NewestIsOne ==
  ASSUME NEW ps, ps # {}, r9 \in Nat, \A p \in ps : p.when \in 0..r9
  PROVE  SinkPart!NewestOf(ps) \in ps
PROOF
  <1> DEFINE ts == {p.when : p \in ps}
  <1>1. ts \subseteq 0..r9 /\ ts # {}
    OBVIOUS
  <1>2. PICK t \in ts : \A u \in ts : u <= t
    BY <1>1, LatestExists
  <1>3. PICK p \in ps : p.when = t
    OBVIOUS
  <1>4. \A q \in ps : q.when <= p.when
    BY <1>2, <1>3
  <1> QED BY <1>4 DEF SinkPart!NewestOf

LEMMA SinkLicensed == SinkPart!SinkInv => SinkPart!SinkIsLicensed
PROOF
  <1> SUFFICES ASSUME SinkPart!SinkInv PROVE SinkPart!SinkIsLicensed
    OBVIOUS
  <1>0. /\ SinkPart!FilesHeld /\ SinkPart!ConfHeld /\ SinkPart!LicenceHeld /\ r9 \in Nat
    BY HarnessAssumption DEF SinkPart!SinkInv, SinkPart!FilesHeld
  <1>1. \A p \in r8 : \E c \in r7 :
           /\ c.hash = p.hash /\ c.licensesPerf
           /\ p.workload \in SinkPart!Plumbing \/ p.recall
           /\ ~p.orphan => p.row.dataset = c.dataset
           /\ ~p.orphan => SinkPart!Own(p.engine, p.row.build) = SinkPart!Own(p.engine, c.build)
    BY <1>0, Zenon DEF SinkPart!LicenceHeld
  <1>2. ASSUME NEW w \in SinkPart!Workload, NEW p \in SinkPart!Published(w),
               ~p.sm.orphan, ~p.qd.orphan
        PROVE  p.sm.row.dataset = p.qd.row.dataset
    <2>1. p \in SinkPart!PairsOf(w)
      BY DEF SinkPart!Published
    <2>2. PICK h \in SinkPart!Hashes(w) :
             /\ \A l \in SinkPart!Label : SinkPart!Ranked(w, h, l) # {}
             /\ p = [sm |-> SinkPart!NewestOf(SinkPart!Ranked(w, h, "sm")),
                     qd |-> SinkPart!NewestOf(SinkPart!Ranked(w, h, "qd"))]
      BY <2>1 DEF SinkPart!PairsOf
    <2>3. ASSUME NEW l \in SinkPart!Label
          PROVE  SinkPart!NewestOf(SinkPart!Ranked(w, h, l)) \in SinkPart!Ranked(w, h, l)
      <3>1. \A q \in SinkPart!Ranked(w, h, l) : q.when \in 0..r9
        BY <1>0 DEF SinkPart!Ranked, SinkPart!LicenceHeld
      <3>2. SinkPart!Ranked(w, h, l) # {}
        BY <2>2
      <3> QED BY <1>0, <3>1, <3>2, NewestIsOne
    <2>4. /\ p.sm \in SinkPart!Ranked(w, h, "sm") /\ p.qd \in SinkPart!Ranked(w, h, "qd")
      BY <2>2, <2>3 DEF SinkPart!Label
    <2>5. p.sm \in r8 /\ p.sm.hash = h /\ p.qd \in r8 /\ p.qd.hash = h
      BY <2>4 DEF SinkPart!Ranked
    <2>6. PICK c \in r7 : c.hash = h /\ p.sm.row.dataset = c.dataset
      BY <1>1, <1>2, <2>5
    <2>7. PICK d \in r7 : d.hash = h /\ p.qd.row.dataset = d.dataset
      BY <1>1, <1>2, <2>5
    <2>8. c = d
      BY <1>0, <2>6, <2>7, OneRowPerHash DEF SinkPart!ConfHeld
    <2> QED BY <2>6, <2>7, <2>8
  <1> QED BY <1>1, <1>2, Zenon DEF SinkPart!SinkIsLicensed

LEMMA SinkKept == SinkHeld /\ [PartsNext]_pvars => SinkHeld'
PROOF
  <1> SUFFICES ASSUME SinkHeld, [PartsNext]_pvars, part' = "sink"
               PROVE  SinkPart!SinkInv'
    BY DEF SinkHeld
  <1>1. part = "sink"
    BY PartStays
  <1>2. SinkPart!SinkInv
    BY <1>1 DEF SinkHeld
  <1>3. SinkPart!SinkNext \/ UNCHANGED <<r1, r2, r3, r4, r5, r6, r7, r8, r9>>
    BY <1>1 DEF PartsNext, pvars, After0, After1, After4, After5, After6, After8
  <1>4. CASE UNCHANGED <<r1, r2, r3, r4, r5, r6, r7, r8, r9>>
    BY <1>2, <1>4 DEF SinkPart!SinkInv, SinkPart!FilesHeld, SinkPart!RowsDated,
                      SinkPart!ConfHeld, SinkPart!LicenceHeld, SinkPart!SaysItsHash
  <1> QED BY <1>2, <1>3, <1>4, SinkStep

(* A row of the session its label's run.json names is in the database only    *)
(* under a licence of its own dataset and build, in whatever order            *)
(* measurements, sweeps, differ runs, rebuilds and ingestions come; and a     *)
(* published ratio is of two rows over one dataset.                           *)
THEOREM SinkIsFaithfulCorrect == PartsSpec => []SinkIsFaithful
PROOF
  <1>2. SinkHeld => SinkIsFaithful
    BY SinkLicensed DEF SinkHeld, SinkIsFaithful
  <1> QED BY SinkKept, <1>2, SinkInit, PTL DEF PartsSpec, pvars

-----------------------------------------------------------------------------
(* Verdict: r1 kind, r2 arm, r3 label.                                        *)

(* The answers in the order they are asked: when each is given, which keep    *)
(* the row out of every figure, and which are a number.                       *)
Whys == <<"stale", "contaminated", "unindexed", "open loop", "open loop", "open loop",
          "unmeasured", "basis", "policy", "unstamped", "overlap", "no recall",
          "useless recall", "unequal recall", "drift", "outlier", "number", "number">>
AsksInOrder(all, k, l, r) ==
    /\ DOMAIN all = 1..18
    /\ all[1].when <=> VerdictPart!Stale(l)
    /\ all[2].when <=> \E a \in VerdictPart!Pair : r[a].foreign
    /\ all[3].when <=> VerdictPart!Unindexed(k, r)
    /\ all[4].when <=>
         k.openLoop /\ \E a \in VerdictPart!Pair : r[a].status = "ok" /\ r[a].served = "queued"
    /\ all[5].when <=>
         k.openLoop /\ \E a \in VerdictPart!Pair : r[a].status = "ok" /\ r[a].served = "short"
    /\ all[6].when <=> k.openLoop
    /\ all[7].when <=> \E a \in VerdictPart!Pair : VerdictPart!Qps(r[a]) = 0
    /\ all[8].when <=> r[1].basis # r[2].basis
    /\ all[9].when <=> k.policy
    /\ all[10].when <=> ~VerdictPart!RowsStamped(l, r)
    /\ all[11].when <=> \E a \in VerdictPart!Pair : r[a].lowOverlap
    /\ all[12].when <=> k.recallRequired /\ VerdictPart!RecallMissing(r)
    /\ all[13].when <=> k.recallRequired /\ VerdictPart!RecallUseless(r)
    /\ all[14].when <=> k.recallRequired /\ VerdictPart!RecallUnequal(r)
    /\ all[15].when <=> \E a \in VerdictPart!Pair : r[a].drift
    /\ all[16].when <=> \E a \in VerdictPart!Pair : r[a].outlier
    /\ all[18].when
    /\ \A i \in {1, 2, 3, 8, 9, 10, 11, 13, 15, 16} : all[i].refuses
    /\ \A i \in 1..18 : all[i].why = Whys[i]

LEMMA WhysAre ==
  /\ \A i \in 1..16 : Whys[i] # "number"
  /\ \A i \in 17..18 : Whys[i] = "number"
PROOF
  BY DEF Whys

LEMMA EighteenAnswers ==
  ASSUME NEW k, NEW l, NEW r PROVE DOMAIN VerdictPart!Answers(k, l, r) = 1..18
PROOF
  BY DEF VerdictPart!Answers

LEMMA AnswersAre ==
  ASSUME NEW k, NEW l, NEW r, NEW all, all = VerdictPart!Answers(k, l, r)
  PROVE  AsksInOrder(all, k, l, r)
PROOF
  <1> USE DEF VerdictPart!Answers, VerdictPart!Answer
  <1>1. DOMAIN all = 1..18 /\ all[18].when
    <2>1. DOMAIN all = 1..18
      <3> HIDE DEF VerdictPart!Answers, VerdictPart!Answer
      <3> QED BY EighteenAnswers
    <2>2. all[18].when
      OBVIOUS
    <2> HIDE DEF VerdictPart!Answers, VerdictPart!Answer
    <2> QED BY <2>1, <2>2
  <1>2. /\ all[1].when <=> VerdictPart!Stale(l)
        /\ all[2].when <=> \E a \in VerdictPart!Pair : r[a].foreign
        /\ all[3].when <=> VerdictPart!Unindexed(k, r)
        /\ all[4].when <=>
             k.openLoop /\ \E a \in VerdictPart!Pair : r[a].status = "ok" /\ r[a].served = "queued"
    <2>1. all[1].when <=> VerdictPart!Stale(l)
      OBVIOUS
    <2>2. all[2].when <=> \E a \in VerdictPart!Pair : r[a].foreign
      OBVIOUS
    <2>3. all[3].when <=> VerdictPart!Unindexed(k, r)
      OBVIOUS
    <2>4. all[4].when <=>
             k.openLoop /\ \E a \in VerdictPart!Pair : r[a].status = "ok" /\ r[a].served = "queued"
      OBVIOUS
    <2> HIDE DEF VerdictPart!Answers, VerdictPart!Answer
    <2> QED BY <2>1, <2>2, <2>3, <2>4, Zenon
  <1>3. /\ all[5].when <=>
             k.openLoop /\ \E a \in VerdictPart!Pair : r[a].status = "ok" /\ r[a].served = "short"
        /\ all[6].when <=> k.openLoop
        /\ all[7].when <=> \E a \in VerdictPart!Pair : VerdictPart!Qps(r[a]) = 0
        /\ all[8].when <=> r[1].basis # r[2].basis
    OBVIOUS
  <1>4. /\ all[9].when <=> k.policy
        /\ all[10].when <=> ~VerdictPart!RowsStamped(l, r)
        /\ all[11].when <=> \E a \in VerdictPart!Pair : r[a].lowOverlap
        /\ all[12].when <=> k.recallRequired /\ VerdictPart!RecallMissing(r)
    OBVIOUS
  <1>5. /\ all[13].when <=> k.recallRequired /\ VerdictPart!RecallUseless(r)
        /\ all[14].when <=> k.recallRequired /\ VerdictPart!RecallUnequal(r)
        /\ all[15].when <=> \E a \in VerdictPart!Pair : r[a].drift
        /\ all[16].when <=> \E a \in VerdictPart!Pair : r[a].outlier
    OBVIOUS
  <1>6. \A i \in {1, 2, 3, 8, 9, 10, 11, 13, 15, 16} : all[i].refuses
    <2>1. all[1].refuses /\ all[2].refuses /\ all[3].refuses /\ all[8].refuses /\ all[9].refuses
      OBVIOUS
    <2>2. all[10].refuses /\ all[11].refuses /\ all[13].refuses /\ all[15].refuses
      OBVIOUS
    <2>3. all[16].refuses
      OBVIOUS
    <2> HIDE DEF VerdictPart!Answers, VerdictPart!Answer
    <2> QED BY <2>1, <2>2, <2>3
  <1>7. ASSUME NEW i \in 1..18 PROVE all[i].why = Whys[i]
    <2> USE DEF Whys
    <2>1. /\ all[1].why = Whys[1]
          /\ all[2].why = Whys[2]
          /\ all[3].why = Whys[3]
          /\ all[4].why = Whys[4]
          /\ all[5].why = Whys[5]
          /\ all[6].why = Whys[6]
      OBVIOUS
    <2>2. /\ all[7].why = Whys[7]
          /\ all[8].why = Whys[8]
          /\ all[9].why = Whys[9]
          /\ all[10].why = Whys[10]
          /\ all[11].why = Whys[11]
          /\ all[12].why = Whys[12]
      OBVIOUS
    <2>3. /\ all[13].why = Whys[13]
          /\ all[14].why = Whys[14]
          /\ all[15].why = Whys[15]
          /\ all[16].why = Whys[16]
          /\ all[17].why = Whys[17]
          /\ all[18].why = Whys[18]
      OBVIOUS
    <2> HIDE DEF VerdictPart!Answers, VerdictPart!Answer, Whys
    <2>4. ASSUME i \in 1..6 PROVE all[i].why = Whys[i]
      <3>1. i = 1 \/ i = 2 \/ i = 3 \/ i = 4 \/ i = 5 \/ i = 6
        BY <2>4
      <3> QED BY <2>1, <3>1, Zenon
    <2>5. ASSUME i \in 7..12 PROVE all[i].why = Whys[i]
      <3>1. i = 7 \/ i = 8 \/ i = 9 \/ i = 10 \/ i = 11 \/ i = 12
        BY <2>5
      <3> QED BY <2>2, <3>1, Zenon
    <2>6. ASSUME i \in 13..18 PROVE all[i].why = Whys[i]
      <3>1. i = 13 \/ i = 14 \/ i = 15 \/ i = 16 \/ i = 17 \/ i = 18
        BY <2>6
      <3> QED BY <2>3, <3>1, Zenon
    <2>7. i \in 1..6 \/ i \in 7..12 \/ i \in 13..18
      BY <1>7
    <2> QED BY <2>4, <2>5, <2>6, <2>7, Zenon
  <1> HIDE DEF VerdictPart!Answers, VerdictPart!Answer
  <1> QED BY <1>1, <1>2, <1>3, <1>4, <1>5, <1>6, <1>7, Zenon DEF AsksInOrder

(* Every refusal looks at both arms, or at how far they are apart.            *)
LEMMA SwapSame ==
  ASSUME NEW k, NEW l, NEW r, r[1].recall \in Int, r[2].recall \in Int,
         NEW all, all = VerdictPart!Answers(k, l, r),
         NEW other, other = VerdictPart!Answers(k, VerdictPart!Swapped(l), VerdictPart!Swapped(r))
  PROVE  \A i \in 1..16 : all[i].when <=> other[i].when
PROOF
  <1> DEFINE ls == VerdictPart!Swapped(l)
             rs == VerdictPart!Swapped(r)
  <1>0. /\ ls[1] = l[2] /\ ls[2] = l[1] /\ rs[1] = r[2] /\ rs[2] = r[1]
        /\ VerdictPart!Pair = {1, 2}
    BY DEF VerdictPart!Swapped, VerdictPart!Pair
  <1>1. other = VerdictPart!Answers(k, ls, rs)
    OBVIOUS
  <1> HIDE DEF ls, rs
  <1>2. VerdictPart!Stale(l) <=> VerdictPart!Stale(ls)
    BY <1>0, Zenon DEF VerdictPart!Stale
  <1>3. /\ (\E a \in VerdictPart!Pair : r[a].foreign) <=> (\E a \in VerdictPart!Pair : rs[a].foreign)
        /\ (\E a \in VerdictPart!Pair : r[a].lowOverlap) <=> (\E a \in VerdictPart!Pair : rs[a].lowOverlap)
        /\ (\E a \in VerdictPart!Pair : r[a].drift) <=> (\E a \in VerdictPart!Pair : rs[a].drift)
        /\ (\E a \in VerdictPart!Pair : r[a].outlier) <=> (\E a \in VerdictPart!Pair : rs[a].outlier)
    BY <1>0
  <1>4. VerdictPart!Unindexed(k, r) <=> VerdictPart!Unindexed(k, rs)
    BY <1>0 DEF VerdictPart!Unindexed
  <1>5. /\ (\E a \in VerdictPart!Pair : r[a].status = "ok" /\ r[a].served = "queued")
           <=> (\E a \in VerdictPart!Pair : rs[a].status = "ok" /\ rs[a].served = "queued")
        /\ (\E a \in VerdictPart!Pair : r[a].status = "ok" /\ r[a].served = "short")
           <=> (\E a \in VerdictPart!Pair : rs[a].status = "ok" /\ rs[a].served = "short")
    BY <1>0
  <1>6. /\ (\E a \in VerdictPart!Pair : VerdictPart!Qps(r[a]) = 0)
           <=> (\E a \in VerdictPart!Pair : VerdictPart!Qps(rs[a]) = 0)
        /\ r[1].basis # r[2].basis <=> rs[1].basis # rs[2].basis
    BY <1>0
  <1>7. VerdictPart!RowsStamped(l, r) <=> VerdictPart!RowsStamped(ls, rs)
    BY <1>0 DEF VerdictPart!RowsStamped
  <1>8. /\ VerdictPart!RecallMissing(r) <=> VerdictPart!RecallMissing(rs)
        /\ VerdictPart!RecallUseless(r) <=> VerdictPart!RecallUseless(rs)
    BY <1>0 DEF VerdictPart!RecallMissing, VerdictPart!RecallUseless
  <1>9. VerdictPart!RecallUnequal(r) <=> VerdictPart!RecallUnequal(rs)
    <2>1. VerdictPart!Abs(r[1].recall - r[2].recall) = VerdictPart!Abs(r[2].recall - r[1].recall)
      BY DEF VerdictPart!Abs
    <2> QED BY <1>0, <2>1 DEF VerdictPart!RecallUnequal
  <1>10. AsksInOrder(all, k, l, r) /\ AsksInOrder(other, k, ls, rs)
    BY <1>1, AnswersAre
  <1>11. /\ all[1].when <=> other[1].when
         /\ all[2].when <=> other[2].when
         /\ all[3].when <=> other[3].when
         /\ all[4].when <=> other[4].when
    <2>1. all[1].when <=> other[1].when
      BY <1>2, <1>10, Zenon DEF AsksInOrder
    <2>2. all[2].when <=> other[2].when
      BY <1>3, <1>10, Zenon DEF AsksInOrder
    <2>3. all[3].when <=> other[3].when
      BY <1>4, <1>10, Zenon DEF AsksInOrder
    <2>4. all[4].when <=> other[4].when
      BY <1>5, <1>10, Zenon DEF AsksInOrder
    <2> QED BY <2>1, <2>2, <2>3, <2>4, Zenon
  <1>12. /\ all[5].when <=> other[5].when
         /\ all[6].when <=> other[6].when
         /\ all[7].when <=> other[7].when
         /\ all[8].when <=> other[8].when
    BY <1>5, <1>6, <1>10, Zenon DEF AsksInOrder
  <1>13. /\ all[9].when <=> other[9].when
         /\ all[10].when <=> other[10].when
         /\ all[11].when <=> other[11].when
         /\ all[12].when <=> other[12].when
    BY <1>3, <1>7, <1>8, <1>10, Zenon DEF AsksInOrder
  <1>14. /\ all[13].when <=> other[13].when
         /\ all[14].when <=> other[14].when
         /\ all[15].when <=> other[15].when
         /\ all[16].when <=> other[16].when
    BY <1>3, <1>8, <1>9, <1>10, Zenon DEF AsksInOrder
  <1>15. ASSUME NEW i \in 1..16 PROVE all[i].when <=> other[i].when
    <2>1. i \in 1..4 \/ i \in 5..8 \/ i \in 9..12 \/ i \in 13..16
      BY <1>15
    <2>2. ASSUME i \in 1..4 PROVE all[i].when <=> other[i].when
      <3>1. i = 1 \/ i = 2 \/ i = 3 \/ i = 4
        BY <2>2
      <3> QED BY <1>11, <3>1, Zenon
    <2>3. ASSUME i \in 5..8 PROVE all[i].when <=> other[i].when
      <3>1. i = 5 \/ i = 6 \/ i = 7 \/ i = 8
        BY <2>3
      <3> QED BY <1>12, <3>1, Zenon
    <2>4. ASSUME i \in 9..12 PROVE all[i].when <=> other[i].when
      <3>1. i = 9 \/ i = 10 \/ i = 11 \/ i = 12
        BY <2>4
      <3> QED BY <1>13, <3>1, Zenon
    <2>5. ASSUME i \in 13..16 PROVE all[i].when <=> other[i].when
      <3>1. i = 13 \/ i = 14 \/ i = 15 \/ i = 16
        BY <2>5
      <3> QED BY <1>14, <3>1, Zenon
    <2> QED BY <2>1, <2>2, <2>3, <2>4, <2>5, Zenon
  <1> QED BY <1>15

(* The answer of a row is its first, and a number when nothing refuses it.    *)
LEMMA FirstAnswer ==
  ASSUME NEW k, NEW l, NEW r, NEW all, all = VerdictPart!Answers(k, l, r)
  PROVE  \E m \in 1..18 : /\ VerdictPart!RowAnswer(k, l, r) = all[m]
                          /\ all[m].when /\ \A i \in 1..18 : i < m => ~all[i].when
PROOF
  <1> DEFINE given == {i \in DOMAIN all : all[i].when}
             m == VerdictPart!Min(given)
  <1>1. DOMAIN all = 1..18 /\ all[18].when
    BY AnswersAre DEF AsksInOrder
  <1>2. given \subseteq Nat /\ 18 \in given /\ given \subseteq 1..18
    BY <1>1
  <1>3. m \in given /\ \A n \in given : m <= n
    <2> HIDE DEF given
    <2> QED BY <1>2, LeastExists
  <1>4. VerdictPart!RowAnswer(k, l, r) = all[m]
    BY DEF VerdictPart!RowAnswer
  <1> HIDE DEF m
  <1>5. m \in 1..18 /\ all[m].when
    BY <1>2, <1>3
  <1>6. ASSUME NEW i \in 1..18, i < m PROVE ~all[i].when
    BY <1>1, <1>3, <1>5, <1>6
  <1> QED BY <1>4, <1>5, <1>6

(* The instance's own finite sets are finite sets.                            *)
LEMMA SameSets ==
  ASSUME NEW S
  PROVE  /\ VerdictPart!IsFiniteSet(S) <=> IsFiniteSet(S)
         /\ VerdictPart!Cardinality(S) = Cardinality(S)
PROOF
  <1>1. VerdictPart!IsFiniteSet(S) <=> IsFiniteSet(S)
    BY DEF VerdictPart!IsFiniteSet, IsFiniteSet
  <1>2. VerdictPart!Cardinality(S) = Cardinality(S)
    BY DEF VerdictPart!Cardinality, Cardinality
  <1> QED BY <1>1, <1>2

(* The binaries of a label that is not of a mixed build: one.                 *)
LEMMA OneBinary ==
  ASSUME NEW b, b # {}, IsFiniteSet(b), ~VerdictPart!MixedBuild(b)
  PROVE  Cardinality(VerdictPart!Binaries(b)) = 1
PROOF
  <1> DEFINE bins == VerdictPart!Binaries(b)
             f == [x \in b |-> x[2]]
  <1>1. f \in Surjection(b, bins)
    BY DEF VerdictPart!Binaries, Surjection
  <1>2. IsFiniteSet(bins) /\ Cardinality(bins) <= Cardinality(b)
    BY <1>1, FS_Surjection
  <1>3. Cardinality(b) \in Nat /\ Cardinality(bins) \in Nat
    BY <1>2, FS_CardinalityType
  <1>4. bins # {}
    BY DEF VerdictPart!Binaries
  <1>5. Cardinality(bins) # 0
    BY <1>2, <1>4, FS_EmptySet
  <1>6. ~(Cardinality(b) > 1 /\ Cardinality(bins) > 1)
    BY SameSets DEF VerdictPart!MixedBuild
  <1> QED BY <1>2, <1>3, <1>5, <1>6

LEMMA VerdictFair == VerdictPart!VerdictInv => VerdictPart!RefusalsAreFair
PROOF
  <1> SUFFICES ASSUME VerdictPart!VerdictInv PROVE VerdictPart!RefusalsAreFair
    OBVIOUS
  <1> DEFINE k == r1
             l == r3
             r == r2
             ls == VerdictPart!Swapped(l)
             rs == VerdictPart!Swapped(r)
             all == VerdictPart!Answers(k, l, r)
             other == VerdictPart!Answers(k, ls, rs)
             got == VerdictPart!RowAnswer(k, l, r)
             swapped == VerdictPart!RowAnswer(k, ls, rs)
  <1>1. /\ r[1].recall \in Int /\ r[2].recall \in Int /\ VerdictPart!Pair = {1, 2}
        /\ \A a \in VerdictPart!Pair : l[a].builds # {} /\ IsFiniteSet(l[a].builds)
    BY SameSets DEF VerdictPart!VerdictInv, VerdictPart!BuildsNamed, VerdictPart!RecallsRead,
                    VerdictPart!Pair
  <1>2. AsksInOrder(all, k, l, r) /\ AsksInOrder(other, k, ls, rs)
    BY AnswersAre
  <1>3. \A i \in 1..16 : all[i].when <=> other[i].when
    BY <1>1, SwapSame
  <1>4. PICK m \in 1..18 : got = all[m] /\ all[m].when /\ \A i \in 1..18 : i < m => ~all[i].when
    BY FirstAnswer
  <1>5. PICK n \in 1..18 : swapped = other[n] /\ other[n].when
                           /\ \A i \in 1..18 : i < n => ~other[i].when
    BY FirstAnswer
  <1>6. \A i \in 1..18 : all[i].why = other[i].why
    BY <1>2 DEF AsksInOrder
  <1> HIDE DEF all, other, got, swapped, ls, rs
  <1>7. swapped.why = got.why
    <2>1. CASE m \in 1..16
      <3>1. other[m].when /\ n <= m
        BY <1>3, <1>4, <1>5, <2>1
      <3>2. n \in 1..16 /\ all[n].when
        BY <1>3, <1>5, <2>1, <3>1
      <3>3. n = m
        BY <1>4, <3>1, <3>2
      <3> QED BY <1>4, <1>5, <1>6, <3>3
    <2>2. CASE m \in 17..18
      <3>1. n \notin 1..16
        BY <1>3, <1>4, <1>5, <2>2
      <3>2. n \in 17..18
        BY <3>1
      <3> QED BY <1>2, <1>4, <1>5, <2>2, <3>2, WhysAre DEF AsksInOrder
    <2> QED BY <2>1, <2>2
  <1>8. ASSUME ~got.refuses
        PROVE  /\ \A a \in VerdictPart!Pair : ~r[a].foreign /\ ~l[a].orphaned
               /\ l[1].stamp = l[2].stamp /\ l[1].stamp # "none"
               /\ Cardinality(VerdictPart!Binaries(l[1].builds)) = 1
    <2>1. m \notin {1, 2, 3, 8, 9, 10, 11, 13, 15, 16}
      BY <1>2, <1>4, <1>8 DEF AsksInOrder
    <2>2. ~all[1].when /\ ~all[2].when
      BY <1>4, <2>1
    <2>3. /\ ~VerdictPart!Stale(l) /\ \A a \in VerdictPart!Pair : ~r[a].foreign
      BY <1>2, <2>2, Zenon DEF AsksInOrder
    <2>4. /\ \A a \in VerdictPart!Pair : ~VerdictPart!MixedBuild(l[a].builds) /\ ~l[a].orphaned
          /\ l[1].stamp = l[2].stamp /\ \A a \in VerdictPart!Pair : l[a].stamp # "none"
      BY <2>3, Zenon DEF VerdictPart!Stale
    <2>5. Cardinality(VerdictPart!Binaries(l[1].builds)) = 1
      BY <1>1, <2>4, OneBinary
    <2> QED BY <1>1, <2>3, <2>4, <2>5
  <1>9. ASSUME got.why = "number"
        PROVE  /\ \A a \in VerdictPart!Pair : r[a].status = "ok"
               /\ k.recallRequired => ~VerdictPart!RecallUnequal(r) /\ ~VerdictPart!RecallMissing(r)
               /\ k.needsIndex => \A a \in VerdictPart!Pair : r[a].index = "built"
    <2>1. m \in 17..18
      BY <1>2, <1>4, <1>9, WhysAre DEF AsksInOrder
    <2>2. ~all[3].when /\ ~all[7].when /\ ~all[12].when /\ ~all[14].when
      BY <1>4, <2>1
    <2>3. /\ ~VerdictPart!Unindexed(k, r)
          /\ \A a \in VerdictPart!Pair : VerdictPart!Qps(r[a]) # 0
          /\ k.recallRequired => ~VerdictPart!RecallUnequal(r) /\ ~VerdictPart!RecallMissing(r)
      BY <1>2, <2>2, Zenon DEF AsksInOrder
    <2>4. \A a \in VerdictPart!Pair : r[a].status = "ok"
      BY <2>3 DEF VerdictPart!Qps
    <2>5. k.needsIndex => \A a \in VerdictPart!Pair : r[a].index = "built"
      BY <2>3, <2>4, Zenon DEF VerdictPart!Unindexed
    <2> QED BY <2>3, <2>4, <2>5, Zenon
  <1> USE DEF got, swapped, ls, rs
  <1>10. Cardinality(VerdictPart!Binaries(l[1].builds))
         = VerdictPart!Cardinality(VerdictPart!Binaries(l[1].builds))
    BY SameSets
  <1> QED BY <1>7, <1>8, <1>9, <1>10, Zenon DEF VerdictPart!RefusalsAreFair

VerdictHeld == part = "verdict" => VerdictPart!VerdictInv

LEMMA VerdictInit == PartsInit => VerdictHeld
PROOF
  <1> SUFFICES ASSUME PartsInit, part = "verdict" PROVE VerdictPart!VerdictInv
    BY DEF VerdictHeld
  <1>1. r2 = [a \in {1, 2} |-> VerdictPart!HealthyRow] /\ r3 = [a \in {1, 2} |-> VerdictPart!HealthyLabel]
    BY DEF PartsInit, VerdictPart!VerdictInit, VerdictPart!Pair
  <1>2. VerdictPart!HealthyRow.recall = 97 /\ VerdictPart!HealthyLabel.builds = {<<"c1", "b1">>}
    BY DEF VerdictPart!HealthyRow, VerdictPart!HealthyLabel
  <1>3. VerdictPart!IsFiniteSet({<<"c1", "b1">>})
    BY SameSets, FS_Singleton
  <1>4. /\ VerdictPart!HealthyRow.recall \in Int /\ VerdictPart!HealthyLabel.builds # {}
        /\ VerdictPart!IsFiniteSet(VerdictPart!HealthyLabel.builds)
    BY <1>2, <1>3
  <1>5. /\ DOMAIN r2 = {1, 2} /\ \A a \in {1, 2} : r2[a] = VerdictPart!HealthyRow
        /\ DOMAIN r3 = {1, 2} /\ \A a \in {1, 2} : r3[a] = VerdictPart!HealthyLabel
    BY <1>1
  <1> QED BY <1>4, <1>5, Zenon
          DEF VerdictPart!VerdictInv, VerdictPart!BuildsNamed, VerdictPart!RecallsRead,
              VerdictPart!Pair

(* An odd row's recall is a number and an odd label's builds are some.        *)
LEMMA OddRowRead ==
  ASSUME NEW o \in VerdictPart!RowOddities, "recall" \in DOMAIN o PROVE o.recall \in Int
PROOF
  <1>1. ASSUME o \notin [recall : {-1, 10, 96, 90}] PROVE FALSE
    <2>1. \/ \E S : o \in [status : S] \/ o \in [foreign : S] \/ o \in [qps : S]
          \/ \E S : o \in [index : S] \/ o \in [served : S] \/ o \in [basis : S]
          \/ \E S : o \in [hash : S] \/ o \in [lowOverlap : S] \/ o \in [drift : S]
          \/ \E S : o \in [outlier : S]
      BY <1>1, Zenon DEF VerdictPart!RowOddities
    <2>2. \A S : /\ o \in [status : S] => DOMAIN o = {"status"}
                 /\ o \in [foreign : S] => DOMAIN o = {"foreign"}
                 /\ o \in [qps : S] => DOMAIN o = {"qps"}
      OBVIOUS
    <2>3. \A S : /\ o \in [index : S] => DOMAIN o = {"index"}
                 /\ o \in [served : S] => DOMAIN o = {"served"}
                 /\ o \in [basis : S] => DOMAIN o = {"basis"}
      OBVIOUS
    <2>4. \A S : /\ o \in [hash : S] => DOMAIN o = {"hash"}
                 /\ o \in [lowOverlap : S] => DOMAIN o = {"lowOverlap"}
                 /\ o \in [drift : S] => DOMAIN o = {"drift"}
      OBVIOUS
    <2>5. \A S : o \in [outlier : S] => DOMAIN o = {"outlier"}
      OBVIOUS
    <2>6. DOMAIN o \in {{"status"}, {"foreign"}, {"qps"}, {"index"}, {"served"}, {"basis"},
                       {"hash"}, {"lowOverlap"}, {"drift"}, {"outlier"}}
      BY <2>1, <2>2, <2>3, <2>4, <2>5, Zenon
    <2> QED BY <2>6
  <1> QED BY <1>1

LEMMA OddLabelNamed ==
  ASSUME NEW o \in VerdictPart!LabelOddities, "builds" \in DOMAIN o
  PROVE  o.builds # {} /\ VerdictPart!IsFiniteSet(o.builds)
PROOF
  <1>1. o \in [builds : {{<<"c1", "b1">>, <<"c2", "b1">>}, {<<"c1", "b1">>, <<"c2", "b2">>}}]
    <2>1. ASSUME NEW S
          PROVE  /\ o \in [stamp : S] => DOMAIN o = {"stamp"}
                 /\ o \in [dataset : S] => DOMAIN o = {"dataset"}
                 /\ o \in [orphaned : S] => DOMAIN o = {"orphaned"}
                 /\ o \in [conf : S] => DOMAIN o = {"conf"}
      OBVIOUS
    <2>2. \/ o \in [builds : {{<<"c1", "b1">>, <<"c2", "b1">>}, {<<"c1", "b1">>, <<"c2", "b2">>}}]
          \/ \E S : o \in [stamp : S] \/ o \in [dataset : S]
          \/ \E S : o \in [orphaned : S] \/ o \in [conf : S]
      BY Zenon DEF VerdictPart!LabelOddities
    <2>3. ASSUME o \notin [builds : {{<<"c1", "b1">>, <<"c2", "b1">>},
                                    {<<"c1", "b1">>, <<"c2", "b2">>}}]
          PROVE  DOMAIN o \in {{"stamp"}, {"dataset"}, {"orphaned"}, {"conf"}}
      BY <2>1, <2>2, <2>3, Zenon
    <2> QED BY <2>3
  <1>2. \/ o.builds = {<<"c1", "b1">>, <<"c2", "b1">>}
        \/ o.builds = {<<"c1", "b1">>, <<"c2", "b2">>}
    BY <1>1
  <1>3. ASSUME NEW x, NEW y PROVE VerdictPart!IsFiniteSet({x, y})
    <2>1. IsFiniteSet({x} \cup {y}) /\ {x, y} = {x} \cup {y}
      BY FS_Singleton, FS_Union
    <2> QED BY <2>1, SameSets
  <1>4. VerdictPart!IsFiniteSet(o.builds)
    BY <1>2, <1>3, Zenon
  <1> QED BY <1>2, <1>4

LEMMA VerdictStep == VerdictPart!VerdictInv /\ VerdictPart!VerdictNext => VerdictPart!VerdictInv'
PROOF
  <1> SUFFICES ASSUME VerdictPart!VerdictInv, VerdictPart!VerdictNext PROVE VerdictPart!VerdictInv'
    OBVIOUS
  <1>0. /\ DOMAIN r2 = VerdictPart!Pair /\ DOMAIN r3 = VerdictPart!Pair
        /\ \A a \in VerdictPart!Pair :
              /\ DOMAIN r2[a] = DOMAIN VerdictPart!HealthyRow /\ r2[a].recall \in Int
              /\ DOMAIN r3[a] = DOMAIN VerdictPart!HealthyLabel
              /\ r3[a].builds # {} /\ VerdictPart!IsFiniteSet(r3[a].builds)
    BY DEF VerdictPart!VerdictInv, VerdictPart!BuildsNamed, VerdictPart!RecallsRead
  <1>1. CASE VerdictPart!ChooseKind
    BY <1>1 DEF VerdictPart!ChooseKind, VerdictPart!VerdictInv, VerdictPart!BuildsNamed,
                VerdictPart!RecallsRead
  <1>2. CASE VerdictPart!OddRow
    <2>1. UNCHANGED r3
      BY <1>2 DEF VerdictPart!OddRow
    <2>2. PICK a \in VerdictPart!Pair, o \in VerdictPart!RowOddities :
               r2' = [r2 EXCEPT ![a] = VerdictPart!Changed(r2[a], o)]
      BY <1>2 DEF VerdictPart!OddRow
    <2>3. /\ DOMAIN VerdictPart!Changed(r2[a], o) = DOMAIN VerdictPart!HealthyRow
          /\ VerdictPart!Changed(r2[a], o).recall \in Int
      <3>1. "recall" \in DOMAIN VerdictPart!HealthyRow
        BY DEF VerdictPart!HealthyRow
      <3> QED BY <1>0, <3>1, OddRowRead DEF VerdictPart!Changed
    <2> QED BY <1>0, <2>1, <2>2, <2>3
            DEF VerdictPart!VerdictInv, VerdictPart!BuildsNamed, VerdictPart!RecallsRead
  <1>3. CASE VerdictPart!OddLabel
    <2>1. UNCHANGED r2
      BY <1>3 DEF VerdictPart!OddLabel
    <2>2. PICK a \in VerdictPart!Pair, o \in VerdictPart!LabelOddities :
               r3' = [r3 EXCEPT ![a] = VerdictPart!Changed(r3[a], o)]
      BY <1>3 DEF VerdictPart!OddLabel
    <2>3. /\ DOMAIN VerdictPart!Changed(r3[a], o) = DOMAIN VerdictPart!HealthyLabel
          /\ VerdictPart!Changed(r3[a], o).builds # {}
          /\ VerdictPart!IsFiniteSet(VerdictPart!Changed(r3[a], o).builds)
      <3>1. "builds" \in DOMAIN VerdictPart!HealthyLabel
        BY DEF VerdictPart!HealthyLabel
      <3> QED BY <1>0, <3>1, OddLabelNamed DEF VerdictPart!Changed
    <2> QED BY <1>0, <2>1, <2>2, <2>3
            DEF VerdictPart!VerdictInv, VerdictPart!BuildsNamed, VerdictPart!RecallsRead
  <1> QED BY <1>1, <1>2, <1>3 DEF VerdictPart!VerdictNext

LEMMA VerdictKept == VerdictHeld /\ [PartsNext]_pvars => VerdictHeld'
PROOF
  <1> SUFFICES ASSUME VerdictHeld, [PartsNext]_pvars, part' = "verdict"
               PROVE  VerdictPart!VerdictInv'
    BY DEF VerdictHeld
  <1>1. part = "verdict"
    BY PartStays
  <1>2. VerdictPart!VerdictInv
    BY <1>1 DEF VerdictHeld
  <1>3. VerdictPart!VerdictNext \/ UNCHANGED <<r1, r2, r3, r4>>
    BY <1>1 DEF PartsNext, pvars, After0, After1
  <1>4. CASE UNCHANGED <<r1, r2, r3, r4>>
    BY <1>2, <1>4 DEF VerdictPart!VerdictInv, VerdictPart!BuildsNamed, VerdictPart!RecallsRead
  <1> QED BY <1>2, <1>3, <1>4, VerdictStep

(* Which arm is named first decides nothing about whether there may be a      *)
(* number, and a row that is not refused is of one harness, one build and a   *)
(* quiet host; with a number, of equal recall: for every band, tolerance and  *)
(* floor, however much is odd about the pair.                                 *)
THEOREM VerdictIsFairCorrect == PartsSpec => []VerdictIsFair
PROOF
  <1>2. VerdictHeld => VerdictIsFair
    BY VerdictFair DEF VerdictHeld, VerdictIsFair
  <1> QED BY VerdictKept, <1>2, VerdictInit, PTL DEF PartsSpec, pvars

-----------------------------------------------------------------------------
(* Gate: r1 tree, r2 canary, r3 silent, r4 uv, r5 triggers, r6 ciOnly,        *)
(* r7 binary, r8 todo, r9 failed, r10 only, r11 canaryRead, r12 throughout,   *)
(* r13 code.                                                                  *)

GateHeld == part = "gate" => GatePart!GateInv

LEMMA GateSteps ==
  /\ Len(GatePart!Steps) = 9 /\ DOMAIN GatePart!Steps = 1..9
  /\ GatePart!Steps[1] = "zlint" /\ GatePart!Steps[2] = "zlint-not-vacuous"
  /\ GatePart!Steps[3] = "ruff" /\ GatePart!Steps[4] = "zig-build"
  /\ GatePart!Steps[5] = "kernel-align" /\ GatePart!Steps[6] = "harness-unit"
  /\ GatePart!Steps[7] = "regression-null" /\ GatePart!Steps[8] = "report-tooling"
  /\ GatePart!Steps[9] = "ci-covers-gate"
PROOF
  BY DEF GatePart!Steps

(* What is left after a step is a tail of what was left before it.            *)
LEMMA LeftIs ==
  /\ GatePart!Left(1) = GatePart!Steps
  /\ \A k \in 1..10 : GatePart!Left(k) = <<>> <=> k = 10
  /\ \A k \in 1..9 : /\ Head(GatePart!Left(k)) = GatePart!Steps[k]
                     /\ Tail(GatePart!Left(k)) = GatePart!Left(k + 1)
PROOF
  <1>1. \A k \in 1..10 : GatePart!Left(k) = [i \in 1..(10 - k) |-> GatePart!Steps[i + k - 1]]
    BY GateSteps DEF GatePart!Left
  <1>2. \A i \in 1..9 : GatePart!Steps[i] \in GatePart!Labels
    BY GateSteps DEF GatePart!Labels
  <1>3. GatePart!Steps \in [1..9 -> GatePart!Labels]
    <2> DEFINE Names == {"zlint", "zlint-not-vacuous", "ruff", "zig-build", "kernel-align",
                         "harness-unit", "regression-null", "report-tooling", "ci-covers-gate"}
    <2>1. GatePart!Steps \in Seq(Names)
      BY DEF GatePart!Steps
    <2> HIDE DEF Names
    <2>2. GatePart!Steps = [i \in 1..9 |-> GatePart!Steps[i]]
      BY <2>1, GateSteps, LenProperties
    <2> QED BY <2>2, <1>2
  <1>4. ASSUME NEW k \in 1..10
        PROVE  /\ GatePart!Left(k) \in Seq(GatePart!Labels) /\ Len(GatePart!Left(k)) = 10 - k
               /\ \A i \in 1..(10 - k) : GatePart!Left(k)[i] = GatePart!Steps[i + k - 1]
    <2> DEFINE n == 10 - k
               s == GatePart!Left(k)
    <2>1. n \in Nat
      OBVIOUS
    <2>2. s \in [1..n -> GatePart!Labels] /\ \A i \in 1..n : s[i] = GatePart!Steps[i + k - 1]
      <3>1. \A i \in 1..n : i + k - 1 \in 1..9
        OBVIOUS
      <3> QED BY <1>1, <1>2, <3>1
    <2>3. s \in Seq(GatePart!Labels)
      <3> HIDE DEF n, s
      <3> QED BY <2>1, <2>2, SeqDef
    <2>4. Len(s) = n
      <3> HIDE DEF n, s
      <3>1. DOMAIN s = 1..n /\ Len(s) \in Nat /\ DOMAIN s = 1..Len(s)
        BY <2>2, <2>3, LenProperties
      <3> QED BY <2>1, <3>1
    <2> QED BY <2>2, <2>3, <2>4
  <1>5. GatePart!Left(1) = GatePart!Steps
    <2>1. GatePart!Left(1) = [i \in 1..9 |-> GatePart!Steps[i + 1 - 1]]
      BY <1>1
    <2>2. \A i \in 1..9 : i + 1 - 1 = i
      OBVIOUS
    <2> QED BY <1>3, <2>1, <2>2
  <1>6. \A k \in 1..10 : GatePart!Left(k) = <<>> <=> k = 10
    <2> SUFFICES ASSUME NEW k \in 1..10 PROVE GatePart!Left(k) = <<>> <=> k = 10
      OBVIOUS
    <2> DEFINE s == GatePart!Left(k)
    <2>1. s \in Seq(GatePart!Labels) /\ Len(s) = 10 - k
      BY <1>4
    <2> HIDE DEF s
    <2>2. s = <<>> => k = 10
      <3>1. s = <<>> => Len(s) = 0
        BY EmptySeq
      <3> QED BY <2>1, <3>1
    <2>3. k = 10 => s = <<>>
      BY <2>1, EmptySeq
    <2> QED BY <2>2, <2>3 DEF s
  <1>7. ASSUME NEW k \in 1..9
        PROVE  /\ Head(GatePart!Left(k)) = GatePart!Steps[k]
               /\ Tail(GatePart!Left(k)) = GatePart!Left(k + 1)
    <2> DEFINE s == GatePart!Left(k)
               t == GatePart!Left(k + 1)
    <2>1. k \in 1..10 /\ k + 1 \in 1..10 /\ 1 \in 1..(10 - k)
      OBVIOUS
    <2>2. /\ s \in Seq(GatePart!Labels) /\ Len(s) = 10 - k
          /\ \A i \in 1..(10 - k) : s[i] = GatePart!Steps[i + k - 1]
      BY <1>4, <2>1
    <2>3. /\ t \in Seq(GatePart!Labels) /\ Len(t) = 10 - (k + 1)
          /\ \A i \in 1..(10 - (k + 1)) : t[i] = GatePart!Steps[i + (k + 1) - 1]
      BY <1>4, <2>1
    <2>4. Head(s) = GatePart!Steps[k]
      <3>1. Head(s) = s[1]
        <4> HIDE DEF s
        <4> QED BY <2>1, <2>2
      <3> HIDE DEF s
      <3> QED BY <2>1, <2>2, <3>1
    <2>5. Tail(s) = t
      <3> HIDE DEF s, t
      <3>1. s # <<>>
        BY <2>1, <2>2, EmptySeq
      <3>2. /\ Tail(s) \in Seq(GatePart!Labels) /\ Len(Tail(s)) = 10 - (k + 1)
            /\ \A i \in 1..Len(Tail(s)) : Tail(s)[i] = s[i + 1]
        BY <2>2, <3>1, HeadTailProperties
      <3>3. \A i \in 1..(10 - (k + 1)) : Tail(s)[i] = t[i]
        <4> SUFFICES ASSUME NEW i \in 1..(10 - (k + 1)) PROVE Tail(s)[i] = t[i]
          OBVIOUS
        <4>1. i + 1 \in 1..(10 - k) /\ (i + 1) + k - 1 = i + (k + 1) - 1
          OBVIOUS
        <4>2. Tail(s)[i] = s[i + 1] /\ s[i + 1] = GatePart!Steps[(i + 1) + k - 1]
          BY <2>2, <3>2, <4>1
        <4> QED BY <2>3, <4>1, <4>2
      <3> QED BY <2>3, <3>2, <3>3, SeqEqual
    <2> QED BY <2>4, <2>5
  <1> QED BY <1>5, <1>6, <1>7

LEMMA GateStarts == GatePart!GateInit => GatePart!GateInv
PROOF
  <1> SUFFICES ASSUME GatePart!GateInit PROVE GatePart!GateInv
    OBVIOUS
  <1>1. /\ r1 = {} /\ r2 = FALSE /\ r8 = <<>>
        /\ r10 = FALSE /\ r11 = {} /\ r12 = {} /\ r13 = "none"
    BY DEF GatePart!GateInit
  <1>2. GatePart!TreeHeld
    BY <1>1 DEF GatePart!TreeHeld
  <1>3. GatePart!RunHeld
    BY <1>1 DEF GatePart!RunHeld
  <1> QED BY <1>1, <1>2, <1>3 DEF GatePart!GateInv, GatePart!GreenMeansChecked

(* A run that ended with nothing left and nothing failed has ruled all out.   *)
LEMMA AllRuledOut ==
  ASSUME GatePart!TreeHeld, GatePart!RuledOut(10), r11 = {}
  PROVE  /\ r12 = {} /\ ~r2 /\ ~r3 /\ r4
         /\ GatePart!FiresByItself /\ GatePart!Labels \subseteq r6
PROOF
  <1>1. /\ "unused" \notin r12 /\ ~r2 /\ ~r3 /\ r4 /\ "style" \notin r12
        /\ "compile" \notin r12 /\ "inlined" \notin r12 /\ "test" \notin r12
        /\ "verdict" \notin r12 /\ "template" \notin r12
        /\ GatePart!FiresByItself /\ GatePart!Labels \subseteq r6
    BY DEF GatePart!RuledOut, GatePart!FiresByItself
  <1>2. r12 \subseteq GatePart!Defects
    BY DEF GatePart!TreeHeld
  <1> QED BY <1>1, <1>2 DEF GatePart!Defects

(* What is ruled out stays so while less is there throughout.                 *)
LEMMA StaysRuledOut ==
  ASSUME NEW k \in 1..10, GatePart!RuledOut(k), r12' \subseteq r12, r2' => r2,
         UNCHANGED <<r3, r4, r5, r6, r7, r11>>
  PROVE  GatePart!RuledOut(k)'
PROOF
  BY DEF GatePart!RuledOut, GatePart!FiresByItself

LEMMA StepEdit ==
  ASSUME GatePart!GateInv, GatePart!EditTree \/ GatePart!EditTools
  PROVE  GatePart!GateInv'
PROOF
  <1>1. GatePart!TreeHeld /\ GatePart!RunHeld /\ GatePart!GreenMeansChecked
    BY DEF GatePart!GateInv
  <1>2. /\ r13' = (IF r8 = <<>> /\ r13 # "running" THEN "none" ELSE r13)
        /\ UNCHANGED <<r7, r8, r9, r10, r11>>
    BY DEF GatePart!EditTree, GatePart!EditTools, GatePart!Outdate
  <1>3. r13' # "passed"
    BY <1>1, <1>2 DEF GatePart!RunHeld
  <1>4. r13' = "running" => r13 = "running"
    BY <1>2
  <1>5. CASE GatePart!EditTree
    <2>1. /\ r12' = r12 \cap r1' /\ r2' = (r2 /\ (r1' # r1))
          /\ UNCHANGED <<r3, r4, r5, r6>>
          /\ r1' \subseteq GatePart!Defects
      BY <1>1, <1>5 DEF GatePart!EditTree, GatePart!TreeHeld
    <2>2. (r2' => r2) /\ r2' \in BOOLEAN
      BY <2>1, Zenon
    <2>3. GatePart!TreeHeld'
      BY <1>1, <1>2, <2>1, <2>2 DEF GatePart!TreeHeld
    <2>4. \A k \in 1..10 : GatePart!RuledOut(k) => GatePart!RuledOut(k)'
      BY <1>2, <2>1, <2>2, StaysRuledOut
    <2>5. GatePart!RunHeld'
      BY <1>1, <1>2, <1>4, <2>4, GateSteps DEF GatePart!RunHeld, GatePart!Left
    <2> QED BY <1>3, <2>3, <2>5 DEF GatePart!GateInv, GatePart!GreenMeansChecked
  <1>6. CASE GatePart!EditTools
    <2>1. /\ r8 = <<>> /\ r13 # "running" /\ UNCHANGED <<r1, r2, r12>>
          /\ r5' = r5 \/ r5' \in {{"schedule", "workflow_dispatch"}, {"workflow_dispatch"}}
      BY <1>6 DEF GatePart!EditTools
    <2>2. GatePart!TreeHeld'
      BY <1>1, <1>2, <2>1 DEF GatePart!TreeHeld
    <2>3. GatePart!RunHeld'
      BY <1>1, <1>2, <1>4, <2>1 DEF GatePart!RunHeld
    <2> QED BY <1>3, <2>2, <2>3 DEF GatePart!GateInv, GatePart!GreenMeansChecked
  <1> QED BY <1>5, <1>6

LEMMA StepStartGate ==
  ASSUME GatePart!GateInv, GatePart!StartGate
  PROVE  GatePart!GateInv'
PROOF
  <1>1. GatePart!TreeHeld /\ GatePart!RunHeld
    BY DEF GatePart!GateInv
  <1>2. /\ r13 # "running" /\ r13' = "running" /\ r12' = r1
        /\ UNCHANGED <<r1, r2, r3, r4, r5, r6, r7, r11>>
    BY DEF GatePart!StartGate, GatePart!Outside
  <1>3. GatePart!TreeHeld'
    BY <1>1, <1>2 DEF GatePart!TreeHeld
  <1>4. r11' = {}
    BY <1>1, <1>2 DEF GatePart!RunHeld
  <1>5. CASE r10' = FALSE /\ r8' = GatePart!Steps
    <2>1. r8' = GatePart!Left(1) /\ 1 \in 1..(Len(GatePart!Steps) + 1) /\ GatePart!RuledOut(1)'
      BY <1>5, LeftIs, GateSteps DEF GatePart!RuledOut, GatePart!FiresByItself
    <2>2. \E k \in 1..(Len(GatePart!Steps) + 1) : r8' = GatePart!Left(k) /\ GatePart!RuledOut(k)'
      BY <2>1
    <2>3. GatePart!RunHeld'
      BY <1>2, <1>4, <1>5, <2>2 DEF GatePart!RunHeld, GatePart!Left
    <2> QED BY <1>2, <1>3, <2>3 DEF GatePart!GateInv, GatePart!GreenMeansChecked
  <1>6. CASE r10' = TRUE
    <2>1. PICK l \in {"zlint", "kernel-align", "report-tooling"} : r8' = <<l>>
      BY <1>6 DEF GatePart!StartGate
    <2>2. l \in GatePart!Labels \ {"zlint-not-vacuous"}
      BY GateSteps DEF GatePart!Labels
    <2>3. GatePart!RunHeld'
      BY <1>2, <1>4, <1>6, <2>1, <2>2, GateSteps
         DEF GatePart!RunHeld, GatePart!Labels
    <2> QED BY <1>2, <1>3, <2>3 DEF GatePart!GateInv, GatePart!GreenMeansChecked
  <1> QED BY <1>5, <1>6 DEF GatePart!StartGate

(* Where a whole run is: before its k-th step.                                *)
LEMMA WhereItIs ==
  ASSUME GatePart!RunHeld, r13 = "running", ~r10, r8 # <<>>
  PROVE  \E k \in 1..9 : /\ r8 = GatePart!Left(k) /\ Head(r8) = GatePart!Steps[k]
                         /\ Tail(r8) = GatePart!Left(k + 1)
                         /\ (~r9 => GatePart!RuledOut(k))
PROOF
  <1>1. PICK k \in 1..10 : r8 = GatePart!Left(k) /\ (~r9 => GatePart!RuledOut(k))
    BY GateSteps DEF GatePart!RunHeld
  <1>2. k # 10
    BY <1>1, LeftIs
  <1>3. k \in 1..9
    BY <1>2
  <1> QED BY <1>1, <1>3, LeftIs

(* What a step that passed rules out.                                         *)
LEMMA PassRulesOut ==
  ASSUME GatePart!TreeHeld, NEW k \in 1..9, GatePart!RuledOut(k), r11 = {},
         k # 2, GatePart!Passes(GatePart!Steps[k]), k = 3 => r4,
         k = 4 => r7' = {r1}, k # 4 => r7' = r7,
         UNCHANGED <<r1, r2, r3, r4, r5, r6, r11, r12>>
  PROVE  GatePart!RuledOut(k + 1)'
PROOF
  <1>1. r12 \subseteq r1
    BY DEF GatePart!TreeHeld
  <1>2. CASE k = 1
    <2>1. r3 \/ ("unused" \notin r1 /\ ~r2)
      BY <1>2, GateSteps DEF GatePart!Passes, GatePart!ZlintPasses
    <2> QED BY <1>1, <1>2, <2>1 DEF GatePart!RuledOut, GatePart!FiresByItself
  <1>3. CASE k = 3
    <2>1. "style" \notin r1
      BY <1>3, GateSteps DEF GatePart!Passes
    <2> QED BY <1>1, <1>3, <2>1 DEF GatePart!RuledOut, GatePart!FiresByItself
  <1>4. CASE k = 4
    <2>1. "compile" \notin r1
      BY <1>4, GateSteps DEF GatePart!Passes
    <2> QED BY <1>1, <1>4, <2>1 DEF GatePart!RuledOut, GatePart!FiresByItself
  <1>5. CASE k = 5
    <2>1. \E b \in r7 : "inlined" \notin b
      BY <1>5, GateSteps DEF GatePart!Passes
    <2> QED BY <1>1, <1>5, <2>1 DEF GatePart!RuledOut, GatePart!FiresByItself
  <1>6. CASE k = 6
    <2>1. "test" \notin r1
      BY <1>6, GateSteps DEF GatePart!Passes
    <2> QED BY <1>1, <1>6, <2>1 DEF GatePart!RuledOut, GatePart!FiresByItself
  <1>7. CASE k = 7
    <2>1. "verdict" \notin r1
      BY <1>7, GateSteps DEF GatePart!Passes
    <2> QED BY <1>1, <1>7, <2>1 DEF GatePart!RuledOut, GatePart!FiresByItself
  <1>8. CASE k = 8
    <2>1. ~r4 \/ "template" \notin r1
      BY <1>8, GateSteps DEF GatePart!Passes
    <2>2. r4
      BY <1>8 DEF GatePart!RuledOut, GatePart!FiresByItself
    <2> QED BY <1>1, <1>8, <2>1, <2>2 DEF GatePart!RuledOut, GatePart!FiresByItself
  <1>9. CASE k = 9
    <2>1. GatePart!FiresByItself /\ GatePart!Labels \subseteq r6
      BY <1>1, <1>9, GateSteps DEF GatePart!Passes, GatePart!CiPasses
    <2> QED BY <1>1, <1>9, <2>1 DEF GatePart!RuledOut, GatePart!FiresByItself
  <1>10. k = 1 \/ k = 3 \/ k = 4 \/ k = 5 \/ k = 6 \/ k = 7 \/ k = 8 \/ k = 9
    OBVIOUS
  <1> QED BY <1>2, <1>3, <1>4, <1>5, <1>6, <1>7, <1>8, <1>9, <1>10

LEMMA StepRunStep ==
  ASSUME GatePart!GateInv, GatePart!RunStep
  PROVE  GatePart!GateInv'
PROOF
  <1>1. GatePart!TreeHeld /\ GatePart!RunHeld
    BY DEF GatePart!GateInv
  <1> DEFINE l == Head(r8)
  <1>2. /\ r8 # <<>> /\ l # "zlint-not-vacuous" /\ (l = "ruff" => r4)
        /\ r9' = (r9 \/ ~GatePart!Passes(l))
        /\ r7' = (IF l = "zig-build" /\ GatePart!Passes(l) THEN {r1} ELSE r7)
        /\ r8' = Tail(r8)
        /\ UNCHANGED <<r1, r2, r3, r4, r5, r6, r10, r11, r12, r13>>
    BY DEF GatePart!RunStep
  <1>3. r13 = "running"
    BY <1>1, <1>2 DEF GatePart!RunHeld
  <1>4. r11 = {}
    <2>1. r11 # {} => r8 = GatePart!Left(2)
      BY <1>1 DEF GatePart!RunHeld
    <2>2. Head(GatePart!Left(2)) = "zlint-not-vacuous"
      <3>1. 2 \in 1..9
        OBVIOUS
      <3> QED BY <3>1, LeftIs, GateSteps
    <2> QED BY <1>2, <2>1, <2>2
  <1>5. GatePart!TreeHeld'
    BY <1>1, <1>2 DEF GatePart!TreeHeld
  <1>6. ~r9' => ~r9 /\ GatePart!Passes(l)
    BY <1>2, Zenon
  <1>7. GatePart!RunHeld'
    <2>1. CASE r10
      <3>1. r8' = <<>>
        <4>1. PICK x : r8 = <<x>>
          BY <1>1, <1>2, <2>1 DEF GatePart!RunHeld
        <4>2. Tail(<<x>>) = <<>>
          OBVIOUS
        <4> QED BY <1>2, <4>1, <4>2
      <3> QED BY <1>2, <1>3, <1>4, <2>1, <3>1 DEF GatePart!RunHeld
    <2>2. CASE ~r10
      <3>1. PICK k \in 1..9 : /\ r8 = GatePart!Left(k) /\ l = GatePart!Steps[k]
                              /\ Tail(r8) = GatePart!Left(k + 1)
                              /\ (~r9 => GatePart!RuledOut(k))
        BY <1>1, <1>2, <1>3, <2>2, WhereItIs
      <3>2. k # 2 /\ (k = 3 => r4) /\ (k # 4 => l # "zig-build") /\ (k = 4 => l = "zig-build")
        <4>1. k = 1 \/ k = 2 \/ k = 3 \/ k = 4 \/ k = 5 \/ k = 6 \/ k = 7 \/ k = 8 \/ k = 9
          OBVIOUS
        <4> HIDE DEF l
        <4> QED BY <1>2, <3>1, <4>1, GateSteps
      <3>3. ASSUME ~r9' PROVE GatePart!RuledOut(k + 1)'
        <4>1. GatePart!RuledOut(k) /\ GatePart!Passes(GatePart!Steps[k])
          BY <1>6, <3>1, <3>3
        <4>2. (k = 4 => r7' = {r1}) /\ (k # 4 => r7' = r7)
          BY <1>2, <1>6, <3>2, <3>3
        <4> HIDE DEF l
        <4> QED BY <1>1, <1>2, <1>4, <3>2, <4>1, <4>2, PassRulesOut
      <3>4. k + 1 \in 1..(Len(GatePart!Steps) + 1) /\ r8' = GatePart!Left(k + 1)
        BY <1>2, <3>1, GateSteps
      <3>5. \E j \in 1..(Len(GatePart!Steps) + 1) :
               r8' = GatePart!Left(j) /\ (~r9' => GatePart!RuledOut(j)')
        BY <3>3, <3>4
      <3> QED BY <1>2, <1>3, <1>4, <2>2, <3>5 DEF GatePart!RunHeld, GatePart!Left
    <2> QED BY <2>1, <2>2
  <1> QED BY <1>2, <1>3, <1>5, <1>7 DEF GatePart!GateInv, GatePart!GreenMeansChecked

(* The canary in the file is the run's own, and what was read shows none.     *)
LEMMA CanaryRulesOut ==
  ASSUME GatePart!TreeHeld, NEW k \in 1..10, k = 2, GatePart!RuledOut(k),
         r11 = {}, r11' = {r2}, UNCHANGED <<r3, r12>>
  PROVE  GatePart!RuledOut(k)'
PROOF
  <1>1. /\ k > 1 /\ ~(k > 2) /\ ~(k > 3) /\ ~(k > 4) /\ ~(k > 5) /\ ~(k > 6)
        /\ ~(k > 7) /\ ~(k > 8) /\ ~(k > 9)
    OBVIOUS
  <1>2. r3 \/ ("unused" \notin r12 /\ ~r2)
    BY <1>1 DEF GatePart!RuledOut, GatePart!FiresByItself
  <1>3. r2 \in BOOLEAN
    BY DEF GatePart!TreeHeld
  <1>4. ~r2 => {r2} \subseteq {FALSE}
    BY <1>3, Zenon
  <1>5. r3' \/ ("unused" \notin r12' /\ r11' \subseteq {FALSE} /\ r11' # {})
    BY <1>2, <1>4
  <1> QED BY <1>1, <1>5 DEF GatePart!RuledOut, GatePart!FiresByItself

LEMMA PutBackRulesOut ==
  ASSUME NEW j \in 1..10, j = 2, GatePart!RuledOut(j), NEW k \in 1..10, k = 3,
         r11 # {}, r11' = {}, ~r3, r2' => TRUE \in r11, UNCHANGED <<r3, r12>>
  PROVE  GatePart!RuledOut(k)'
PROOF
  <1>1. /\ k > 1 /\ k > 2 /\ ~(k > 3) /\ ~(k > 4) /\ ~(k > 5) /\ ~(k > 6)
        /\ ~(k > 7) /\ ~(k > 8) /\ ~(k > 9) /\ j > 1
    OBVIOUS
  <1>2. "unused" \notin r12 /\ r11 \subseteq {FALSE}
    BY <1>1 DEF GatePart!RuledOut, GatePart!FiresByItself
  <1>3. ~r2'
    BY <1>2
  <1>4. "unused" \notin r12' /\ r11' = {} /\ ~r2' /\ ~r3'
    BY <1>2, <1>3
  <1> QED BY <1>1, <1>4 DEF GatePart!RuledOut, GatePart!FiresByItself

LEMMA StepCanary ==
  ASSUME GatePart!GateInv, GatePart!WriteCanary \/ GatePart!PutBack
  PROVE  GatePart!GateInv'
PROOF
  <1>1. GatePart!TreeHeld /\ GatePart!RunHeld
    BY DEF GatePart!GateInv
  <1>2. 2 \in 1..9 /\ 3 \in 1..9 /\ 2 \in 1..10 /\ 3 \in 1..10
    OBVIOUS
  <1>3. /\ Head(GatePart!Left(2)) = "zlint-not-vacuous" /\ GatePart!Left(2) # <<>>
        /\ Tail(GatePart!Left(2)) = GatePart!Left(3)
    BY <1>2, LeftIs, GateSteps
  <1>4. r8 # <<>> /\ Head(r8) = "zlint-not-vacuous"
    BY <1>1, <1>3 DEF GatePart!WriteCanary, GatePart!PutBack, GatePart!RunHeld
  <1>5. r13 = "running"
    BY <1>1, <1>4 DEF GatePart!RunHeld
  <1>6. ~r10
    <2>1. ASSUME NEW x, r8 = <<x>> PROVE x = "zlint-not-vacuous"
      BY <1>4, <2>1
    <2> QED BY <1>1, <1>4, <2>1 DEF GatePart!RunHeld
  <1>7. r8 = GatePart!Left(2) /\ (~r9 => GatePart!RuledOut(2))
    <2>1. PICK k \in 1..9 : /\ r8 = GatePart!Left(k) /\ Head(r8) = GatePart!Steps[k]
                            /\ (~r9 => GatePart!RuledOut(k))
      BY <1>1, <1>4, <1>5, <1>6, WhereItIs
    <2>2. k = 1 \/ k = 2 \/ k = 3 \/ k = 4 \/ k = 5 \/ k = 6 \/ k = 7 \/ k = 8 \/ k = 9
      OBVIOUS
    <2>3. k = 2
      BY <1>4, <2>1, <2>2, GateSteps
    <2> QED BY <2>1, <2>3
  <1>8. CASE GatePart!WriteCanary
    <2>1. /\ r11 = {} /\ r11' = {r2} /\ r2' = TRUE
          /\ UNCHANGED <<r1, r3, r4, r5, r6, r7, r8, r9, r10, r12, r13>>
      BY <1>8 DEF GatePart!WriteCanary
    <2>2. GatePart!TreeHeld'
      BY <1>1, <2>1 DEF GatePart!TreeHeld
    <2>3. ~r9' => GatePart!RuledOut(2)'
      <3> DEFINE k == 2
      <3>1. k \in 1..10 /\ k = 2 /\ (~r9 => GatePart!RuledOut(k))
        BY <1>7
      <3>2. ~r9' => GatePart!RuledOut(k)'
        <4> HIDE DEF k
        <4> QED BY <1>1, <2>1, <3>1, CanaryRulesOut
      <3> QED BY <3>2
    <2>4. GatePart!RunHeld'
      <3> DEFINE k == 2
      <3>1. /\ k \in 1..(Len(GatePart!Steps) + 1) /\ r8' = GatePart!Left(k)
            /\ (~r9' => GatePart!RuledOut(k)')
        BY <1>2, <1>7, <2>1, <2>3, GateSteps
      <3>2. \E j \in 1..(Len(GatePart!Steps) + 1) :
               r8' = GatePart!Left(j) /\ (~r9' => GatePart!RuledOut(j)')
        <4> HIDE DEF k
        <4> QED BY <3>1
      <3>3. r8' = GatePart!Left(2)
        BY <1>7, <2>1
      <3> QED BY <1>5, <1>6, <2>1, <3>2, <3>3 DEF GatePart!RunHeld, GatePart!Left
    <2> QED BY <1>5, <2>1, <2>2, <2>4 DEF GatePart!GateInv, GatePart!GreenMeansChecked
  <1>9. CASE GatePart!PutBack
    <2>1. /\ r11 # {} /\ r11' = {} /\ r8' = Tail(r8) /\ r2' = (TRUE \in r11)
          /\ r9' = (r9 \/ GatePart!ZlintPasses)
          /\ UNCHANGED <<r1, r3, r4, r5, r6, r7, r10, r12, r13>>
      BY <1>9 DEF GatePart!PutBack
    <2>2. GatePart!TreeHeld'
      BY <1>1, <2>1 DEF GatePart!TreeHeld
    <2>3. ~r9' => ~r9 /\ ~GatePart!ZlintPasses
      BY <2>1, Zenon
    <2>4. ~r9' => GatePart!RuledOut(3)'
      <3> DEFINE j == 2
                 k == 3
      <3>1. /\ j \in 1..10 /\ j = 2 /\ (~r9 => GatePart!RuledOut(j))
            /\ k \in 1..10 /\ k = 3
        BY <1>7
      <3>2. ~GatePart!ZlintPasses => ~r3
        BY DEF GatePart!ZlintPasses
      <3>3. r2' => TRUE \in r11
        BY <2>1
      <3>4. ~r9' => GatePart!RuledOut(k)'
        <4> HIDE DEF j, k
        <4> QED BY <2>1, <2>3, <3>1, <3>2, <3>3, PutBackRulesOut
      <3> QED BY <3>4
    <2>5. r8' = GatePart!Left(3)
      BY <1>3, <1>7, <2>1
    <2>6. GatePart!RunHeld'
      <3> DEFINE k == 3
      <3>1. /\ k \in 1..(Len(GatePart!Steps) + 1) /\ r8' = GatePart!Left(k)
            /\ (~r9' => GatePart!RuledOut(k)')
        BY <1>2, <2>4, <2>5, GateSteps
      <3>2. \E j \in 1..(Len(GatePart!Steps) + 1) :
               r8' = GatePart!Left(j) /\ (~r9' => GatePart!RuledOut(j)')
        <4> HIDE DEF k
        <4> QED BY <3>1
      <3> QED BY <1>5, <1>6, <2>1, <3>2 DEF GatePart!RunHeld, GatePart!Left
    <2> QED BY <1>5, <2>1, <2>2, <2>6 DEF GatePart!GateInv, GatePart!GreenMeansChecked
  <1> QED BY <1>8, <1>9

LEMMA StepEndGate ==
  ASSUME GatePart!GateInv, GatePart!EndGate \/ GatePart!Abort
  PROVE  GatePart!GateInv'
PROOF
  <1>1. GatePart!TreeHeld /\ GatePart!RunHeld
    BY DEF GatePart!GateInv
  <1>2. CASE GatePart!EndGate
    <2>1. /\ r8 = <<>> /\ r13 = "running" /\ r13' = (IF r9 THEN "failed" ELSE "passed")
          /\ UNCHANGED <<r1, r2, r3, r4, r5, r6, r7, r8, r9, r10, r11, r12>>
      BY <1>2 DEF GatePart!EndGate, GatePart!Outside
    <2>2. r11 = {}
      <3>1. GatePart!Left(2) # <<>>
        <4>1. 2 \in 1..10
          OBVIOUS
        <4> QED BY <4>1, LeftIs
      <3> QED BY <1>1, <2>1, <3>1 DEF GatePart!RunHeld
    <2>3. GatePart!TreeHeld'
      BY <1>1, <2>1 DEF GatePart!TreeHeld
    <2>4. GatePart!RunHeld'
      BY <2>1, <2>2 DEF GatePart!RunHeld
    <2>5. GatePart!GreenMeansChecked'
      <3> SUFFICES ASSUME r13' = "passed", ~r10
                   PROVE  /\ r12 = {} /\ ~r2 /\ ~r3 /\ r4
                          /\ GatePart!FiresByItself /\ GatePart!Labels \subseteq r6
        BY <2>1 DEF GatePart!GreenMeansChecked, GatePart!FiresByItself
      <3>1. ~r9
        BY <2>1
      <3>2. PICK k \in 1..10 : r8 = GatePart!Left(k) /\ GatePart!RuledOut(k)
        BY <1>1, <2>1, <3>1, GateSteps DEF GatePart!RunHeld
      <3>3. k = 10
        BY <2>1, <3>2, LeftIs
      <3> QED BY <1>1, <2>2, <3>2, <3>3, AllRuledOut
    <2> QED BY <2>3, <2>4, <2>5 DEF GatePart!GateInv
  <1>3. CASE GatePart!Abort
    <2>1. /\ r8' = <<>> /\ r13' = "died" /\ r11' = {} /\ r2' \in {r2} \cup r11
          /\ UNCHANGED <<r1, r5, r10, r12>>
      BY <1>3 DEF GatePart!Abort
    <2>2. GatePart!TreeHeld'
      BY <1>1, <2>1 DEF GatePart!TreeHeld
    <2>3. GatePart!RunHeld'
      BY <2>1 DEF GatePart!RunHeld
    <2> QED BY <2>1, <2>2, <2>3 DEF GatePart!GateInv, GatePart!GreenMeansChecked
  <1> QED BY <1>2, <1>3

(* Whatever other part moves, the gate is as it was.                          *)
LEMMA StepNothing ==
  ASSUME GatePart!GateInv,
         UNCHANGED <<r1, r2, r3, r4, r5, r6, r7, r8, r9, r10, r11, r12, r13>>
  PROVE  GatePart!GateInv'
PROOF
  <1>1. GatePart!TreeHeld /\ GatePart!RunHeld /\ GatePart!GreenMeansChecked
    BY DEF GatePart!GateInv
  <1>2. GatePart!TreeHeld'
    BY <1>1 DEF GatePart!TreeHeld
  <1>3. r12' \subseteq r12 /\ (r2' => r2)
    OBVIOUS
  <1>4. \A k \in 1..10 : GatePart!RuledOut(k) => GatePart!RuledOut(k)'
    BY <1>3, StaysRuledOut
  <1>5. GatePart!RunHeld'
    BY <1>1, <1>4, GateSteps DEF GatePart!RunHeld, GatePart!Left
  <1>6. GatePart!GreenMeansChecked'
    BY <1>1 DEF GatePart!GreenMeansChecked, GatePart!FiresByItself
  <1> QED BY <1>2, <1>5, <1>6 DEF GatePart!GateInv

LEMMA GateKept == GateHeld /\ [PartsNext]_pvars => GateHeld'
PROOF
  <1> SUFFICES ASSUME GateHeld, [PartsNext]_pvars, part' = "gate"
               PROVE  GatePart!GateInv'
    BY DEF GateHeld
  <1>1. part = "gate" /\ GatePart!GateInv
    BY PartStays DEF GateHeld
  <1>2. CASE GatePart!GateNext
    BY <1>1, <1>2, StepEdit, StepStartGate, StepRunStep, StepCanary, StepEndGate
       DEF GatePart!GateNext
  <1>3. CASE UNCHANGED pvars
    <2>1. UNCHANGED <<r1, r2, r3, r4, r5, r6, r7, r8, r9, r10, r11, r12, r13>>
      BY <1>3 DEF pvars, After0, After1, After4, After5, After6, After8, After9, After10,
                  After11
    <2> QED BY <1>1, <2>1, StepNothing
  <1> QED BY <1>1, <1>2, <1>3 DEF PartsNext

(* A green gate checked the tree it is green about, however often and where   *)
(* the tree was edited under it: the gate's half of ArmsAndGatesAreNamed.     *)
THEOREM GateIsGreen == PartsSpec => [](part = "gate" => GatePart!GreenMeansChecked)
PROOF
  <1>1. PartsInit => GateHeld
    BY GateStarts DEF PartsInit, GateHeld
  <1>3. GateHeld => (part = "gate" => GatePart!GreenMeansChecked)
    BY DEF GateHeld, GatePart!GateInv
  <1> QED BY <1>1, GateKept, <1>3, PTL DEF PartsSpec, pvars

-----------------------------------------------------------------------------
(* Sessions: r1 driver, r2 keep, r3 todo, r4 engine, r5 data, r6 phase,       *)
(* r7 runs, r8 measured, r9 setting, r10 rc, r11 troubles.                    *)

SessionHeld == part = "session" => SessionsPart!SessionsInv

LEMMA ArmsAre ==
  ASSUME NEW d \in SessionsPart!Drivers
  PROVE  /\ d # "w9" => /\ SessionsPart!Arms(d) = <<"a", "b">>
                        /\ SessionsPart!ToSet(SessionsPart!Arms(d)) = {"a", "b"}
         /\ d = "w9" => SessionsPart!ToSet(SessionsPart!Arms(d)) = {"stream7", "stream4", "batch8"}
PROOF
  BY DEF SessionsPart!Arms, SessionsPart!ToSet

LEMMA RotatedIs ==
  LET p == SessionsPart!Rotated(<<"a", "b">>)
  IN  /\ p \in Seq([arm : {"a", "b"}, rep : 1..SessionReps]) /\ Len(p) = 2 * SessionReps
      /\ \A i \in 1..(2 * SessionReps) :
            p[i] = [arm |-> <<"a", "b">>[((i - 1 + (i - 1) \div 2) % 2) + 1],
                    rep |-> ((i - 1) \div 2) + 1]
PROOF
  <1> DEFINE p == SessionsPart!Rotated(<<"a", "b">>)
             n == 2 * SessionReps
             f(i) == [arm |-> <<"a", "b">>[((i - 1 + (i - 1) \div 2) % 2) + 1],
                      rep |-> ((i - 1) \div 2) + 1]
  <1>1. SessionReps \in Nat \ {0} /\ n \in Nat /\ SessionReps * 2 = n
    BY HarnessAssumption
  <1>2. p = [i \in 1..n |-> f(i)]
    BY <1>1 DEF SessionsPart!Rotated
  <1>3. ASSUME NEW i \in 1..n PROVE f(i) \in [arm : {"a", "b"}, rep : 1..SessionReps]
    <2>1. (i - 1) \div 2 \in 0..(SessionReps - 1)
      BY <1>1
    <2>2. (i - 1 + (i - 1) \div 2) % 2 \in {0, 1}
      BY <2>1
    <2>3. <<"a", "b">>[((i - 1 + (i - 1) \div 2) % 2) + 1] \in {"a", "b"}
      BY <2>2
    <2>4. ((i - 1) \div 2) + 1 \in 1..SessionReps
      BY <1>1, <2>1
    <2> QED BY <2>3, <2>4
  <1> DEFINE S == [arm : {"a", "b"}, rep : 1..SessionReps]
  <1> HIDE DEF f, n, S, p
  <1>4. p \in Seq(S) /\ Len(p) = n /\ \A i \in 1..n : p[i] = f(i)
    BY <1>1, <1>2, <1>3 DEF S
  <1> QED BY <1>4 DEF f, n, S, p

LEMMA InTurnIs ==
  ASSUME NEW x, NEW y
  PROVE  LET p == SessionsPart!InTurn(<<x, y>>)
         IN  /\ p \in Seq([arm : {x, y}, rep : 1..SessionReps]) /\ Len(p) = 2 * SessionReps
             /\ \A i \in 1..(2 * SessionReps) :
                   p[i] = [arm |-> <<x, y>>[((i - 1) % 2) + 1], rep |-> ((i - 1) \div 2) + 1]
PROOF
  <1> DEFINE p == SessionsPart!InTurn(<<x, y>>)
             n == 2 * SessionReps
             f(i) == [arm |-> <<x, y>>[((i - 1) % 2) + 1], rep |-> ((i - 1) \div 2) + 1]
  <1>1. SessionReps \in Nat \ {0} /\ n \in Nat /\ SessionReps * 2 = n
    BY HarnessAssumption
  <1>2. p = [i \in 1..n |-> f(i)]
    BY <1>1 DEF SessionsPart!InTurn
  <1>3. ASSUME NEW i \in 1..n PROVE f(i) \in [arm : {x, y}, rep : 1..SessionReps]
    <2>1. (i - 1) \div 2 \in 0..(SessionReps - 1)
      BY <1>1
    <2>2. (i - 1) % 2 \in {0, 1}
      OBVIOUS
    <2>3. <<x, y>>[((i - 1) % 2) + 1] \in {x, y}
      BY <2>2
    <2>4. ((i - 1) \div 2) + 1 \in 1..SessionReps
      BY <1>1, <2>1
    <2> QED BY <2>3, <2>4
  <1> DEFINE S == [arm : {x, y}, rep : 1..SessionReps]
  <1> HIDE DEF f, n, S, p
  <1>4. p \in Seq(S) /\ Len(p) = n /\ \A i \in 1..n : p[i] = f(i)
    BY <1>1, <1>2, <1>3 DEF S
  <1> QED BY <1>4 DEF f, n, S, p

LEMMA OneInTurnIs ==
  ASSUME NEW x
  PROVE  LET p == SessionsPart!InTurn(<<x>>)
         IN  /\ p \in Seq([arm : {x}, rep : 1..SessionReps]) /\ Len(p) = SessionReps
             /\ \A i \in 1..SessionReps : p[i] = [arm |-> x, rep |-> i]
PROOF
  <1> DEFINE p == SessionsPart!InTurn(<<x>>)
             f(i) == [arm |-> x, rep |-> i]
             S == [arm : {x}, rep : 1..SessionReps]
  <1>1. SessionReps \in Nat \ {0} /\ SessionReps * 1 = SessionReps
    BY HarnessAssumption
  <1>2. ASSUME NEW i \in 1..SessionReps
        PROVE  /\ [arm |-> <<x>>[((i - 1) % 1) + 1], rep |-> ((i - 1) \div 1) + 1] = f(i)
               /\ f(i) \in S
    <2>1. (i - 1) % 1 = 0 /\ (i - 1) \div 1 = i - 1
      OBVIOUS
    <2> QED BY <2>1
  <1>3. p = [i \in 1..SessionReps |-> [arm |-> <<x>>[((i - 1) % 1) + 1], rep |-> ((i - 1) \div 1) + 1]]
    BY <1>1 DEF SessionsPart!InTurn
  <1>4. p = [i \in 1..SessionReps |-> f(i)]
    BY <1>2, <1>3
  <1> HIDE DEF f, S, p
  <1>5. p \in Seq(S) /\ Len(p) = SessionReps /\ \A i \in 1..SessionReps : p[i] = f(i)
    BY <1>1, <1>2, <1>4
  <1> QED BY <1>5 DEF f, S, p

(* Arm by arm: the first SessionReps places are the first arm's.              *)
LEMMA ByReps ==
  ASSUME NEW i \in 1..(2 * SessionReps)
  PROVE  /\ i <= SessionReps => (i - 1) \div SessionReps = 0 /\ (i - 1) % SessionReps = i - 1
         /\ i > SessionReps => /\ (i - 1) \div SessionReps = 1
                               /\ (i - 1) % SessionReps = i - 1 - SessionReps
PROOF
  <1> DEFINE n == SessionReps
  <1>1. n \in Nat \ {0}
    BY HarnessAssumption
  <1> HIDE DEF n
  <1>2. ASSUME i <= n PROVE (i - 1) \div n = 0 /\ (i - 1) % n = i - 1
    BY <1>1, <1>2
  <1>3. ASSUME i > n PROVE (i - 1) \div n = 1 /\ (i - 1) % n = i - 1 - n
    BY <1>1, <1>3 DEF n
  <1> QED BY <1>1, <1>2, <1>3 DEF n
(* In two arms' order: SessionReps of the first, then of the second.          *)
LEMMA ArmByArmIs ==
  LET p == SessionsPart!ArmByArm(<<"a", "b">>)
  IN  /\ p \in Seq([arm : {"a", "b"}, rep : 1..SessionReps]) /\ Len(p) = 2 * SessionReps
      /\ \A i \in 1..SessionReps :
            /\ p[i] = [arm |-> "a", rep |-> i]
            /\ p[i + SessionReps] = [arm |-> "b", rep |-> i]
PROOF
  <1> DEFINE p == SessionsPart!ArmByArm(<<"a", "b">>)
             n == 2 * SessionReps
             f(i) == [arm |-> <<"a", "b">>[((i - 1) \div SessionReps) + 1],
                      rep |-> ((i - 1) % SessionReps) + 1]
             S == [arm : {"a", "b"}, rep : 1..SessionReps]
  <1>1. SessionReps \in Nat \ {0} /\ n \in Nat /\ SessionReps * 2 = n
    BY HarnessAssumption
  <1>2. p = [i \in 1..n |-> f(i)]
    BY <1>1 DEF SessionsPart!ArmByArm
  <1>3. \A i \in 1..SessionReps :
          f(i) = [arm |-> "a", rep |-> i] /\ f(i + SessionReps) = [arm |-> "b", rep |-> i]
    <2> TAKE i \in 1..SessionReps
    <2>1. i \in 1..n /\ i + SessionReps \in 1..n
      BY <1>1
    <2>2. (i - 1) \div SessionReps = 0 /\ (i - 1) % SessionReps = i - 1
      BY <2>1, ByReps
    <2> DEFINE m == i + SessionReps
    <2>3. m \in 1..n /\ m > SessionReps /\ m - 1 - SessionReps = i - 1
      BY <1>1, <2>1
    <2> HIDE DEF m
    <2>6. (m - 1) \div SessionReps = 1 /\ (m - 1) % SessionReps = i - 1
      BY <2>3, ByReps
    <2>7. f(m) = [arm |-> "b", rep |-> i]
      BY <2>6
    <2>4. f(i) = [arm |-> "a", rep |-> i]
      BY <2>2
    <2>5. f(i + SessionReps) = [arm |-> "b", rep |-> i]
      BY <2>7 DEF m
    <2> QED BY <2>4, <2>5
  <1>4. ASSUME NEW i \in 1..n PROVE f(i) \in S
    <2>1. CASE i <= SessionReps
      <3>1. i \in 1..SessionReps
        BY <2>1
      <3>2. f(i) = [arm |-> "a", rep |-> i]
        BY <1>3, <3>1
      <3> QED BY <3>1, <3>2
    <2>2. CASE i > SessionReps
      <3>1. PICK k \in 1..SessionReps : i = k + SessionReps
        <4>1. i - SessionReps \in 1..SessionReps /\ i = (i - SessionReps) + SessionReps
          BY <1>1, <2>2
        <4> QED BY <4>1
      <3>2. f(i) = [arm |-> "b", rep |-> k]
        BY <1>3, <3>1
      <3> QED BY <3>2
    <2>3. i <= SessionReps \/ i > SessionReps
      BY <1>1
    <2> QED BY <2>1, <2>2, <2>3
  <1> HIDE DEF f, n, S, p
  <1>5. p \in Seq(S) /\ Len(p) = n /\ \A i \in 1..n : p[i] = f(i)
    BY <1>1, <1>2, <1>4
  <1>6. \A i \in 1..SessionReps : i \in 1..n /\ i + SessionReps \in 1..n
    BY <1>1 DEF n
  <1>7. \A i \in 1..SessionReps : p[i] = f(i) /\ p[i + SessionReps] = f(i + SessionReps)
    BY <1>5, <1>6
  <1>8. \A i \in 1..SessionReps :
          p[i] = [arm |-> "a", rep |-> i] /\ p[i + SessionReps] = [arm |-> "b", rep |-> i]
    BY <1>3, <1>7
  <1> QED BY <1>5, <1>8 DEF n, S, p

(* Every arm of A has its SessionReps rows somewhere in the sessions q.        *)
Covers(q, A) ==
    \A a \in A, k \in 1..SessionReps :
        \E i \in DOMAIN q : \E j \in DOMAIN q[i].runs : q[i].runs[j] = [arm |-> a, rep |-> k]

(* Each of two arms has its SessionReps sessions, of one row each.            *)
LEMMA AlonePlans ==
  ASSUME NEW d \in SessionsPart!Drivers, d # "w9",
         NEW p \in Seq([arm : {"a", "b"}, rep : 1..SessionReps]), Len(p) = 2 * SessionReps,
         \A a \in {"a", "b"}, k \in 1..SessionReps :
            \E i \in DOMAIN p : p[i] = [arm |-> a, rep |-> k]
  PROVE  LET q == SessionsPart!Alone(p, d)
         IN  /\ q \in Seq(SessionsPart!SessionSet(d)) /\ Len(q) = 2 * SessionReps
             /\ Covers(q, {"a", "b"})
             /\ \A i \in DOMAIN p : q[i].config = p[i].arm
PROOF
  <1> DEFINE q == SessionsPart!Alone(p, d)
             f(i) == [config |-> SessionsPart!ConfigOf(d, p[i].arm), runs |-> <<p[i]>>]
             S == SessionsPart!SessionSet(d)
             R == [arm : {"a", "b"}, rep : 1..SessionReps]
  <1>1. q = [i \in DOMAIN p |-> f(i)] /\ DOMAIN p = 1..Len(p) /\ Len(p) \in Nat
    BY DEF SessionsPart!Alone
  <1>2. \A i \in DOMAIN p : f(i) = [config |-> p[i].arm, runs |-> <<p[i]>>]
    BY DEF SessionsPart!ConfigOf
  <1>3. SessionsPart!ToSet(SessionsPart!Arms(d)) = {"a", "b"}
    BY ArmsAre
  <1>4. ASSUME NEW i \in DOMAIN p PROVE f(i) \in S
    <2>1. p[i] \in R /\ p[i].arm \in {"a", "b"}
      <3> HIDE DEF R, q
      <3>1. p[i] \in R
        BY <1>1, ElementOfSeq DEF R
      <3> QED BY <3>1 DEF R
    <2>2. <<p[i]>> \in Seq(R) /\ DOMAIN <<p[i]>> = {1} /\ <<p[i]>>[1] = p[i]
      BY <2>1
    <2>3. SessionsPart!ConfigOf(d, p[i].arm) = p[i].arm
      BY DEF SessionsPart!ConfigOf
    <2> QED BY <1>2, <1>3, <2>1, <2>2, <2>3 DEF SessionsPart!SessionSet, SessionsPart!Configs
  <1> HIDE DEF f, q, S
  <1>5. q \in Seq(S) /\ Len(q) = Len(p) /\ \A i \in DOMAIN p : q[i] = f(i)
    BY <1>1, <1>4
  <1>6. \A i \in DOMAIN p : i \in DOMAIN q /\ q[i].config = p[i].arm /\ 1 \in DOMAIN q[i].runs
                            /\ q[i].runs[1] = p[i]
    BY <1>1, <1>2, <1>5
  <1>7. \A a \in {"a", "b"}, k \in 1..SessionReps :
          \E i \in DOMAIN q : \E j \in DOMAIN q[i].runs : q[i].runs[j] = [arm |-> a, rep |-> k]
    <2> TAKE a \in {"a", "b"}, k \in 1..SessionReps
    <2>1. PICK i \in DOMAIN p : p[i] = [arm |-> a, rep |-> k]
      OBVIOUS
    <2>2. i \in DOMAIN q /\ 1 \in DOMAIN q[i].runs /\ q[i].runs[1] = [arm |-> a, rep |-> k]
      BY <1>6, <2>1
    <2> QED BY <2>2
  <1> QED BY <1>5, <1>6, <1>7 DEF q, S, Covers
(* What every driver is to do: sessions of its own, every arm --reps times.   *)
PlanIsWhole(d) ==
    LET q == SessionsPart!Plan(d)
    IN  /\ q \in Seq(SessionsPart!SessionSet(d)) /\ q # <<>>
        /\ Covers(q, SessionsPart!ToSet(SessionsPart!Arms(d)))
        /\ d = "probe" => Head(q).config = "a"

LEMMA PlanOfTwo ==
  ASSUME NEW d \in SessionsPart!Drivers, d # "w9" PROVE PlanIsWhole(d)
PROOF
  <1>0. SessionReps \in Nat \ {0} /\ 1 \in 1..(2 * SessionReps)
    BY HarnessAssumption
  <1>1. ASSUME NEW p, SessionsPart!Plan(d) = SessionsPart!Alone(p, d),
               p \in Seq([arm : {"a", "b"}, rep : 1..SessionReps]), Len(p) = 2 * SessionReps,
               \A a \in {"a", "b"}, k \in 1..SessionReps :
                  \E i \in DOMAIN p : p[i] = [arm |-> a, rep |-> k],
               d = "probe" => p[1].arm = "a"
        PROVE  PlanIsWhole(d)
    <2> DEFINE q == SessionsPart!Alone(p, d)
               S == SessionsPart!SessionSet(d)
    <2>1. /\ q \in Seq(S) /\ Len(q) = 2 * SessionReps
          /\ Covers(q, {"a", "b"})
          /\ \A i \in DOMAIN p : q[i].config = p[i].arm
      BY <1>1, AlonePlans
    <2>2. SessionsPart!ToSet(SessionsPart!Arms(d)) = {"a", "b"} /\ SessionsPart!Plan(d) = q
      BY <1>1, ArmsAre
    <2>3. 1 \in DOMAIN p
      BY <1>0, <1>1
    <2> HIDE DEF q, S
    <2>4. q # <<>> /\ Head(q) = q[1]
      BY <1>0, <2>1
    <2> QED BY <1>1, <2>1, <2>2, <2>3, <2>4 DEF PlanIsWhole, S
  <1>2. CASE d \in {"commit", "build"}
    <2> DEFINE p == SessionsPart!Rotated(<<"a", "b">>)
               R == [arm : {"a", "b"}, rep : 1..SessionReps]
    <2>1. SessionsPart!Plan(d) = SessionsPart!Alone(p, d)
      BY <1>2, ArmsAre DEF SessionsPart!Plan
    <2>2. /\ p \in Seq(R) /\ Len(p) = 2 * SessionReps
          /\ \A i \in 1..(2 * SessionReps) :
                p[i] = [arm |-> <<"a", "b">>[((i - 1 + (i - 1) \div 2) % 2) + 1],
                        rep |-> ((i - 1) \div 2) + 1]
      BY RotatedIs
    <2> HIDE DEF p, R
    <2>3. ASSUME NEW a \in {"a", "b"}, NEW k \in 1..SessionReps
          PROVE  \E i \in DOMAIN p : p[i] = [arm |-> a, rep |-> k]
      <3> DEFINE s == IF a = "a" THEN (k - 1) % 2 ELSE 1 - ((k - 1) % 2)
                 i == 2 * (k - 1) + s + 1
      <3>1. s \in {0, 1}
        OBVIOUS
      <3>2. i \in 1..(2 * SessionReps) /\ i - 1 = 2 * (k - 1) + s
        BY <1>0, <3>1
      <3>3. (i - 1) \div 2 = k - 1
        <4> HIDE DEF s
        <4> QED BY <3>1
      <3>4. ((i - 1 + (k - 1)) % 2) + 1 = IF a = "a" THEN 1 ELSE 2
        BY <1>0
      <3>5. <<"a", "b">>[((i - 1 + (k - 1)) % 2) + 1] = a
        <4> DEFINE x == ((i - 1 + (k - 1)) % 2) + 1
        <4>1. x = IF a = "a" THEN 1 ELSE 2
          BY <3>4
        <4> HIDE DEF x
        <4>2. <<"a", "b">>[x] = a
          BY <4>1
        <4> QED BY <4>2 DEF x
      <3> HIDE DEF i
      <3>6. p[i] = [arm |-> a, rep |-> k]
        <4>1. p[i] = [arm |-> <<"a", "b">>[((i - 1 + (i - 1) \div 2) % 2) + 1],
                      rep |-> ((i - 1) \div 2) + 1]
          BY <2>2, <3>2
        <4>2. p[i] = [arm |-> <<"a", "b">>[((i - 1 + (k - 1)) % 2) + 1], rep |-> (k - 1) + 1]
          BY <3>3, <4>1
        <4>3. (k - 1) + 1 = k
          OBVIOUS
        <4> QED BY <3>5, <4>2, <4>3
      <3>7. i \in DOMAIN p
        BY <2>2, <3>2
      <3> QED BY <3>6, <3>7
    <2>4. d # "probe"
      BY <1>2
    <2> QED BY <1>1, <2>1, <2>2, <2>3, <2>4 DEF R
  <1>3. CASE d \in {"image", "probe", "isa"}
    <2> DEFINE p == SessionsPart!InTurn(<<"a", "b">>)
               R == [arm : {"a", "b"}, rep : 1..SessionReps]
    <2>1. SessionsPart!Plan(d) = SessionsPart!Alone(p, d)
      BY <1>3, ArmsAre DEF SessionsPart!Plan
    <2>2. /\ p \in Seq(R) /\ Len(p) = 2 * SessionReps
          /\ \A i \in 1..(2 * SessionReps) :
                p[i] = [arm |-> <<"a", "b">>[((i - 1) % 2) + 1], rep |-> ((i - 1) \div 2) + 1]
      BY InTurnIs
    <2> HIDE DEF p, R
    <2>3. ASSUME NEW a \in {"a", "b"}, NEW k \in 1..SessionReps
          PROVE  \E i \in DOMAIN p : p[i] = [arm |-> a, rep |-> k]
      <3> DEFINE i == 2 * (k - 1) + (IF a = "a" THEN 1 ELSE 2)
      <3>1. i \in 1..(2 * SessionReps) /\ (i - 1) \div 2 = k - 1
        BY <1>0
      <3>2. ((i - 1) % 2) + 1 = IF a = "a" THEN 1 ELSE 2
        OBVIOUS
      <3> HIDE DEF i
      <3>3. p[i] = [arm |-> <<"a", "b">>[((i - 1) % 2) + 1], rep |-> ((i - 1) \div 2) + 1]
        BY <2>2, <3>1
      <3>4. <<"a", "b">>[((i - 1) % 2) + 1] = a
        <4> DEFINE x == ((i - 1) % 2) + 1
        <4>1. x = IF a = "a" THEN 1 ELSE 2
          BY <3>2
        <4> HIDE DEF x
        <4>2. <<"a", "b">>[x] = a
          BY <4>1
        <4> QED BY <4>2 DEF x
      <3>5. ((i - 1) \div 2) + 1 = k
        BY <3>1
      <3>6. i \in DOMAIN p
        BY <2>2, <3>1
      <3> QED BY <3>3, <3>4, <3>5, <3>6
    <2>4. p[1].arm = "a"
      BY <1>0, <2>2
    <2> QED BY <1>1, <2>1, <2>2, <2>3, <2>4 DEF R
  <1>4. CASE d = "order"
    <2> DEFINE p == SessionsPart!ArmByArm(<<"a", "b">>)
               R == [arm : {"a", "b"}, rep : 1..SessionReps]
    <2>1. SessionsPart!Plan(d) = SessionsPart!Alone(p, d)
      BY <1>4, ArmsAre DEF SessionsPart!Plan
    <2>2. /\ p \in Seq(R) /\ Len(p) = 2 * SessionReps
          /\ \A i \in 1..SessionReps :
                /\ p[i] = [arm |-> "a", rep |-> i]
                /\ p[i + SessionReps] = [arm |-> "b", rep |-> i]
      BY ArmByArmIs
    <2> HIDE DEF p, R
    <2>3. \A k \in 1..SessionReps : k \in DOMAIN p /\ k + SessionReps \in DOMAIN p
      BY <1>0, <2>2
    <2>4. \A a \in {"a", "b"}, k \in 1..SessionReps :
            \E i \in DOMAIN p : p[i] = [arm |-> a, rep |-> k]
      BY <2>2, <2>3
    <2>5. d # "probe"
      BY <1>4
    <2> QED BY <1>1, <2>1, <2>2, <2>4, <2>5 DEF R
  <1> QED BY <1>2, <1>3, <1>4 DEF SessionsPart!Drivers
LEMMA PlanOfW9 == PlanIsWhole("w9")
PROOF
  <1> DEFINE A == {"stream7", "stream4", "batch8"}
             R == [arm : A, rep : 1..SessionReps]
             s == SessionsPart!Sharing("7")
             t == SessionsPart!Sharing("4")
             x == [config |-> "7", runs |-> s]
             y == [config |-> "4", runs |-> t]
  <1>0. SessionReps \in Nat \ {0}
    BY HarnessAssumption
  <1>1. "w9" \in SessionsPart!Drivers /\ SessionsPart!Plan("w9") = <<x, y>>
    BY DEF SessionsPart!Drivers, SessionsPart!Plan
  <1>2. SessionsPart!ToSet(SessionsPart!Arms("w9")) = A
    BY <1>1, ArmsAre
  <1>3. /\ s \in Seq([arm : {"stream7", "batch8"}, rep : 1..SessionReps])
        /\ Len(s) = 2 * SessionReps
        /\ \A i \in 1..(2 * SessionReps) :
              s[i] = [arm |-> <<"stream7", "batch8">>[((i - 1) % 2) + 1], rep |-> ((i - 1) \div 2) + 1]
    BY InTurnIs DEF SessionsPart!Sharing
  <1>4. /\ t \in Seq([arm : {"stream4"}, rep : 1..SessionReps]) /\ Len(t) = SessionReps
        /\ \A i \in 1..SessionReps : t[i] = [arm |-> "stream4", rep |-> i]
    BY OneInTurnIs DEF SessionsPart!Sharing
  <1> HIDE DEF s, t
  <1>5. /\ s \in Seq(R) /\ t \in Seq(R)
        /\ \A j \in DOMAIN s : SessionsPart!ConfigOf("w9", s[j].arm) = "7"
        /\ \A j \in DOMAIN t : SessionsPart!ConfigOf("w9", t[j].arm) = "4"
    <2>1. \A j \in DOMAIN s : s[j] \in [arm : {"stream7", "batch8"}, rep : 1..SessionReps]
      BY <1>3, ElementOfSeq
    <2>2. \A j \in DOMAIN t : t[j] \in [arm : {"stream4"}, rep : 1..SessionReps]
      BY <1>4, ElementOfSeq
    <2>3. /\ [arm : {"stream7", "batch8"}, rep : 1..SessionReps] \subseteq R
          /\ [arm : {"stream4"}, rep : 1..SessionReps] \subseteq R
      OBVIOUS
    <2> HIDE DEF R
    <2>4. s \in Seq(R) /\ t \in Seq(R)
      BY <1>3, <1>4, <2>3, SeqMonotonic
    <2> QED BY <2>1, <2>2, <2>4 DEF SessionsPart!ConfigOf
  <1>6. x \in SessionsPart!SessionSet("w9") /\ y \in SessionsPart!SessionSet("w9")
    BY <1>2, <1>5 DEF SessionsPart!SessionSet, SessionsPart!Configs
  <1>7. <<x, y>> \in Seq(SessionsPart!SessionSet("w9")) /\ <<x, y>> # <<>>
    BY <1>6
  <1>8. ASSUME NEW a \in {"stream7", "batch8"}, NEW k \in 1..SessionReps
        PROVE  \E j \in DOMAIN s : s[j] = [arm |-> a, rep |-> k]
    <2> DEFINE i == 2 * (k - 1) + (IF a = "stream7" THEN 1 ELSE 2)
    <2>1. i \in 1..(2 * SessionReps) /\ (i - 1) \div 2 = k - 1
      BY <1>0
    <2>2. ((i - 1) % 2) + 1 = IF a = "stream7" THEN 1 ELSE 2
      OBVIOUS
    <2> HIDE DEF i
    <2>3. s[i] = [arm |-> <<"stream7", "batch8">>[((i - 1) % 2) + 1], rep |-> ((i - 1) \div 2) + 1]
      BY <1>3, <2>1
    <2>4. <<"stream7", "batch8">>[((i - 1) % 2) + 1] = a
      <3> DEFINE z == ((i - 1) % 2) + 1
      <3>1. z = IF a = "stream7" THEN 1 ELSE 2
        BY <2>2
      <3> HIDE DEF z
      <3>2. <<"stream7", "batch8">>[z] = a
        BY <3>1
      <3> QED BY <3>2 DEF z
    <2>5. ((i - 1) \div 2) + 1 = k /\ i \in DOMAIN s
      BY <1>3, <2>1
    <2> QED BY <2>3, <2>4, <2>5
  <1>9. \A k \in 1..SessionReps : \E j \in DOMAIN t : t[j] = [arm |-> "stream4", rep |-> k]
    BY <1>4
  <1>10. Covers(<<x, y>>, A)
    <2> SUFFICES ASSUME NEW a \in A, NEW k \in 1..SessionReps
                 PROVE  \E i \in DOMAIN <<x, y>> : \E j \in DOMAIN <<x, y>>[i].runs :
                           <<x, y>>[i].runs[j] = [arm |-> a, rep |-> k]
      BY DEF Covers
    <2>1. CASE a = "stream4"
      <3>1. PICK j \in DOMAIN t : t[j] = [arm |-> a, rep |-> k]
        BY <1>9, <2>1
      <3>2. 2 \in DOMAIN <<x, y>> /\ <<x, y>>[2].runs = t
        OBVIOUS
      <3> QED BY <3>1, <3>2, Zenon
    <2>2. CASE a # "stream4"
      <3>1. PICK j \in DOMAIN s : s[j] = [arm |-> a, rep |-> k]
        BY <1>8, <2>2
      <3>2. 1 \in DOMAIN <<x, y>> /\ <<x, y>>[1].runs = s
        OBVIOUS
      <3> QED BY <3>1, <3>2, Zenon
    <2> QED BY <2>1, <2>2
  <1> QED BY <1>1, <1>2, <1>7, <1>10 DEF PlanIsWhole

LEMMA PlansAreWhole == \A d \in SessionsPart!Drivers : PlanIsWhole(d)
PROOF
  BY PlanOfTwo, PlanOfW9

-----------------------------------------------------------------------------
LEMMA SessionsStart == SessionsPart!SessionsInit => SessionsPart!SessionsInv
PROOF
  <1> SUFFICES ASSUME SessionsPart!SessionsInit PROVE SessionsPart!SessionsInv
    OBVIOUS
  <1>1. /\ r1 = "none" /\ r3 = <<>> /\ r4 = {} /\ r6 = "idle" /\ r8 = {} /\ r9 = "unset"
        /\ r10 = 0 /\ r11 = 0
    BY DEF SessionsPart!SessionsInit
  <1>2. SessionsPart!PlanHeld
    BY <1>1 DEF SessionsPart!PlanHeld, SessionsPart!Untroubled, SessionsPart!Serving
  <1>3. SessionsPart!EnginesHeld
    BY <1>1 DEF SessionsPart!EnginesHeld, SessionsPart!Strangers, SessionsPart!Mine,
                SessionsPart!Serving
  <1>4. SessionsPart!DataHeld
    BY <1>1 DEF SessionsPart!DataHeld
  <1>5. SessionsPart!MeasuredHeld
    BY <1>1 DEF SessionsPart!MeasuredHeld
  <1>6. SessionsPart!CoverHeld
    BY <1>1 DEF SessionsPart!CoverHeld
  <1> QED BY <1>2, <1>3, <1>4, <1>5, <1>6 DEF SessionsPart!SessionsInv

(* The session under way and what is left after it.                           *)
LEMMA SessionIs ==
  ASSUME SessionsPart!PlanHeld, r6 \in {"start", "upload", "load", "rows"}
  PROVE  /\ r1 \in SessionsPart!Drivers
         /\ r3 \in Seq(SessionsPart!SessionSet(r1)) /\ Len(r3) \in Nat \ {0}
         /\ SessionsPart!Session = r3[1] /\ 1 \in DOMAIN r3
         /\ SessionsPart!Session \in SessionsPart!SessionSet(r1)
         /\ Tail(r3) \in Seq(SessionsPart!SessionSet(r1)) /\ Len(Tail(r3)) = Len(r3) - 1
         /\ \A i \in DOMAIN Tail(r3) : i + 1 \in DOMAIN r3 /\ Tail(r3)[i] = r3[i + 1]
PROOF
  <1> DEFINE S == SessionsPart!SessionSet(r1)
  <1>1. r1 \in SessionsPart!Drivers /\ r3 \in Seq(S) /\ r3 # <<>>
    BY DEF SessionsPart!PlanHeld, SessionsPart!Serving
  <1> HIDE DEF S
  <1>2. Len(r3) \in Nat \ {0} /\ Head(r3) = r3[1] /\ 1 \in DOMAIN r3 /\ r3[1] \in S
    BY <1>1
  <1>3. Tail(r3) \in Seq(S) /\ Len(Tail(r3)) = Len(r3) - 1
    BY <1>1
  <1>4. \A i \in DOMAIN Tail(r3) : i + 1 \in DOMAIN r3 /\ Tail(r3)[i] = r3[i + 1]
    BY <1>1
  <1> QED BY <1>1, <1>2, <1>3, <1>4 DEF S, SessionsPart!Session

(* A session's rows are of its config.                                        *)
LEMMA SessionRuns ==
  ASSUME NEW d, NEW s \in SessionsPart!SessionSet(d)
  PROVE  s.runs \in Seq(SessionsPart!Runs(d, s.config))
PROOF
  <1> DEFINE R == [arm : SessionsPart!ToSet(SessionsPart!Arms(d)), rep : 1..SessionReps]
             T == SessionsPart!Runs(d, s.config)
  <1>1. /\ s.runs \in Seq(R)
        /\ \A j \in DOMAIN s.runs : SessionsPart!ConfigOf(d, s.runs[j].arm) = s.config
    BY DEF SessionsPart!SessionSet
  <1>2. \A j \in 1..Len(s.runs) : s.runs[j] \in R
    <2> HIDE DEF R
    <2> QED BY <1>1, ElementOfSeq
  <1>3. Len(s.runs) \in Nat /\ s.runs \in [1..Len(s.runs) -> R] /\ DOMAIN s.runs = 1..Len(s.runs)
    <2> HIDE DEF R
    <2> QED BY <1>1, LenProperties
  <1>4. \A j \in 1..Len(s.runs) : s.runs[j] \in T
    BY <1>1, <1>2, <1>3 DEF SessionsPart!Runs
  <1> HIDE DEF R, T
  <1>5. s.runs \in [1..Len(s.runs) -> T]
    BY <1>3, <1>4
  <1> QED BY <1>3, <1>5, SeqDef DEF T

(* What an arm given up leaves.                                               *)
LEMMA RestIs ==
  ASSUME NEW S, r3 \in Seq(S), NEW arm
  PROVE  SessionsPart!Rest(arm) \in Seq(S) /\ Len(SessionsPart!Rest(arm)) <= Len(r3)
PROOF
  <1> DEFINE C == {i \in DOMAIN r3 : r3[i].config = arm}
             k == SessionsPart!Cardinality(C)
  <1>1. SessionsPart!Cardinality(C) = Cardinality(C)
    BY DEF SessionsPart!Cardinality, Cardinality
  <1>2. Len(r3) \in Nat /\ DOMAIN r3 = 1..Len(r3)
    BY LenProperties
  <1>3. IsFiniteSet(C)
    <2>1. IsFiniteSet(1..Len(r3)) /\ C \subseteq 1..Len(r3)
      BY <1>2, FS_Interval
    <2> HIDE DEF C
    <2> QED BY <2>1, FS_Subset
  <1>4. k \in Nat
    BY <1>1, <1>3, FS_CardinalityType
  <1> HIDE DEF k
  <1>5. SubSeq(r3, 1 + k, Len(r3)) \in Seq(S) /\ Len(SubSeq(r3, 1 + k, Len(r3))) <= Len(r3)
    BY <1>2, <1>4
  <1> QED BY <1>5 DEF SessionsPart!Rest, k
LEMMA StepChoose == SessionsPart!SessionsInv /\ SessionsPart!Choose => SessionsPart!SessionsInv'
PROOF
  <1> SUFFICES ASSUME SessionsPart!SessionsInv, SessionsPart!Choose PROVE SessionsPart!SessionsInv'
    OBVIOUS
  <1>1. /\ r6 = "idle" /\ r8 = {} /\ r9 = "unset" /\ r10 = 0 /\ r11 = 0
        /\ r1' \in SessionsPart!Drivers /\ r3' = SessionsPart!Plan(r1') /\ r6' = "start"
        /\ r8' = r8 /\ r9' = r9 /\ r10' = r10 /\ r11' = r11
    BY DEF SessionsPart!SessionsInv, SessionsPart!PlanHeld, SessionsPart!Untroubled,
           SessionsPart!Choose
  <1>2. /\ r4' \in {{}, {[of |-> "left", config |-> "old"]},
                    {[of |-> "stranger", config |-> "old"]}}
        /\ r1' \notin {"build", "probe", "isa"} =>
              r4' \in {{}, {[of |-> "left", config |-> "old"]}}
    BY DEF SessionsPart!Choose
  <1>3. PlanIsWhole(r1')
    BY <1>1, PlansAreWhole
  <1>4. SessionsPart!PlanHeld'
    <2>1. /\ r3' \in Seq(SessionsPart!SessionSet(r1')) /\ r3' # <<>>
          /\ Len(r3') <= Len(SessionsPart!Plan(r1'))
      BY <1>1, <1>3 DEF PlanIsWhole
    <2> QED BY <1>1, <2>1 DEF SessionsPart!PlanHeld, SessionsPart!Serving
  <1>5. SessionsPart!EnginesHeld'
    <2>1. SessionsPart!Mine' = {}
      BY <1>2 DEF SessionsPart!Mine
    <2>2. r1' \notin {"build", "probe", "isa"} => SessionsPart!Strangers' = {}
      BY <1>2 DEF SessionsPart!Strangers
    <2> QED BY <1>1, <2>1, <2>2 DEF SessionsPart!EnginesHeld, SessionsPart!Serving
  <1>6. SessionsPart!DataHeld'
    <2>1. SessionsPart!First'
      BY <1>1 DEF SessionsPart!First
    <2>2. r1' = "probe" => SessionsPart!Session'.config = "a"
      BY <1>1, <1>3 DEF PlanIsWhole, SessionsPart!Session
    <2> QED BY <1>1, <2>1, <2>2 DEF SessionsPart!DataHeld
  <1>7. SessionsPart!MeasuredHeld'
    BY <1>1 DEF SessionsPart!MeasuredHeld
  <1>8. SessionsPart!CoverHeld'
    <2> SUFFICES ASSUME NEW a \in SessionsPart!ToSet(SessionsPart!Arms(r1')), NEW k \in 1..SessionReps
                 PROVE  SessionsPart!Left(a, k)'
      BY <1>1 DEF SessionsPart!CoverHeld
    <2>1. PICK i \in DOMAIN r3' : \E j \in DOMAIN r3'[i].runs : r3'[i].runs[j] = [arm |-> a, rep |-> k]
      BY <1>1, <1>3 DEF PlanIsWhole, Covers
    <2> QED BY <1>1, <2>1 DEF SessionsPart!Left
  <1> QED BY <1>4, <1>5, <1>6, <1>7, <1>8 DEF SessionsPart!SessionsInv

(* An engine of this driver's comes up, and nothing answers beside it.        *)
LEMMA StepUp ==
  ASSUME SessionsPart!SessionsInv, r6 = "start", SessionsPart!Up({}),
         r7' = SessionsPart!Session.runs,
         UNCHANGED <<r1, r2, r3, r8, r10, r11>>
  PROVE  SessionsPart!SessionsInv'
PROOF
  <1>1. /\ r1' = r1 /\ r3' = r3 /\ r8' = r8 /\ r10' = r10 /\ r11' = r11
        /\ r4' = {[of |-> "mine", config |-> SessionsPart!Session.config]}
        /\ r5' = (IF SessionsPart!Reloads THEN r5 ELSE SessionsPart!Nothing)
        /\ r6' = (IF SessionsPart!Reloads THEN "load" ELSE "upload")
        /\ SessionsPart!Session' = SessionsPart!Session /\ SessionsPart!First' = SessionsPart!First
    BY DEF SessionsPart!Up, SessionsPart!Session, SessionsPart!First
  <1>2. /\ r1 \in SessionsPart!Drivers /\ SessionsPart!Session = r3[1] /\ 1 \in DOMAIN r3
        /\ SessionsPart!Session \in SessionsPart!SessionSet(r1)
    BY SessionIs DEF SessionsPart!SessionsInv
  <1>3. SessionsPart!PlanHeld'
    BY <1>1, <1>2, SessionRuns
       DEF SessionsPart!SessionsInv, SessionsPart!PlanHeld, SessionsPart!Serving
  <1>4. SessionsPart!EnginesHeld'
    <2>1. SessionsPart!Strangers' = {}
      BY <1>1 DEF SessionsPart!Strangers
    <2> QED BY <1>1, <2>1 DEF SessionsPart!EnginesHeld, SessionsPart!Serving
  <1>5. SessionsPart!DataHeld'
    BY <1>1 DEF SessionsPart!SessionsInv, SessionsPart!DataHeld, SessionsPart!Reloads
  <1>6. SessionsPart!MeasuredHeld'
    BY <1>1 DEF SessionsPart!SessionsInv, SessionsPart!MeasuredHeld, SessionsPart!Row
  <1>7. SessionsPart!CoverHeld'
    <2> SUFFICES ASSUME SessionsPart!Untroubled',
                        NEW a \in SessionsPart!ToSet(SessionsPart!Arms(r1')), NEW k \in 1..SessionReps
                 PROVE  SessionsPart!Row(a, k)' \in r8' \/ SessionsPart!Left(a, k)'
      BY <1>1 DEF SessionsPart!CoverHeld
    <2>1. SessionsPart!Row(a, k)' = SessionsPart!Row(a, k)
      BY <1>1 DEF SessionsPart!Row
    <2>2. SessionsPart!Row(a, k) \in r8 \/ SessionsPart!Left(a, k)
      BY <1>1 DEF SessionsPart!SessionsInv, SessionsPart!CoverHeld, SessionsPart!Untroubled
    <2>3. ASSUME SessionsPart!Left(a, k) PROVE SessionsPart!Left(a, k)'
      <3>1. PICK i \in DOMAIN r3 : \E j \in DOMAIN r3[i].runs : r3[i].runs[j] = [arm |-> a, rep |-> k]
        BY <2>3 DEF SessionsPart!Left, SessionsPart!Serving
      <3>2. CASE i = 1
        BY <1>1, <1>2, <3>1, <3>2 DEF SessionsPart!Left, SessionsPart!Serving
      <3>3. CASE i # 1
        <4>1. i > 1
          <5>1. Len(r3) \in Nat /\ DOMAIN r3 = 1..Len(r3)
            BY LenProperties DEF SessionsPart!SessionsInv, SessionsPart!PlanHeld
          <5> QED BY <3>3, <5>1
        <4> QED BY <1>1, <3>1, <4>1 DEF SessionsPart!Left
      <3> QED BY <3>2, <3>3
    <2> QED BY <1>1, <2>1, <2>2, <2>3
  <1> QED BY <1>3, <1>4, <1>5, <1>6, <1>7 DEF SessionsPart!SessionsInv
(* A session or its arm given up: what it started is gone, and the driver     *)
(* either ends in failure or goes on with a trouble to its name.              *)
LEMMA StepGivenUp ==
  ASSUME SessionsPart!SessionsInv, r6 \in {"start", "upload"}, SessionsPart!GivenUp,
         r11' \in Nat, r1 = "order" => r11' # 0, UNCHANGED <<r1, r2, r8>>,
         SessionsPart!Strangers' \subseteq SessionsPart!Strangers,
         r1 \notin {"image", "probe"} => SessionsPart!Mine' = {}
  PROVE  SessionsPart!SessionsInv'
PROOF
  <1>1. /\ r1 \in SessionsPart!Drivers /\ r3 \in Seq(SessionsPart!SessionSet(r1))
        /\ Len(r3) \in Nat /\ Len(r3) <= Len(SessionsPart!Plan(r1))
        /\ Len(SessionsPart!Plan(r1)) \in Nat
    BY SessionIs, PlansAreWhole
       DEF SessionsPart!SessionsInv, SessionsPart!PlanHeld, PlanIsWhole
  <1>2. \/ /\ r1 = "order" /\ r6' \in {"start", "finally"}
           /\ r6' = "start" => r3' # <<>>
           /\ r3' = SessionsPart!Rest(SessionsPart!Session.config)
        \/ r3' = r3 /\ r6' = "finally" /\ r10' = 1
    BY DEF SessionsPart!GivenUp
  <1>3. r3' \in Seq(SessionsPart!SessionSet(r1)) /\ Len(r3') <= Len(SessionsPart!Plan(r1))
    <2>1. /\ SessionsPart!Rest(SessionsPart!Session.config) \in Seq(SessionsPart!SessionSet(r1))
          /\ Len(SessionsPart!Rest(SessionsPart!Session.config)) <= Len(r3)
      BY <1>1, RestIs
    <2> QED BY <1>1, <1>2, <2>1
  <1>4. SessionsPart!PlanHeld'
    BY <1>1, <1>2, <1>3 DEF SessionsPart!PlanHeld, SessionsPart!Serving
  <1>5. SessionsPart!EnginesHeld'
    BY <1>2 DEF SessionsPart!EnginesHeld, SessionsPart!Serving, SessionsPart!SessionsInv
  <1>6. SessionsPart!DataHeld'
    BY <1>2 DEF SessionsPart!DataHeld
  <1>7. SessionsPart!MeasuredHeld'
    BY DEF SessionsPart!SessionsInv, SessionsPart!MeasuredHeld, SessionsPart!Row
  <1>8. SessionsPart!CoverHeld'
    BY <1>2 DEF SessionsPart!CoverHeld, SessionsPart!Untroubled
  <1> QED BY <1>4, <1>5, <1>6, <1>7, <1>8 DEF SessionsPart!SessionsInv

LEMMA StepStart == SessionsPart!SessionsInv /\ SessionsPart!Start => SessionsPart!SessionsInv'
PROOF
  <1> SUFFICES ASSUME SessionsPart!SessionsInv, SessionsPart!Start PROVE SessionsPart!SessionsInv'
    OBVIOUS
  <1>1. r6 = "start" /\ r7' = SessionsPart!Session.runs /\ UNCHANGED <<r1, r2, r8>>
    BY DEF SessionsPart!Start
  <1>2. PICK left \in SessionsPart!Survivors :
           \/ left = {} /\ SessionsPart!Up(left) /\ UNCHANGED <<r3, r10, r11>>
           \/ /\ IF left = {} THEN SessionsPart!Trouble ELSE UNCHANGED r11
              /\ r4' = left /\ SessionsPart!GivenUp /\ UNCHANGED r5
    BY DEF SessionsPart!Start
  <1>3. left \subseteq SessionsPart!Strangers
    BY DEF SessionsPart!Survivors
  <1>4. CASE left = {} /\ SessionsPart!Up(left) /\ UNCHANGED <<r3, r10, r11>>
    BY <1>1, <1>4, StepUp
  <1>5. CASE /\ IF left = {} THEN SessionsPart!Trouble ELSE UNCHANGED r11
             /\ r4' = left /\ SessionsPart!GivenUp
    <2>1. r11 \in Nat
      BY DEF SessionsPart!SessionsInv, SessionsPart!PlanHeld
    <2>2. r1 = "order" => left = {}
      BY <1>3 DEF SessionsPart!SessionsInv, SessionsPart!EnginesHeld
    <2>3. r11' \in Nat /\ (r1 = "order" => r11' # 0)
      BY <1>5, <2>1, <2>2 DEF SessionsPart!Trouble
    <2>4. SessionsPart!Strangers' \subseteq SessionsPart!Strangers /\ SessionsPart!Mine' = {}
      BY <1>3, <1>5 DEF SessionsPart!Strangers, SessionsPart!Mine
    <2> QED BY <1>1, <1>5, <2>3, <2>4, StepGivenUp
  <1> QED BY <1>2, <1>4, <1>5

(* What a session's stop leaves.                                              *)
LEMMA SessionStopIs ==
  ASSUME r4' = SessionsPart!SessionStop
  PROVE  /\ SessionsPart!Strangers' = SessionsPart!Strangers
         /\ r1 \notin {"image", "probe"} => SessionsPart!Mine' = {}
PROOF
  BY DEF SessionsPart!SessionStop, SessionsPart!StopMine, SessionsPart!Strangers, SessionsPart!Mine

LEMMA StepUpload == SessionsPart!SessionsInv /\ SessionsPart!Upload => SessionsPart!SessionsInv'
PROOF
  <1> SUFFICES ASSUME SessionsPart!SessionsInv, SessionsPart!Upload PROVE SessionsPart!SessionsInv'
    OBVIOUS
  <1>1. r6 = "upload" /\ UNCHANGED <<r1, r2, r7, r8, r9>>
    BY DEF SessionsPart!Upload
  <1>2. CASE /\ r5' = [config |-> SessionsPart!Session.config, whole |-> TRUE] /\ r6' = "rows"
             /\ UNCHANGED <<r4, r3, r10, r11>>
    <2>1. /\ SessionsPart!Session' = SessionsPart!Session /\ SessionsPart!First' = SessionsPart!First
          /\ SessionsPart!Strangers' = SessionsPart!Strangers /\ SessionsPart!Mine' = SessionsPart!Mine
      BY <1>1, <1>2 DEF SessionsPart!Session, SessionsPart!First, SessionsPart!Strangers,
                        SessionsPart!Mine
    <2>2. SessionsPart!PlanHeld'
      BY <1>1, <1>2, <2>1 DEF SessionsPart!SessionsInv, SessionsPart!PlanHeld, SessionsPart!Serving
    <2>3. SessionsPart!EnginesHeld'
      BY <1>1, <1>2, <2>1 DEF SessionsPart!SessionsInv, SessionsPart!EnginesHeld,
                              SessionsPart!Serving
    <2>4. SessionsPart!DataHeld'
      BY <1>1, <1>2, <2>1 DEF SessionsPart!SessionsInv, SessionsPart!DataHeld
    <2>5. SessionsPart!MeasuredHeld'
      BY <1>1 DEF SessionsPart!SessionsInv, SessionsPart!MeasuredHeld, SessionsPart!Row
    <2>6. SessionsPart!CoverHeld'
      BY <1>1, <1>2 DEF SessionsPart!SessionsInv, SessionsPart!CoverHeld, SessionsPart!Untroubled,
                        SessionsPart!Row, SessionsPart!Left, SessionsPart!Serving
    <2> QED BY <2>2, <2>3, <2>4, <2>5, <2>6 DEF SessionsPart!SessionsInv
  <1>3. CASE /\ IF SessionsPart!Mine = {} THEN UNCHANGED r11 ELSE SessionsPart!Trouble
             /\ r4' = SessionsPart!SessionStop /\ SessionsPart!GivenUp
    <2>1. r11 \in Nat
      BY DEF SessionsPart!SessionsInv, SessionsPart!PlanHeld
    <2>2. SessionsPart!Mine = {} => r11 # 0
      BY <1>1 DEF SessionsPart!SessionsInv, SessionsPart!EnginesHeld, SessionsPart!Serving,
                  SessionsPart!Mine
    <2>3. r11' \in Nat /\ r11' # 0
      BY <1>3, <2>1, <2>2 DEF SessionsPart!Trouble
    <2> QED BY <1>1, <1>3, <2>3, SessionStopIs, StepGivenUp
  <1> QED BY <1>2, <1>3 DEF SessionsPart!Upload

LEMMA StepLoad == SessionsPart!SessionsInv /\ SessionsPart!Load => SessionsPart!SessionsInv'
PROOF
  <1> SUFFICES ASSUME SessionsPart!SessionsInv, SessionsPart!Load PROVE SessionsPart!SessionsInv'
    OBVIOUS
  <1>1. r6 = "load" /\ UNCHANGED <<r1, r2, r3, r4, r5, r7, r8, r9>>
    BY DEF SessionsPart!Load
  <1>2. r1 = "probe" /\ r11 \in Nat
    BY <1>1 DEF SessionsPart!SessionsInv, SessionsPart!DataHeld, SessionsPart!PlanHeld
  <1>3. \/ r5.whole /\ r6' = "rows" /\ r10' = r10 /\ r11' = r11
        \/ r6' = "finally" /\ r10' = 1 /\ r11' \in Nat
    BY <1>2 DEF SessionsPart!Load, SessionsPart!Trouble
  <1>4. /\ SessionsPart!Session' = SessionsPart!Session /\ SessionsPart!First' = SessionsPart!First
        /\ SessionsPart!Strangers' = SessionsPart!Strangers /\ SessionsPart!Mine' = SessionsPart!Mine
    BY <1>1 DEF SessionsPart!Session, SessionsPart!First, SessionsPart!Strangers, SessionsPart!Mine
  <1>5. SessionsPart!PlanHeld'
    BY <1>1, <1>2, <1>3, <1>4
       DEF SessionsPart!SessionsInv, SessionsPart!PlanHeld, SessionsPart!Serving
  <1>6. SessionsPart!EnginesHeld'
    BY <1>1, <1>2, <1>3, <1>4
       DEF SessionsPart!SessionsInv, SessionsPart!EnginesHeld, SessionsPart!Serving
  <1>7. SessionsPart!DataHeld'
    BY <1>1, <1>2, <1>3, <1>4 DEF SessionsPart!SessionsInv, SessionsPart!DataHeld
  <1>8. SessionsPart!MeasuredHeld'
    BY <1>1 DEF SessionsPart!SessionsInv, SessionsPart!MeasuredHeld, SessionsPart!Row
  <1>9. SessionsPart!CoverHeld'
    <2>1. CASE r10' = 1
      BY <2>1 DEF SessionsPart!CoverHeld, SessionsPart!Untroubled
    <2>2. CASE r6' = "rows" /\ r10' = r10 /\ r11' = r11
      BY <1>1, <2>2 DEF SessionsPart!SessionsInv, SessionsPart!CoverHeld, SessionsPart!Untroubled,
                        SessionsPart!Row, SessionsPart!Left, SessionsPart!Serving
    <2> QED BY <1>3, <2>1, <2>2
  <1> QED BY <1>5, <1>6, <1>7, <1>8, <1>9 DEF SessionsPart!SessionsInv
LEMMA StepMeasure == SessionsPart!SessionsInv /\ SessionsPart!Measure => SessionsPart!SessionsInv'
PROOF
  <1> SUFFICES ASSUME SessionsPart!SessionsInv, SessionsPart!Measure PROVE SessionsPart!SessionsInv'
    OBVIOUS
  <1>1. /\ r6 = "rows" /\ r7 # <<>> /\ r7' = Tail(r7)
        /\ UNCHANGED <<r1, r2, r3, r4, r5, r6, r9, r10, r11>>
        /\ r8' = r8 \cup {[arm |-> Head(r7).arm, rep |-> Head(r7).rep, by |-> e, over |-> r5] : e \in r4}
    BY DEF SessionsPart!Measure
  <1> DEFINE c == SessionsPart!Session.config
             R == SessionsPart!Runs(r1, c)
  <1>2. /\ r7 \in Seq(R) /\ r1 \in SessionsPart!Drivers
        /\ r5 = [config |-> IF r1 = "probe" THEN "a" ELSE c, whole |-> TRUE]
        /\ r4 \subseteq {[of |-> "mine", config |-> c]} /\ (r11 = 0 => r4 # {})
    <2>1. /\ r7 \in Seq(R) /\ r1 \in SessionsPart!Drivers
          /\ r5 = [config |-> IF r1 = "probe" THEN "a" ELSE c, whole |-> TRUE]
      BY <1>1 DEF SessionsPart!SessionsInv, SessionsPart!PlanHeld, SessionsPart!DataHeld,
                  SessionsPart!Serving
    <2>2. r4 \subseteq {[of |-> "mine", config |-> c]} /\ (r11 = 0 => r4 # {})
      BY <1>1 DEF SessionsPart!SessionsInv, SessionsPart!EnginesHeld, SessionsPart!Serving
    <2> QED BY <2>1, <2>2
  <1>3. /\ Head(r7) = r7[1] /\ 1 \in DOMAIN r7 /\ Head(r7) \in R /\ Tail(r7) \in Seq(R)
        /\ \A j \in DOMAIN r7 : j # 1 => /\ j - 1 \in DOMAIN Tail(r7)
                                         /\ Tail(r7)[j - 1] = r7[j]
    <2> HIDE DEF R
    <2> QED BY <1>1, <1>2
  <1>4. /\ Head(r7) \in [arm : SessionsPart!ToSet(SessionsPart!Arms(r1)), rep : 1..SessionReps]
        /\ SessionsPart!ConfigOf(r1, Head(r7).arm) = c
    BY <1>3 DEF SessionsPart!Runs
  <1>5. ASSUME NEW e \in r4
        PROVE  [arm |-> Head(r7).arm, rep |-> Head(r7).rep, by |-> e, over |-> r5]
                  = SessionsPart!Row(Head(r7).arm, Head(r7).rep)
    BY <1>2, <1>4, <1>5 DEF SessionsPart!Row
  <1>6. /\ SessionsPart!Session' = SessionsPart!Session /\ SessionsPart!First' = SessionsPart!First
        /\ SessionsPart!Strangers' = SessionsPart!Strangers /\ SessionsPart!Mine' = SessionsPart!Mine
    BY <1>1 DEF SessionsPart!Session, SessionsPart!First, SessionsPart!Strangers, SessionsPart!Mine
  <1> HIDE DEF c
  <1>7. SessionsPart!PlanHeld'
    BY <1>1, <1>2, <1>3, <1>6
       DEF SessionsPart!SessionsInv, SessionsPart!PlanHeld, SessionsPart!Serving, c
  <1>8. SessionsPart!EnginesHeld'
    BY <1>1, <1>6 DEF SessionsPart!SessionsInv, SessionsPart!EnginesHeld, SessionsPart!Serving
  <1>9. SessionsPart!DataHeld'
    BY <1>1, <1>6 DEF SessionsPart!SessionsInv, SessionsPart!DataHeld
  <1>10. ASSUME NEW a, NEW k PROVE SessionsPart!Row(a, k)' = SessionsPart!Row(a, k)
    BY <1>1 DEF SessionsPart!Row
  <1>11. SessionsPart!MeasuredHeld'
    <2> SUFFICES ASSUME NEW m \in r8'
                 PROVE  \E a \in SessionsPart!ToSet(SessionsPart!Arms(r1)), k \in 1..SessionReps :
                           m = SessionsPart!Row(a, k)
      BY <1>1, <1>10 DEF SessionsPart!MeasuredHeld
    <2>1. CASE m \in r8
      BY <2>1 DEF SessionsPart!SessionsInv, SessionsPart!MeasuredHeld
    <2>2. CASE m \notin r8
      <3>1. PICK e \in r4 : m = [arm |-> Head(r7).arm, rep |-> Head(r7).rep, by |-> e, over |-> r5]
        BY <1>1, <2>2
      <3>2. m = SessionsPart!Row(Head(r7).arm, Head(r7).rep)
        BY <1>5, <3>1
      <3>3. /\ Head(r7).arm \in SessionsPart!ToSet(SessionsPart!Arms(r1))
            /\ Head(r7).rep \in 1..SessionReps
        BY <1>4
      <3> QED BY <3>2, <3>3
    <2> QED BY <2>1, <2>2
  <1>12. SessionsPart!CoverHeld'
    <2> SUFFICES ASSUME SessionsPart!Untroubled',
                        NEW a \in SessionsPart!ToSet(SessionsPart!Arms(r1')), NEW k \in 1..SessionReps
                 PROVE  SessionsPart!Row(a, k)' \in r8' \/ SessionsPart!Left(a, k)'
      BY <1>1 DEF SessionsPart!CoverHeld
    <2>1. SessionsPart!Untroubled /\ r11 = 0
      BY <1>1 DEF SessionsPart!Untroubled
    <2>2. SessionsPart!Row(a, k) \in r8 \/ SessionsPart!Left(a, k)
      BY <1>1, <2>1 DEF SessionsPart!SessionsInv, SessionsPart!CoverHeld
    <2>3. CASE SessionsPart!Row(a, k) \in r8
      BY <1>1, <1>10, <2>3
    <2>4. CASE \E i \in DOMAIN r3 : i > 1 /\ \E j \in DOMAIN r3[i].runs :
                                              r3[i].runs[j] = [arm |-> a, rep |-> k]
      BY <1>1, <2>4 DEF SessionsPart!Left
    <2>5. CASE \E j \in DOMAIN r7 : r7[j] = [arm |-> a, rep |-> k]
      <3>1. PICK j \in DOMAIN r7 : r7[j] = [arm |-> a, rep |-> k]
        BY <2>5
      <3>2. CASE j = 1
        <4>1. PICK e : e \in r4
          BY <1>2, <2>1
        <4>2. Head(r7).arm = a /\ Head(r7).rep = k
          BY <1>3, <3>1, <3>2
        <4>3. [arm |-> Head(r7).arm, rep |-> Head(r7).rep, by |-> e, over |-> r5] \in r8'
          BY <1>1, <4>1
        <4>4. SessionsPart!Row(a, k) \in r8'
          BY <1>5, <4>1, <4>2, <4>3
        <4> QED BY <1>10, <4>4
      <3>3. CASE j # 1
        <4>1. j - 1 \in DOMAIN r7' /\ r7'[j - 1] = [arm |-> a, rep |-> k]
          BY <1>1, <1>3, <3>1, <3>3
        <4> QED BY <1>1, <4>1 DEF SessionsPart!Left, SessionsPart!Serving
      <3> QED BY <3>2, <3>3
    <2> QED BY <1>1, <2>2, <2>3, <2>4, <2>5 DEF SessionsPart!Left
  <1> QED BY <1>7, <1>8, <1>9, <1>11, <1>12 DEF SessionsPart!SessionsInv

LEMMA StepEndSession ==
  SessionsPart!SessionsInv /\ SessionsPart!EndSession => SessionsPart!SessionsInv'
PROOF
  <1> SUFFICES ASSUME SessionsPart!SessionsInv, SessionsPart!EndSession PROVE SessionsPart!SessionsInv'
    OBVIOUS
  <1>1. /\ r6 = "rows" /\ r7 = <<>> /\ r4' = SessionsPart!SessionStop /\ r3' = Tail(r3)
        /\ r6' = (IF Tail(r3) = <<>> THEN "finally" ELSE "start")
        /\ UNCHANGED <<r1, r2, r5, r7, r8, r9, r10, r11>>
    BY DEF SessionsPart!EndSession
  <1>2. /\ r1 \in SessionsPart!Drivers /\ Len(r3) \in Nat /\ DOMAIN r3 = 1..Len(r3)
        /\ Tail(r3) \in Seq(SessionsPart!SessionSet(r1)) /\ Len(Tail(r3)) = Len(r3) - 1
        /\ \A i \in DOMAIN r3 : i > 1 => i - 1 \in DOMAIN Tail(r3) /\ Tail(r3)[i - 1] = r3[i]
    <2>1. /\ r3 \in Seq(SessionsPart!SessionSet(r1)) /\ r1 \in SessionsPart!Drivers
          /\ Tail(r3) \in Seq(SessionsPart!SessionSet(r1)) /\ Len(Tail(r3)) = Len(r3) - 1
          /\ r3 # <<>>
      BY <1>1, SessionIs DEF SessionsPart!SessionsInv
    <2> DEFINE S == SessionsPart!SessionSet(r1)
    <2> HIDE DEF S
    <2>2. r3 \in Seq(S) /\ r3 # <<>>
      BY <2>1 DEF S
    <2>3. /\ Len(r3) \in Nat /\ DOMAIN r3 = 1..Len(r3)
          /\ \A i \in DOMAIN r3 : i > 1 => i - 1 \in DOMAIN Tail(r3) /\ Tail(r3)[i - 1] = r3[i]
      BY <2>2
    <2> QED BY <2>1, <2>3
  <1>3. Len(r3') < Len(SessionsPart!Plan(r1)) /\ Len(SessionsPart!Plan(r1)) \in Nat
    BY <1>1, <1>2, PlansAreWhole DEF SessionsPart!SessionsInv, SessionsPart!PlanHeld, PlanIsWhole
  <1>4. SessionsPart!PlanHeld'
    BY <1>1, <1>2, <1>3
       DEF SessionsPart!SessionsInv, SessionsPart!PlanHeld, SessionsPart!Serving
  <1>5. SessionsPart!EnginesHeld'
    BY <1>1, SessionStopIs DEF SessionsPart!SessionsInv, SessionsPart!EnginesHeld,
                               SessionsPart!Serving
  <1>6. SessionsPart!DataHeld'
    <2>1. ~SessionsPart!First'
      BY <1>1, <1>3 DEF SessionsPart!First
    <2>2. r1 = "probe" => r5' = [config |-> "a", whole |-> TRUE]
      BY <1>1 DEF SessionsPart!SessionsInv, SessionsPart!DataHeld
    <2> QED BY <1>1, <2>1, <2>2 DEF SessionsPart!DataHeld
  <1>7. SessionsPart!MeasuredHeld'
    BY <1>1 DEF SessionsPart!SessionsInv, SessionsPart!MeasuredHeld, SessionsPart!Row
  <1>8. SessionsPart!CoverHeld'
    <2>1. r6' \in {"finally", "done"} => r3' = <<>>
      BY <1>1
    <2> SUFFICES ASSUME SessionsPart!Untroubled',
                        NEW a \in SessionsPart!ToSet(SessionsPart!Arms(r1')), NEW k \in 1..SessionReps
                 PROVE  SessionsPart!Row(a, k)' \in r8' \/ SessionsPart!Left(a, k)'
      BY <2>1 DEF SessionsPart!CoverHeld
    <2>2. SessionsPart!Row(a, k) \in r8 \/ SessionsPart!Left(a, k)
      BY <1>1 DEF SessionsPart!SessionsInv, SessionsPart!CoverHeld, SessionsPart!Untroubled
    <2>3. CASE SessionsPart!Row(a, k) \in r8
      BY <1>1, <2>3 DEF SessionsPart!Row
    <2>4. CASE SessionsPart!Left(a, k)
      <3>1. PICK i \in DOMAIN r3 : i > 1 /\ \E j \in DOMAIN r3[i].runs :
                                             r3[i].runs[j] = [arm |-> a, rep |-> k]
        BY <1>1, <2>4 DEF SessionsPart!Left
      <3>2. i - 1 \in DOMAIN r3' /\ r3'[i - 1] = r3[i]
        BY <1>1, <1>2, <3>1
      <3>3. r6' = "start"
        BY <1>1, <3>2
      <3> QED BY <3>1, <3>2, <3>3 DEF SessionsPart!Left
    <2> QED BY <2>2, <2>3, <2>4
  <1> QED BY <1>4, <1>5, <1>6, <1>7, <1>8 DEF SessionsPart!SessionsInv

LEMMA StepCrash == SessionsPart!SessionsInv /\ SessionsPart!Crash => SessionsPart!SessionsInv'
PROOF
  <1> SUFFICES ASSUME SessionsPart!SessionsInv, SessionsPart!Crash PROVE SessionsPart!SessionsInv'
    OBVIOUS
  <1>1. /\ r6 \in {"upload", "load", "rows"} /\ r4' = SessionsPart!StopMine /\ r11' = r11 + 1
        /\ UNCHANGED <<r1, r2, r3, r5, r6, r7, r8, r9, r10>>
    BY DEF SessionsPart!Crash, SessionsPart!Trouble
  <1>2. r11' \in Nat /\ r11' # 0
    BY <1>1 DEF SessionsPart!SessionsInv, SessionsPart!PlanHeld
  <1>3. /\ SessionsPart!Session' = SessionsPart!Session /\ SessionsPart!First' = SessionsPart!First
        /\ SessionsPart!Strangers' = SessionsPart!Strangers /\ r4' \subseteq r4
    BY <1>1 DEF SessionsPart!Session, SessionsPart!First, SessionsPart!Strangers,
                SessionsPart!StopMine
  <1>4. SessionsPart!PlanHeld'
    BY <1>1, <1>2, <1>3 DEF SessionsPart!SessionsInv, SessionsPart!PlanHeld, SessionsPart!Serving
  <1>5. SessionsPart!EnginesHeld'
    BY <1>1, <1>2, <1>3 DEF SessionsPart!SessionsInv, SessionsPart!EnginesHeld,
                            SessionsPart!Serving
  <1>6. SessionsPart!DataHeld'
    BY <1>1, <1>3 DEF SessionsPart!SessionsInv, SessionsPart!DataHeld
  <1>7. SessionsPart!MeasuredHeld'
    BY <1>1 DEF SessionsPart!SessionsInv, SessionsPart!MeasuredHeld, SessionsPart!Row
  <1>8. SessionsPart!CoverHeld'
    BY <1>2 DEF SessionsPart!CoverHeld, SessionsPart!Untroubled
  <1> QED BY <1>4, <1>5, <1>6, <1>7, <1>8 DEF SessionsPart!SessionsInv

LEMMA StepInterrupt ==
  SessionsPart!SessionsInv /\ SessionsPart!Interrupt => SessionsPart!SessionsInv'
PROOF
  <1> SUFFICES ASSUME SessionsPart!SessionsInv, SessionsPart!Interrupt PROVE SessionsPart!SessionsInv'
    OBVIOUS
  <1>1. /\ r6 \in {"start", "upload", "load", "rows"} /\ r4' = SessionsPart!SessionStop
        /\ r11' = r11 + 1 /\ r6' = "finally" /\ r10' = 1
        /\ UNCHANGED <<r1, r2, r3, r7, r8, r9>>
    BY DEF SessionsPart!Interrupt, SessionsPart!Trouble
  <1>2. SessionsPart!PlanHeld'
    BY <1>1 DEF SessionsPart!SessionsInv, SessionsPart!PlanHeld, SessionsPart!Serving
  <1>3. SessionsPart!EnginesHeld'
    BY <1>1, SessionStopIs DEF SessionsPart!SessionsInv, SessionsPart!EnginesHeld,
                               SessionsPart!Serving
  <1>4. SessionsPart!DataHeld'
    BY <1>1 DEF SessionsPart!DataHeld
  <1>5. SessionsPart!MeasuredHeld'
    BY <1>1 DEF SessionsPart!SessionsInv, SessionsPart!MeasuredHeld, SessionsPart!Row
  <1>6. SessionsPart!CoverHeld'
    BY <1>1 DEF SessionsPart!CoverHeld, SessionsPart!Untroubled
  <1> QED BY <1>2, <1>3, <1>4, <1>5, <1>6 DEF SessionsPart!SessionsInv

LEMMA StepFinally == SessionsPart!SessionsInv /\ SessionsPart!Finally => SessionsPart!SessionsInv'
PROOF
  <1> SUFFICES ASSUME SessionsPart!SessionsInv, SessionsPart!Finally PROVE SessionsPart!SessionsInv'
    OBVIOUS
  <1>1. /\ r6 = "finally" /\ r6' = "done" /\ r9' = "unset"
        /\ r4' = IF r1 = "probe" \/ (r1 = "image" /\ ~r2) THEN SessionsPart!StopMine ELSE r4
        /\ UNCHANGED <<r1, r2, r3, r5, r7, r8, r10, r11>>
    BY DEF SessionsPart!Finally
  <1>2. SessionsPart!PlanHeld'
    BY <1>1 DEF SessionsPart!SessionsInv, SessionsPart!PlanHeld, SessionsPart!Serving
  <1>3. SessionsPart!EnginesHeld'
    <2>1. SessionsPart!Strangers' \subseteq SessionsPart!Strangers
      BY <1>1 DEF SessionsPart!Strangers, SessionsPart!StopMine
    <2>2. SessionsPart!Mine' # {} => r1 = "image" /\ r2
      <3>1. CASE r1 = "probe" \/ (r1 = "image" /\ ~r2)
        BY <1>1, <3>1 DEF SessionsPart!Mine, SessionsPart!StopMine
      <3>2. CASE ~(r1 = "probe" \/ (r1 = "image" /\ ~r2))
        <4>1. SessionsPart!Mine' = SessionsPart!Mine
          BY <1>1, <3>2 DEF SessionsPart!Mine
        <4>2. r1 \notin {"image", "probe"} => SessionsPart!Mine = {}
          BY <1>1 DEF SessionsPart!SessionsInv, SessionsPart!EnginesHeld
        <4> QED BY <3>2, <4>1, <4>2
      <3> QED BY <3>1, <3>2
    <2> QED BY <1>1, <2>1, <2>2 DEF SessionsPart!SessionsInv, SessionsPart!EnginesHeld,
                                    SessionsPart!Serving
  <1>4. SessionsPart!DataHeld'
    BY <1>1 DEF SessionsPart!DataHeld
  <1>5. SessionsPart!MeasuredHeld'
    BY <1>1 DEF SessionsPart!SessionsInv, SessionsPart!MeasuredHeld, SessionsPart!Row
  <1>6. SessionsPart!CoverHeld'
    BY <1>1 DEF SessionsPart!SessionsInv, SessionsPart!CoverHeld, SessionsPart!Untroubled,
                SessionsPart!Row, SessionsPart!Left, SessionsPart!Serving
  <1> QED BY <1>2, <1>3, <1>4, <1>5, <1>6 DEF SessionsPart!SessionsInv

LEMMA SessionsStay ==
  ASSUME SessionsPart!SessionsInv, UNCHANGED <<r1, r2, r3, r4, r5, r6, r7, r8, r9, r10, r11>>
  PROVE  SessionsPart!SessionsInv'
PROOF
  <1>1. /\ SessionsPart!Session' = SessionsPart!Session /\ SessionsPart!First' = SessionsPart!First
        /\ SessionsPart!Strangers' = SessionsPart!Strangers /\ SessionsPart!Mine' = SessionsPart!Mine
    BY DEF SessionsPart!Session, SessionsPart!First, SessionsPart!Strangers, SessionsPart!Mine
  <1>2. SessionsPart!PlanHeld' /\ SessionsPart!EnginesHeld' /\ SessionsPart!DataHeld'
    <2>1. SessionsPart!PlanHeld'
      BY <1>1 DEF SessionsPart!SessionsInv, SessionsPart!PlanHeld, SessionsPart!Serving,
                      SessionsPart!Untroubled
    <2>2. SessionsPart!EnginesHeld'
      BY <1>1 DEF SessionsPart!SessionsInv, SessionsPart!EnginesHeld, SessionsPart!Serving
    <2>3. SessionsPart!DataHeld'
      BY <1>1 DEF SessionsPart!SessionsInv, SessionsPart!DataHeld
    <2> QED BY <2>1, <2>2, <2>3
  <1>3. SessionsPart!MeasuredHeld'
    BY DEF SessionsPart!SessionsInv, SessionsPart!MeasuredHeld, SessionsPart!Row
  <1>4. SessionsPart!CoverHeld'
    BY DEF SessionsPart!SessionsInv, SessionsPart!CoverHeld, SessionsPart!Untroubled,
           SessionsPart!Row, SessionsPart!Left, SessionsPart!Serving
  <1> QED BY <1>2, <1>3, <1>4 DEF SessionsPart!SessionsInv
LEMMA SessionCounts == \A S : SessionsPart!Cardinality(S) = Cardinality(S)
PROOF
  BY DEF SessionsPart!Cardinality, Cardinality

(* A driver that ended untroubled measured each arm SessionReps times.        *)
LEMMA AllMeasured ==
  ASSUME SessionsPart!SessionsInv, r6 = "done", SessionsPart!Untroubled,
         NEW a \in SessionsPart!ToSet(SessionsPart!Arms(r1))
  PROVE  SessionsPart!Cardinality({m \in r8 : m.arm = a}) = SessionReps
PROOF
  <1> DEFINE S == 1..SessionReps
             T == {m \in r8 : m.arm = a}
             f == [k \in S |-> SessionsPart!Row(a, k)]
  <1>1. SessionReps \in Nat \ {0}
    BY HarnessAssumption
  <1>2. \A k \in S : SessionsPart!Row(a, k) \in r8
    BY DEF SessionsPart!SessionsInv, SessionsPart!CoverHeld, SessionsPart!Left, SessionsPart!Serving
  <1>3. \A b, k : /\ SessionsPart!Row(b, k).arm = b /\ SessionsPart!Row(b, k).rep = k
    BY DEF SessionsPart!Row
  <1>4. ASSUME NEW m \in T PROVE \E k \in S : SessionsPart!Row(a, k) = m
    <2>1. PICK b \in SessionsPart!ToSet(SessionsPart!Arms(r1)), k \in S : m = SessionsPart!Row(b, k)
      BY DEF SessionsPart!SessionsInv, SessionsPart!MeasuredHeld
    <2>2. b = a
      BY <1>3, <2>1
    <2> QED BY <2>1, <2>2
  <1>5. f \in [S -> T]
    BY <1>2, <1>3
  <1>6. \A k, l \in S : f[k] = f[l] => k = l
    <2> SUFFICES ASSUME NEW k \in S, NEW l \in S, f[k] = f[l] PROVE k = l
      OBVIOUS
    <2>1. SessionsPart!Row(a, k) = SessionsPart!Row(a, l)
      OBVIOUS
    <2> QED BY <1>3, <2>1
  <1>7. \A t \in T : \E k \in S : f[k] = t
    BY <1>4
  <1>8. IsFiniteSet(S) /\ Cardinality(S) = SessionReps
    BY <1>1, FS_Interval
  <1> HIDE DEF S, T, f
  <1>9. Cardinality(T) = SessionReps
    BY <1>5, <1>6, <1>7, <1>8, SameCount
  <1> QED BY <1>9, SessionCounts DEF T

(* Where the order rotates each of two arms is as often first as second.      *)
LEMMA RotatesEvenly ==
  ASSUME NEW d \in {"commit", "build"}
  PROVE  LET plan == SessionsPart!Plan(d)
             n == Len(SessionsPart!Arms(d))
             At(a, k) == {i \in DOMAIN plan : plan[i].config = a /\ (i - 1) % n = k}
         IN  SessionReps % n = 0 =>
                \A a \in SessionsPart!ToSet(SessionsPart!Arms(d)), j, k \in 0..(n - 1) :
                   SessionsPart!Cardinality(At(a, j)) = SessionsPart!Cardinality(At(a, k))
PROOF
  <1> DEFINE p == SessionsPart!Rotated(<<"a", "b">>)
             q == SessionsPart!Alone(p, d)
             N == 2 * SessionReps
             At(a, k) == {i \in 1..N : q[i].config = a /\ (i - 1) % 2 = k}
  <1>1. d \in SessionsPart!Drivers /\ d # "w9"
    BY DEF SessionsPart!Drivers
  <1>2. /\ SessionsPart!Plan(d) = q /\ Len(SessionsPart!Arms(d)) = 2
        /\ SessionsPart!ToSet(SessionsPart!Arms(d)) = {"a", "b"}
    BY <1>1, ArmsAre DEF SessionsPart!Plan
  <1>3. /\ p \in Seq([arm : {"a", "b"}, rep : 1..SessionReps]) /\ Len(p) = N
        /\ \A i \in 1..N : p[i] = [arm |-> <<"a", "b">>[((i - 1 + (i - 1) \div 2) % 2) + 1],
                                   rep |-> ((i - 1) \div 2) + 1]
    BY RotatedIs
  <1>4. DOMAIN p = 1..N /\ DOMAIN q = 1..N
    BY <1>3 DEF SessionsPart!Alone
  <1>5. ASSUME NEW i \in 1..N
        PROVE  q[i].config = IF (i - 1 + (i - 1) \div 2) % 2 = 0 THEN "a" ELSE "b"
    <2> DEFINE x == (i - 1 + (i - 1) \div 2) % 2
    <2>1. q[i].config = p[i].arm
      BY <1>1, <1>4 DEF SessionsPart!Alone, SessionsPart!ConfigOf
    <2>2. p[i].arm = <<"a", "b">>[x + 1]
      <3> HIDE DEF p
      <3>1. p[i] = [arm |-> <<"a", "b">>[((i - 1 + (i - 1) \div 2) % 2) + 1],
                    rep |-> ((i - 1) \div 2) + 1]
        BY <1>3
      <3> QED BY <3>1
    <2>3. x \in {0, 1}
      OBVIOUS
    <2> HIDE DEF x
    <2>4. <<"a", "b">>[x + 1] = IF x = 0 THEN "a" ELSE "b"
      BY <2>3
    <2> QED BY <2>1, <2>2, <2>4 DEF x
  <1> HIDE DEF p, q
  <1> DEFINE n == Len(SessionsPart!Arms(d))
             Place(a, k) == {i \in DOMAIN SessionsPart!Plan(d) :
                               SessionsPart!Plan(d)[i].config = a /\ (i - 1) % n = k}
  <1> SUFFICES ASSUME SessionReps % n = 0, NEW a \in SessionsPart!ToSet(SessionsPart!Arms(d)),
                      NEW j \in 0..(n - 1), NEW k \in 0..(n - 1)
               PROVE  SessionsPart!Cardinality(Place(a, j)) = SessionsPart!Cardinality(Place(a, k))
    OBVIOUS
  <1>6. /\ SessionReps % 2 = 0 /\ a \in {"a", "b"} /\ j \in {0, 1} /\ k \in {0, 1}
         /\ \A m : Place(a, m) = At(a, m)
    BY <1>2, <1>4
  <1> HIDE DEF n, Place
  <1>7. SessionReps \in Nat \ {0}
    BY HarnessAssumption
  <1>8. \A b, m : IsFiniteSet(At(b, m))
    <2> TAKE b, m
    <2>1. At(b, m) \subseteq 1..N
      OBVIOUS
    <2>2. N \in Int
      BY <1>7
    <2> HIDE DEF At, N
    <2>3. IsFiniteSet(1..N)
      BY <2>2, FS_Interval
    <2> QED BY <2>1, <2>3, FS_Subset
  <1>9. Cardinality(At("a", 1)) = Cardinality(At("a", 0))
    <2> DEFINE f == [i \in At("a", 0) |-> i + 3]
    <2>1. ASSUME NEW i \in At("a", 0) PROVE i + 3 \in At("a", 1)
      <3>1. i \in 1..N /\ (i - 1) % 2 = 0 /\ (i - 1 + (i - 1) \div 2) % 2 = 0
        BY <1>5
      <3>2. i + 3 \in 1..N /\ (i + 3 - 1) % 2 = 1
            /\ (i + 3 - 1 + (i + 3 - 1) \div 2) % 2 = 0
        BY <1>7, <1>6, <3>1
      <3> DEFINE y == i + 3
      <3>3. y \in 1..N /\ (y - 1) % 2 = 1 /\ (y - 1 + (y - 1) \div 2) % 2 = 0
        BY <3>2
      <3> HIDE DEF y
      <3>4. y \in At("a", 1)
        BY <1>5, <3>3
      <3> QED BY <3>4 DEF y
    <2>2. ASSUME NEW i \in At("a", 1) PROVE i - 3 \in At("a", 0)
      <3>1. i \in 1..N /\ (i - 1) % 2 = 1 /\ (i - 1 + (i - 1) \div 2) % 2 = 0
        BY <1>5
      <3>2. i - 3 \in 1..N /\ (i - 3 - 1) % 2 = 0
            /\ (i - 3 - 1 + (i - 3 - 1) \div 2) % 2 = 0
        BY <1>7, <3>1
      <3> DEFINE y == i - 3
      <3>3. y \in 1..N /\ (y - 1) % 2 = 0 /\ (y - 1 + (y - 1) \div 2) % 2 = 0
        BY <3>2
      <3> HIDE DEF y
      <3>4. y \in At("a", 0)
        BY <1>5, <3>3
      <3> QED BY <3>4 DEF y
    <2>3. \A i \in At("a", 0) : i \in Int
      OBVIOUS
    <2>4. \A i \in At("a", 1) : i \in Int
      OBVIOUS
    <2> HIDE DEF At
    <2>5. f \in [At("a", 0) -> At("a", 1)]
      BY <2>1
    <2>6. \A x, y \in At("a", 0) : f[x] = f[y] => x = y
      BY <2>3
    <2>7. \A t \in At("a", 1) : \E x \in At("a", 0) : f[x] = t
      <3> TAKE t \in At("a", 1)
      <3>1. t - 3 \in At("a", 0) /\ f[t - 3] = t
        BY <2>2, <2>4
      <3> QED BY <3>1
    <2> HIDE DEF f
    <2> QED BY <1>8, <2>5, <2>6, <2>7, SameCount
  <1>10. Cardinality(At("b", 0)) = Cardinality(At("b", 1))
    <2> DEFINE f == [i \in At("b", 1) |-> i + 1]
    <2>1. ASSUME NEW i \in At("b", 1) PROVE i + 1 \in At("b", 0)
      <3>1. i \in 1..N /\ (i - 1) % 2 = 1 /\ (i - 1 + (i - 1) \div 2) % 2 # 0
        BY <1>5
      <3>2. i + 1 \in 1..N /\ (i + 1 - 1) % 2 = 0
            /\ (i + 1 - 1 + (i + 1 - 1) \div 2) % 2 # 0
        BY <1>7, <1>6, <3>1
      <3> DEFINE y == i + 1
      <3>3. y \in 1..N /\ (y - 1) % 2 = 0 /\ (y - 1 + (y - 1) \div 2) % 2 # 0
        BY <3>2
      <3> HIDE DEF y
      <3>4. y \in At("b", 0)
        BY <1>5, <3>3
      <3> QED BY <3>4 DEF y
    <2>2. ASSUME NEW i \in At("b", 0) PROVE i - 1 \in At("b", 1)
      <3>1. i \in 1..N /\ (i - 1) % 2 = 0 /\ (i - 1 + (i - 1) \div 2) % 2 # 0
        BY <1>5
      <3>2. i - 1 \in 1..N /\ (i - 1 - 1) % 2 = 1
            /\ (i - 1 - 1 + (i - 1 - 1) \div 2) % 2 # 0
        BY <1>7, <3>1
      <3> DEFINE y == i - 1
      <3>3. y \in 1..N /\ (y - 1) % 2 = 1 /\ (y - 1 + (y - 1) \div 2) % 2 # 0
        BY <3>2
      <3> HIDE DEF y
      <3>4. y \in At("b", 1)
        BY <1>5, <3>3
      <3> QED BY <3>4 DEF y
    <2>3. \A i \in At("b", 1) : i \in Int
      OBVIOUS
    <2>4. \A i \in At("b", 0) : i \in Int
      OBVIOUS
    <2> HIDE DEF At
    <2>5. f \in [At("b", 1) -> At("b", 0)]
      BY <2>1
    <2>6. \A x, y \in At("b", 1) : f[x] = f[y] => x = y
      BY <2>3
    <2>7. \A t \in At("b", 0) : \E x \in At("b", 1) : f[x] = t
      <3> TAKE t \in At("b", 0)
      <3>1. t - 1 \in At("b", 1) /\ f[t - 1] = t
        BY <2>2, <2>4
      <3> QED BY <3>1
    <2> HIDE DEF f
    <2> QED BY <1>8, <2>5, <2>6, <2>7, SameCount
  <1> HIDE DEF At
  <1>11. Cardinality(At(a, j)) = Cardinality(At(a, k))
    BY <1>9, <1>10, <1>6
  <1> QED BY <1>11, <1>6, SessionCounts DEF Place

LEMMA ArmsAreMeasured == SessionsPart!SessionsInv => SessionsPart!ArmsMeasuredAsNamed
PROOF
  <1> SUFFICES ASSUME SessionsPart!SessionsInv PROVE SessionsPart!ArmsMeasuredAsNamed
    OBVIOUS
  <1>1. ASSUME NEW m \in r8
        PROVE  /\ m.by = [of |-> "mine", config |-> SessionsPart!ConfigOf(r1, m.arm)]
               /\ m.over = [config |-> IF r1 = "probe" THEN "a" ELSE m.by.config, whole |-> TRUE]
    <2>1. PICK a \in SessionsPart!ToSet(SessionsPart!Arms(r1)), k \in 1..SessionReps :
             m = SessionsPart!Row(a, k)
      BY DEF SessionsPart!SessionsInv, SessionsPart!MeasuredHeld
    <2> QED BY <2>1 DEF SessionsPart!Row
  <1>2. r6 = "done" => (SessionsPart!Mine # {} => r1 = "image" /\ r2) /\ r9 = "unset"
    BY DEF SessionsPart!SessionsInv, SessionsPart!EnginesHeld
  <1>3. r6 = "done" /\ r10 = 0 /\ r11 = 0 =>
           \A a \in SessionsPart!ToSet(SessionsPart!Arms(r1)) :
              SessionsPart!Cardinality({m \in r8 : m.arm = a}) = SessionReps
    BY AllMeasured DEF SessionsPart!Untroubled
  <1> QED BY <1>1, <1>2, <1>3, RotatesEvenly DEF SessionsPart!ArmsMeasuredAsNamed

LEMMA SessionKept == SessionHeld /\ [PartsNext]_pvars => SessionHeld'
PROOF
  <1> SUFFICES ASSUME SessionHeld, [PartsNext]_pvars, part' = "session"
               PROVE  SessionsPart!SessionsInv'
    BY DEF SessionHeld
  <1>1. part = "session" /\ SessionsPart!SessionsInv
    BY PartStays DEF SessionHeld
  <1>2. CASE SessionsPart!SessionsNext
    BY <1>1, <1>2, StepChoose, StepStart, StepUpload, StepLoad, StepMeasure, StepEndSession,
       StepCrash, StepInterrupt, StepFinally DEF SessionsPart!SessionsNext
  <1>3. CASE UNCHANGED pvars
    <2>1. UNCHANGED <<r1, r2, r3, r4, r5, r6, r7, r8, r9, r10, r11>>
      BY <1>3 DEF pvars, After0, After1, After4, After5, After6, After8, After9, After10
    <2> QED BY <1>1, <2>1, SessionsStay
  <1> QED BY <1>1, <1>2, <1>3 DEF PartsNext

(* What a driver files under an arm is that arm's, and a driver that ended    *)
(* well measured its arms alike: the sessions' half of ArmsAndGatesAreNamed.  *)
THEOREM SessionsAreNamed == PartsSpec => [](part = "session" => SessionsPart!ArmsMeasuredAsNamed)
PROOF
  <1>1. PartsInit => SessionHeld
    BY SessionsStart DEF PartsInit, SessionHeld
  <1>3. SessionHeld => (part = "session" => SessionsPart!ArmsMeasuredAsNamed)
    BY ArmsAreMeasured DEF SessionHeld
  <1> QED BY <1>1, SessionKept, <1>3, PTL DEF PartsSpec, pvars

(* An arm's rows are of that arm, and a green gate of the tree it checked.    *)
THEOREM ArmsAndGatesAreNamedCorrect == PartsSpec => []ArmsAndGatesAreNamed
PROOF
  <1>1. (part = "session" => SessionsPart!ArmsMeasuredAsNamed)
        /\ (part = "gate" => GatePart!GreenMeansChecked) => ArmsAndGatesAreNamed
    BY DEF ArmsAndGatesAreNamed
  <1> QED BY <1>1, SessionsAreNamed, GateIsGreen, PTL

-----------------------------------------------------------------------------
(* NoiseFloor: r1 here, r2 label, r3 floor, r4 global, r5 folds.              *)

FloorHeld == part = "floor" => NoiseFloorPart!FloorsHeld

Keys == {"sift", "dbp", "smt", "nosmt", "none"}

LEMMA PairIsFinite == \A x, y : IsFiniteSet({x, y})
PROOF
  <1>1. ASSUME NEW x, NEW y PROVE IsFiniteSet({x, y})
    <2>1. IsFiniteSet({x} \cup {y})
      BY FS_Singleton, FS_AddElement
    <2>2. {x} \cup {y} = {x, y}
      OBVIOUS
    <2> QED BY <2>1, <2>2
  <1> QED BY <1>1

(* Keys agree on a name when there is one of them only.                       *)
LEMMA AgreedIsOne ==
  /\ \A x : NoiseFloorPart!Agreed({x}) = x
  /\ \A V \in SUBSET Keys :
        NoiseFloorPart!Agreed(V) # NoiseFloorPart!Unnamed => V = {NoiseFloorPart!Agreed(V)}
PROOF
  <1>1. \A S : NoiseFloorPart!Cardinality(S) = Cardinality(S)
    BY DEF NoiseFloorPart!Cardinality, Cardinality
  <1>2. ASSUME NEW x PROVE NoiseFloorPart!Agreed({x}) = x
    <2>1. Cardinality({x}) = 1
      BY FS_Singleton
    <2>2. (CHOOSE v \in {x} : TRUE) \in {x}
      <3>1. \E v \in {x} : TRUE
        OBVIOUS
      <3> QED BY <3>1, Zenon
    <2>3. NoiseFloorPart!Cardinality({x}) = 1
      BY <1>1, <2>1
    <2>4. NoiseFloorPart!Agreed({x}) = (CHOOSE v \in {x} : TRUE)
      BY <2>3, Zenon DEF NoiseFloorPart!Agreed
    <2> QED BY <2>2, <2>4
  <1>3. ASSUME NEW V \in SUBSET Keys, NoiseFloorPart!Agreed(V) # NoiseFloorPart!Unnamed
        PROVE  V = {NoiseFloorPart!Agreed(V)}
    <2>1. Cardinality(V) = 1
      BY <1>1, <1>3 DEF NoiseFloorPart!Agreed
    <2>2. IsFiniteSet(Keys)
      <3>1. IsFiniteSet({"sift", "dbp"}) /\ IsFiniteSet({"smt", "nosmt"}) /\ IsFiniteSet({"none"})
        BY PairIsFinite, FS_Singleton
      <3>2. IsFiniteSet({"sift", "dbp"} \cup {"smt", "nosmt"} \cup {"none"})
        BY <3>1, FS_Union
      <3>3. {"sift", "dbp"} \cup {"smt", "nosmt"} \cup {"none"} = Keys
        BY DEF Keys
      <3> QED BY <3>2, <3>3
    <2>3. IsFiniteSet(V)
      BY <2>2, FS_Subset
    <2>4. PICK x : V = {x}
      BY <2>1, <2>3, FS_Singleton
    <2> QED BY <1>2, <2>4
  <1> QED BY <1>2, <1>3

LEMMA PlacesAre ==
  /\ \A p \in NoiseFloorPart!Place :
        /\ p = [dataset |-> p.dataset, env |-> p.env]
        /\ p.dataset \in Keys /\ p.env \in Keys
        /\ p.dataset # NoiseFloorPart!Unnamed /\ p.env # NoiseFloorPart!Unnamed
PROOF
  BY DEF NoiseFloorPart!Place, Keys, NoiseFloorPart!Unnamed

(* A spread that names its place was measured there and nowhere else.         *)
LEMMA NamesItsPlace ==
  ASSUME NEW f, NoiseFloorPart!Names(f), NoiseFloorPart!Named(f)
  PROVE  f.of = {[dataset |-> f.dataset, env |-> f.env]}
PROOF
  <1>1. f.of \subseteq NoiseFloorPart!Place /\ f.of # {}
    BY DEF NoiseFloorPart!Names
  <1> DEFINE ds == {p.dataset : p \in f.of}
             es == {p.env : p \in f.of}
  <1>2. ds \in SUBSET Keys /\ es \in SUBSET Keys
    BY <1>1, PlacesAre
  <1>3. f.dataset = NoiseFloorPart!Agreed(ds) /\ f.env = NoiseFloorPart!Agreed(es)
    BY DEF NoiseFloorPart!Names
  <1>4. ds = {f.dataset} /\ es = {f.env}
    <2> HIDE DEF ds, es
    <2> QED BY <1>2, <1>3, AgreedIsOne DEF NoiseFloorPart!Named
  <1>5. \A p \in f.of : p.dataset = f.dataset /\ p.env = f.env
    BY <1>4
  <1>6. \A p \in f.of : p = [dataset |-> f.dataset, env |-> f.env]
    BY <1>1, <1>5, PlacesAre
  <1> QED BY <1>1, <1>6

LEMMA FloorStarts == NoiseFloorPart!FloorInit => NoiseFloorPart!FloorsHeld
PROOF
  BY DEF NoiseFloorPart!FloorInit, NoiseFloorPart!FloorsHeld, NoiseFloorPart!Place,
         NoiseFloorPart!NoFloor

LEMMA StepFoldFloor ==
  ASSUME NoiseFloorPart!FloorsHeld, NEW l \in NoiseFloorPart!Label, NoiseFloorPart!Fold(l)
  PROVE  NoiseFloorPart!FloorsHeld'
PROOF
  <1>1. PICK n \in 1..3, dirty \in {0, 1} :
           /\ r2' = [r2 EXCEPT ![l] = {[place |-> r1, passes |-> n, dirty |-> dirty]}]
           /\ r3' = IF n < 3 THEN r3
                    ELSE [r3 EXCEPT ![l] =
                            {[dataset |-> r1.dataset, env |-> r1.env,
                              arms |-> {NoiseFloorPart!EngineOf(l)}, spread |-> TRUE, of |-> {r1},
                              clean |-> n - dirty, discards |-> FALSE]}]
    BY DEF NoiseFloorPart!Fold
  <1>2. UNCHANGED <<r1, r4>>
    BY DEF NoiseFloorPart!Fold
  <1>3. r1 \in NoiseFloorPart!Place /\ DOMAIN r2 = NoiseFloorPart!Label
        /\ DOMAIN r3 = NoiseFloorPart!Label
    BY DEF NoiseFloorPart!FloorsHeld
  <1>4. \A k \in NoiseFloorPart!Label : \A m \in r2'[k] : m.place \in NoiseFloorPart!Place
    BY <1>1, <1>3 DEF NoiseFloorPart!FloorsHeld
  <1> DEFINE new == [dataset |-> r1.dataset, env |-> r1.env,
                     arms |-> {NoiseFloorPart!EngineOf(l)}, spread |-> TRUE, of |-> {r1},
                     clean |-> n - dirty, discards |-> FALSE]
  <1>5. NoiseFloorPart!Names(new) /\ new.arms = {NoiseFloorPart!EngineOf(l)}
    <2>1. /\ {p.dataset : p \in {r1}} = {r1.dataset}
          /\ {p.env : p \in {r1}} = {r1.env}
      OBVIOUS
    <2>2. /\ NoiseFloorPart!Agreed({p.dataset : p \in {r1}}) = r1.dataset
          /\ NoiseFloorPart!Agreed({p.env : p \in {r1}}) = r1.env
      BY <2>1, AgreedIsOne
    <2>3. new.of = {r1} /\ new.dataset = r1.dataset /\ new.env = r1.env
      OBVIOUS
    <2> HIDE DEF new
    <2>4. NoiseFloorPart!Names(new)
      BY <1>3, <2>2, <2>3 DEF NoiseFloorPart!Names
    <2> QED BY <2>4 DEF new
  <1>6. \A k \in NoiseFloorPart!Label : \A f \in r3'[k] : f \in r3[k] \/ (k = l /\ f = new)
    BY <1>1, <1>3
  <1>7. DOMAIN r2' = NoiseFloorPart!Label /\ DOMAIN r3' = NoiseFloorPart!Label
    BY <1>1, <1>3
  <1> HIDE DEF new
  <1>8. \A k \in NoiseFloorPart!Label : \A f \in r3'[k] :
           NoiseFloorPart!Names(f) /\ f.arms = {NoiseFloorPart!EngineOf(k)}
    BY <1>5, <1>6 DEF NoiseFloorPart!FloorsHeld
  <1>9. \A f \in r4' : NoiseFloorPart!Names(f) /\ (f.spread => f.clean >= 3)
    BY <1>2 DEF NoiseFloorPart!FloorsHeld
  <1> QED BY <1>2, <1>3, <1>4, <1>7, <1>8, <1>9 DEF NoiseFloorPart!FloorsHeld, NoiseFloorPart!Names

LEMMA StepMeasureNoise ==
  ASSUME NoiseFloorPart!FloorsHeld, NoiseFloorPart!MeasureNoise
  PROVE  NoiseFloorPart!FloorsHeld'
PROOF
  <1>1. PICK ls \in (SUBSET NoiseFloorPart!Label) \ {{}} :
           /\ \A l \in ls : r2[l] # {}
           /\ LET places == {m.place : m \in UNION {r2[l] : l \in ls}}
              IN  r4' = {[dataset |-> NoiseFloorPart!Agreed({p.dataset : p \in places}),
                          env |-> NoiseFloorPart!Agreed({p.env : p \in places}),
                          arms |-> {NoiseFloorPart!EngineOf(l) : l \in ls},
                          spread |-> NoiseFloorPart!CleanPasses(ls) >= 3, of |-> places,
                          clean |-> NoiseFloorPart!CleanPasses(ls), discards |-> TRUE]}
    BY DEF NoiseFloorPart!MeasureNoise
  <1>2. UNCHANGED <<r1, r2, r3>>
    BY DEF NoiseFloorPart!MeasureNoise
  <1> DEFINE places == {m.place : m \in UNION {r2[l] : l \in ls}}
             clean == NoiseFloorPart!CleanPasses(ls)
  <1>3. places \subseteq NoiseFloorPart!Place
    BY DEF NoiseFloorPart!FloorsHeld
  <1>4. places # {}
    <2>1. PICK l \in ls : TRUE
      OBVIOUS
    <2>2. PICK m \in r2[l] : TRUE
      BY <1>1
    <2>3. m \in UNION {r2[k] : k \in ls}
      BY <2>2
    <2>4. m.place \in places
      BY <2>3
    <2> QED BY <2>4
  <1>5. PICK new : /\ r4' = {new} /\ new.dataset = NoiseFloorPart!Agreed({p.dataset : p \in places})
                   /\ new.env = NoiseFloorPart!Agreed({p.env : p \in places})
                   /\ new.of = places /\ new.clean = clean /\ (new.spread => clean >= 3)
    <2> DEFINE d == NoiseFloorPart!Agreed({p.dataset : p \in places})
               e == NoiseFloorPart!Agreed({p.env : p \in places})
               a == {NoiseFloorPart!EngineOf(l) : l \in ls}
               new == [dataset |-> d, env |-> e, arms |-> a, spread |-> clean >= 3, of |-> places,
                       clean |-> clean, discards |-> TRUE]
    <2>1. r4' = {new}
      BY <1>1
    <2> HIDE DEF d, e, a, places, clean
    <2>2. /\ new.dataset = d /\ new.env = e /\ new.of = places /\ new.clean = clean
          /\ (new.spread => clean >= 3)
      OBVIOUS
    <2> HIDE DEF new
    <2> QED BY <2>1, <2>2 DEF d, e
  <1> HIDE DEF places, clean
  <1>6. NoiseFloorPart!Names(new) /\ (new.spread => new.clean >= 3)
    BY <1>3, <1>4, <1>5 DEF NoiseFloorPart!Names
  <1>7. \A f \in r4' : NoiseFloorPart!Names(f) /\ (f.spread => f.clean >= 3)
    BY <1>5, <1>6
  <1> QED BY <1>2, <1>7 DEF NoiseFloorPart!FloorsHeld, NoiseFloorPart!Names

(* Why the band is the rows'.                                                 *)
LEMMA BandsItsRows == NoiseFloorPart!FloorsHeld => NoiseFloorPart!BandIsTheRows
PROOF
  <1> SUFFICES ASSUME NoiseFloorPart!FloorsHeld,
                      NEW ls \in SUBSET NoiseFloorPart!Label,
                      NoiseFloorPart!Cardinality(ls) = 2, NoiseFloorPart!Measured(ls)
               PROVE  /\ \A f \in NoiseFloorPart!GivesVerdict(ls) :
                            NoiseFloorPart!Named(f) => f.of = NoiseFloorPart!Places(ls)
                      /\ "qd-a" \in ls /\ NoiseFloorPart!ParityBand(ls) # {}
                           /\ NoiseFloorPart!Found(ls) # {}
                         => \A l \in ls : r3[l] # NoiseFloorPart!NoFloor
                      /\ \A f \in NoiseFloorPart!GivesVerdict(ls) :
                            NoiseFloorPart!Found(ls) = {} => f.clean >= 3
    BY DEF NoiseFloorPart!BandIsTheRows
  <1> DEFINE found == NoiseFloorPart!Found(ls)
  <1>1. Cardinality(ls) = 2 /\ IsFiniteSet(ls)
    <2>1. NoiseFloorPart!Cardinality(ls) = Cardinality(ls)
      BY DEF NoiseFloorPart!Cardinality, Cardinality
    <2>2. IsFiniteSet(NoiseFloorPart!Label)
      <3>1. IsFiniteSet({"sm-a", "sm-b"} \cup {"qd-a"})
        BY PairIsFinite, FS_AddElement
      <3>2. {"sm-a", "sm-b"} \cup {"qd-a"} = NoiseFloorPart!Label
        BY DEF NoiseFloorPart!Label
      <3> QED BY <3>1, <3>2
    <2> QED BY <2>1, <2>2, FS_Subset
  <1>2. ls # {}
    BY <1>1, FS_EmptySet
  <1>3. \A g \in found : NoiseFloorPart!Names(g)
    BY DEF NoiseFloorPart!Found, NoiseFloorPart!FloorsHeld
  <1>4. \A p \in NoiseFloorPart!Places(ls) : p \in NoiseFloorPart!Place
    BY DEF NoiseFloorPart!Places, NoiseFloorPart!FloorsHeld
  <1>5. NoiseFloorPart!Places(ls) # {}
    <2>1. PICK l \in ls : TRUE
      BY <1>2
    <2>2. PICK m \in r2[l] : TRUE
      BY DEF NoiseFloorPart!Measured
    <2>3. m \in UNION {r2[k] : k \in ls}
      BY <2>2
    <2>4. m.place \in NoiseFloorPart!Places(ls)
      BY <2>3 DEF NoiseFloorPart!Places
    <2> QED BY <2>4
  <1>6. ASSUME NEW f \in NoiseFloorPart!FloorFor(ls), NoiseFloorPart!Named(f)
        PROVE  f.of = {[dataset |-> f.dataset, env |-> f.env]}
    <2>1. CASE found = {}
      <3>1. f \in r4
        BY <2>1 DEF NoiseFloorPart!FloorFor
      <3>2. NoiseFloorPart!Names(f)
        BY <3>1 DEF NoiseFloorPart!FloorsHeld
      <3> QED BY <1>6, <3>2, NamesItsPlace
    <2>2. CASE found # {}
      <3> DEFINE ds == {g.dataset : g \in found}
                 es == {g.env : g \in found}
                 of == UNION {g.of : g \in found}
      <3>1. f.dataset = NoiseFloorPart!Agreed(ds) /\ f.env = NoiseFloorPart!Agreed(es)
            /\ f.of = of
        BY <2>2 DEF NoiseFloorPart!FloorFor
      <3>2. \A g \in found : g.dataset \in Keys /\ g.env \in Keys
        <4> SUFFICES ASSUME NEW g \in found PROVE g.dataset \in Keys /\ g.env \in Keys
          OBVIOUS
        <4> DEFINE gd == {p.dataset : p \in g.of}
                   ge == {p.env : p \in g.of}
        <4>1. gd \in SUBSET Keys /\ ge \in SUBSET Keys
          BY <1>3, PlacesAre DEF NoiseFloorPart!Names
        <4>2. g.dataset = NoiseFloorPart!Agreed(gd) /\ g.env = NoiseFloorPart!Agreed(ge)
          BY <1>3 DEF NoiseFloorPart!Names
        <4> HIDE DEF gd, ge
        <4>3. g.dataset = NoiseFloorPart!Unnamed \/ g.dataset \in gd
          BY <4>1, <4>2, AgreedIsOne
        <4>4. g.env = NoiseFloorPart!Unnamed \/ g.env \in ge
          BY <4>1, <4>2, AgreedIsOne
        <4> QED BY <4>1, <4>3, <4>4 DEF Keys, NoiseFloorPart!Unnamed
      <3>3. ds \in SUBSET Keys /\ es \in SUBSET Keys
        BY <3>2
      <3>4. ds = {f.dataset} /\ es = {f.env}
        <4> HIDE DEF ds, es
        <4> QED BY <1>6, <3>1, <3>3, AgreedIsOne DEF NoiseFloorPart!Named
      <3>5. \A g \in found : g.dataset = f.dataset /\ g.env = f.env
        BY <3>4
      <3>6. \A g \in found : g.of = {[dataset |-> f.dataset, env |-> f.env]}
        <4> SUFFICES ASSUME NEW g \in found
                     PROVE  g.of = {[dataset |-> f.dataset, env |-> f.env]}
          OBVIOUS
        <4>1. NoiseFloorPart!Named(g)
          BY <1>6, <3>5 DEF NoiseFloorPart!Named
        <4>2. g.of = {[dataset |-> g.dataset, env |-> g.env]}
          BY <1>3, <4>1, NamesItsPlace
        <4> QED BY <3>5, <4>2
      <3> QED BY <2>2, <3>1, <3>6
    <2> QED BY <2>1, <2>2
  <1>7. ASSUME NEW f \in NoiseFloorPart!GivesVerdict(ls), NoiseFloorPart!Named(f)
        PROVE  f.of = NoiseFloorPart!Places(ls)
    <2>1. f \in NoiseFloorPart!FloorFor(ls) /\ ~NoiseFloorPart!Refuses(f, ls)
      BY DEF NoiseFloorPart!GivesVerdict
    <2>2. \A p \in NoiseFloorPart!Places(ls) : p.dataset = f.dataset /\ p.env = f.env
      BY <1>7, <2>1 DEF NoiseFloorPart!Refuses, NoiseFloorPart!Named
    <2>3. \A p \in NoiseFloorPart!Places(ls) : p = [dataset |-> f.dataset, env |-> f.env]
      BY <1>4, <2>2, PlacesAre
    <2>4. f.of = {[dataset |-> f.dataset, env |-> f.env]}
      BY <1>6, <1>7, <2>1
    <2> QED BY <1>5, <2>3, <2>4
  <1>8. ASSUME "qd-a" \in ls, NoiseFloorPart!ParityBand(ls) # {}, found # {}
        PROVE  \A l \in ls : r3[l] # NoiseFloorPart!NoFloor
    <2>1. PICK f \in NoiseFloorPart!FloorFor(ls) : {NoiseFloorPart!EngineOf(l) : l \in ls} \subseteq f.arms
      BY <1>8 DEF NoiseFloorPart!ParityBand, NoiseFloorPart!GivesVerdict
    <2>2. f.arms = UNION {g.arms : g \in found}
      BY <1>8, <2>1 DEF NoiseFloorPart!FloorFor
    <2>3. \A l \in ls : \E k \in ls : r3[k] # {} /\ NoiseFloorPart!EngineOf(k) = NoiseFloorPart!EngineOf(l)
      <3> SUFFICES ASSUME NEW l \in ls
                   PROVE \E k \in ls : r3[k] # {} /\ NoiseFloorPart!EngineOf(k) = NoiseFloorPart!EngineOf(l)
        OBVIOUS
      <3>1. PICK g \in found : NoiseFloorPart!EngineOf(l) \in g.arms
        BY <2>1, <2>2
      <3>2. PICK k \in ls : g \in r3[k]
        BY <3>1 DEF NoiseFloorPart!Found
      <3>3. g.arms = {NoiseFloorPart!EngineOf(k)}
        BY <3>2 DEF NoiseFloorPart!FloorsHeld
      <3> QED BY <3>1, <3>2, <3>3
    <2>4. PICK x : ls \ {"qd-a"} = {x}
      <3>1. IsFiniteSet(ls \ {"qd-a"}) /\ Cardinality(ls \ {"qd-a"}) = 1
        BY <1>1, <1>8, FS_RemoveElement
      <3> QED BY <3>1, FS_Singleton
    <2>5. ls = {"qd-a", x} /\ x \in {"sm-a", "sm-b"}
      BY <1>8, <2>4 DEF NoiseFloorPart!Label
    <2> QED BY <2>3, <2>5 DEF NoiseFloorPart!EngineOf, NoiseFloorPart!NoFloor
  <1>9. ASSUME NEW f \in NoiseFloorPart!GivesVerdict(ls), found = {} PROVE f.clean >= 3
    BY <1>9 DEF NoiseFloorPart!GivesVerdict, NoiseFloorPart!FloorFor, NoiseFloorPart!FloorsHeld
  <1> QED BY <1>7, <1>8, <1>9

LEMMA StepFloor ==
  ASSUME NoiseFloorPart!FloorsHeld, NoiseFloorPart!FloorNext
  PROVE  NoiseFloorPart!FloorsHeld'
PROOF
  <1>1. CASE NoiseFloorPart!Move
    <2>1. r1' \in NoiseFloorPart!Place /\ UNCHANGED <<r2, r3, r4>>
      BY <1>1 DEF NoiseFloorPart!Move
    <2> QED BY <2>1 DEF NoiseFloorPart!FloorsHeld, NoiseFloorPart!Names
  <1> QED BY <1>1, StepFoldFloor, StepMeasureNoise DEF NoiseFloorPart!FloorNext

-----------------------------------------------------------------------------
(* Page: r1 rows, r2 reps, r3 perfSet, r4 conf, r5 clock.                     *)

PageHeld == part = "page" => PagePart!PageInv

LEMMA PageCounts == \A S : PagePart!Cardinality(S) = Cardinality(S)
PROOF
  BY DEF PagePart!Cardinality, Cardinality

LEMMA MinIsOneOf ==
  ASSUME NEW ts \in SUBSET Nat, ts # {}
  PROVE  PagePart!Min(ts) \in ts
PROOF
  <1>1. \E t \in ts : \A u \in ts : t <= u
    BY LeastExists
  <1> QED BY <1>1, Zenon DEF PagePart!Min

-----------------------------------------------------------------------------
(* Points in time, of which no two of different labels are at one time.       *)
Points(n, M) ==
    /\ M \subseteq [t : 0..n, l : PagePart!Label]
    /\ \A p, q \in M : p.t = q.t => p.l = q.l
Changes(M) == {p \in M : \E q \in M :
                  /\ p.t < q.t /\ p.l # q.l
                  /\ ~\E r \in M : p.t < r.t /\ r.t < q.t}

LEMMA PointsAreFinite ==
  ASSUME NEW n \in Nat, NEW M, Points(n, M) PROVE IsFiniteSet(M)
PROOF
  <1> DEFINE A == 0..n
             B == {"sm", "qd"}
             R == [t : A, l : B]
             f == [x \in A \X B |-> [t |-> x[1], l |-> x[2]]]
  <1>1. IsFiniteSet(A) /\ IsFiniteSet(B)
    <2>1. IsFiniteSet(B)
      BY PairIsFinite
    <2>2. 0 \in Int /\ n \in Int
      OBVIOUS
    <2>3. IsFiniteSet(A)
      BY <2>2, FS_Interval
    <2> QED BY <2>1, <2>3
  <1>2. f \in Surjection(A \X B, R)
    <2>1. f \in [A \X B -> R]
      OBVIOUS
    <2>2. \A r \in R : \E x \in A \X B : f[x] = r
      <3> SUFFICES ASSUME NEW r \in R PROVE \E x \in A \X B : f[x] = r
        OBVIOUS
      <3>1. <<r.t, r.l>> \in A \X B
        OBVIOUS
      <3>2. f[<<r.t, r.l>>] = r
        BY <3>1
      <3> QED BY <3>1, <3>2
    <2> HIDE DEF A, B, R, f
    <2> QED BY <2>1, <2>2 DEF Surjection
  <1>3. M \in SUBSET R
    BY DEF Points, PagePart!Label
  <1> HIDE DEF A, B, R, f
  <1>4. IsFiniteSet(A \X B)
    BY <1>1, FS_Product
  <1>5. IsFiniteSet(R)
    BY <1>2, <1>4, FS_Surjection
  <1> QED BY <1>3, <1>5, FS_Subset

(* Between two points of different labels there is one where it changes.      *)
LEMMA ChangeBetween ==
  ASSUME NEW n \in Nat, NEW M, Points(n, M), NEW x \in M, NEW y \in M,
         x.t < y.t, x.l # y.l
  PROVE  \E p \in Changes(M) : p.t < y.t /\ x.t <= p.t
PROOF
  <1>1. \A p \in M : p.t \in 0..n /\ p.l \in PagePart!Label
    BY DEF Points
  <1> DEFINE before == {p \in M : p.l = x.l /\ p.t < y.t}
             ts == {p.t : p \in before}
  <1>2. PICK p \in before : \A q \in before : q.t <= p.t
    <2>1. x \in before
      OBVIOUS
    <2>2. ts \subseteq 0..n /\ ts # {}
      BY <1>1, <2>1
    <2>3. PICK t \in ts : \A u \in ts : u <= t
      <3> HIDE DEF ts
      <3> QED BY <2>2, LatestExists
    <2>4. PICK p \in before : p.t = t
      OBVIOUS
    <2>5. \A q \in before : q.t <= p.t
      BY <2>3, <2>4
    <2> QED BY <2>5
  <1> DEFINE after == {q \in M : p.t < q.t}
             us == {q.t : q \in after}
  <1>3. PICK q \in after : \A r \in after : q.t <= r.t
    <2>1. y \in after
      OBVIOUS
    <2>2. us \in SUBSET Nat /\ us # {}
      BY <1>1, <2>1
    <2>3. PICK t \in us : \A u \in us : t <= u
      <3> HIDE DEF us
      <3> QED BY <2>2, LeastExists
    <2>4. PICK q \in after : q.t = t
      OBVIOUS
    <2>5. \A r \in after : q.t <= r.t
      BY <2>3, <2>4
    <2> QED BY <2>5
  <1>4. p \in M /\ q \in M /\ p.l = x.l /\ p.t < y.t /\ p.t < q.t /\ q.t <= y.t /\ x.t <= p.t
    BY <1>2, <1>3
  <1>5. q.l # p.l
    <2>1. CASE q.t = y.t
      BY <1>4, <2>1 DEF Points
    <2>2. CASE q.t # y.t
      <3>1. q.t < y.t
        BY <1>1, <1>4, <2>2
      <3>2. q.l = x.l => q.t <= p.t
        BY <1>2, <1>4, <3>1
      <3>3. ~(q.t <= p.t)
        BY <1>1, <1>4
      <3> QED BY <1>4, <3>2, <3>3
    <2> QED BY <2>1, <2>2
  <1>6. ~\E r \in M : p.t < r.t /\ r.t < q.t
    BY <1>1, <1>3, <1>4
  <1>7. p \in Changes(M)
    BY <1>4, <1>5, <1>6 DEF Changes
  <1> QED BY <1>4, <1>7

LEMMA BlocksAre ==
  ASSUME NEW n \in Nat, NEW M, Points(n, M)
  PROVE  /\ IsFiniteSet(Changes(M)) /\ Cardinality(Changes(M)) \in Nat
         /\ PagePart!Blocks(M) = 1 + Cardinality(Changes(M))
PROOF
  <1>1. Changes(M) \in SUBSET M
    BY DEF Changes
  <1>2. IsFiniteSet(Changes(M))
    BY <1>1, PointsAreFinite, FS_Subset
  <1>3. Cardinality(Changes(M)) \in Nat
    BY <1>2, FS_CardinalityType
  <1>4. PagePart!Blocks(M) = 1 + PagePart!Cardinality(Changes(M))
    BY DEF PagePart!Blocks, Changes
  <1> QED BY <1>2, <1>3, <1>4, PageCounts

(* Three turns are more than two blocks, and more than two blocks three turns. *)
LEMMA TurnsAreBlocks ==
  ASSUME NEW n \in Nat, NEW M, Points(n, M), NEW x \in M, NEW y \in M, NEW z \in M,
         x.t < y.t, x.l # y.l, y.t < z.t, y.l # z.l
  PROVE  PagePart!Blocks(M) > 2
PROOF
  <1>1. PICK p \in Changes(M) : p.t < y.t /\ x.t <= p.t
    BY ChangeBetween
  <1>2. PICK q \in Changes(M) : q.t < z.t /\ y.t <= q.t
    BY ChangeBetween
  <1>3. p # q
    <2>1. p.t \in 0..n /\ q.t \in 0..n /\ y.t \in 0..n
      BY DEF Points, Changes
    <2> QED BY <1>1, <1>2, <2>1
  <1>4. Cardinality({p} \cup {q}) = 2
    <2>1. IsFiniteSet({p}) /\ Cardinality({p}) = 1 /\ q \notin {p}
      BY <1>3, FS_Singleton
    <2> DEFINE S == {p}
    <2>2. IsFiniteSet(S) /\ Cardinality(S) = 1 /\ q \notin S
      BY <2>1
    <2>3. Cardinality(S \cup {q}) = 2
      <3> HIDE DEF S
      <3>1. Cardinality(S \cup {q}) = Cardinality(S) + 1
        BY <2>2, FS_AddElement
      <3> QED BY <2>2, <3>1
    <2> QED BY <2>3
  <1>5. IsFiniteSet(Changes(M)) /\ Cardinality(Changes(M)) \in Nat
        /\ PagePart!Blocks(M) = 1 + Cardinality(Changes(M))
    BY BlocksAre
  <1>6. {p} \cup {q} \in SUBSET Changes(M)
    OBVIOUS
  <1>7. 2 <= Cardinality(Changes(M))
    BY <1>4, <1>5, <1>6, FS_Subset
  <1> QED BY <1>5, <1>7

LEMMA BlocksAreTurns ==
  ASSUME NEW n \in Nat, NEW M, Points(n, M), PagePart!Blocks(M) > 2
  PROVE  \E x, y, z \in M : x.t < y.t /\ x.l # y.l /\ y.t < z.t /\ y.l # z.l
PROOF
  <1>0. \A p \in M : p.t \in 0..n /\ p.l \in {"sm", "qd"} /\ p = [t |-> p.t, l |-> p.l]
    BY DEF Points, PagePart!Label
  <1>1. IsFiniteSet(Changes(M)) /\ Cardinality(Changes(M)) \in Nat /\ Cardinality(Changes(M)) > 1
    BY BlocksAre
  <1>2. PICK a \in Changes(M) : TRUE
    BY <1>1, FS_EmptySet
  <1>3. PICK b \in Changes(M) : b # a
    <2>1. Changes(M) # {a}
      BY <1>1, FS_Singleton
    <2> QED BY <1>2, <2>1
  <1>4. \E p, q \in Changes(M) : p.t < q.t
    <2>1. a \in M /\ b \in M
      BY DEF Changes
    <2>2. a.t # b.t
      BY <1>0, <1>3, <2>1 DEF Points
    <2>3. a.t < b.t \/ b.t < a.t
      BY <1>0, <2>1, <2>2
    <2> QED BY <2>3
  <1>5. PICK p \in Changes(M), q \in Changes(M) : p.t < q.t
    BY <1>4
  <1>6. p \in M /\ q \in M
    BY DEF Changes
  <1>7. PICK pn \in M : p.t < pn.t /\ p.l # pn.l /\ ~\E r \in M : p.t < r.t /\ r.t < pn.t
    BY DEF Changes
  <1>8. PICK qn \in M : q.t < qn.t /\ q.l # qn.l
    BY DEF Changes
  <1>9. pn.t <= q.t
    BY <1>0, <1>5, <1>6, <1>7
  <1>10. pn.t < qn.t
    BY <1>0, <1>6, <1>8, <1>9
  <1>11. CASE q.l = p.l
    <2>1. qn.l # p.l /\ pn.t # q.t
      BY <1>6, <1>7, <1>8, <1>11 DEF Points
    <2>2. pn.t < q.t /\ pn.l # q.l
      BY <1>0, <1>6, <1>7, <1>9, <1>11, <2>1
    <2> QED BY <1>6, <1>7, <2>2
  <1>12. CASE q.l # p.l
    <2>1. q.l = pn.l
      BY <1>0, <1>6, <1>7, <1>12
    <2>2. pn.l # qn.l
      BY <1>8, <2>1
    <2> QED BY <1>6, <1>7, <1>10, <2>2
  <1> QED BY <1>11, <1>12

-----------------------------------------------------------------------------
LEMMA LabelsAre ==
  /\ PagePart!Label = {"sm", "qd"} /\ PagePart!RowIds = {"W4", "W4-sat50"} /\ PagePart!None = 0
  /\ "sm" \in PagePart!Label /\ "qd" \in PagePart!Label
  /\ PagePart!Cardinality(PagePart!Label) = 2
  /\ \A ls \in (SUBSET PagePart!Label) \ {{}} :
        \/ ls = PagePart!Label /\ PagePart!Cardinality(ls) = 2
        \/ ls # PagePart!Label /\ PagePart!Cardinality(ls) = 1
PROOF
  <1>1. PagePart!Label = {"sm", "qd"} /\ PagePart!RowIds = {"W4", "W4-sat50"} /\ PagePart!None = 0
    BY DEF PagePart!Label, PagePart!RowIds, PagePart!None
  <1>2. PagePart!Cardinality(PagePart!Label) = 2
    <2>1. "qd" \notin {"sm"} /\ {"sm"} \cup {"qd"} = PagePart!Label
      BY <1>1
    <2>2. Cardinality({"sm"} \cup {"qd"}) = 2
      <3>1. IsFiniteSet({"sm"}) /\ Cardinality({"sm"}) = 1
        BY FS_Singleton
      <3> DEFINE x == "qd"
                 S == {"sm"}
      <3>2. x \notin S /\ IsFiniteSet(S) /\ Cardinality(S) = 1
        BY <2>1, <3>1
      <3>3. Cardinality(S \cup {x}) = 2
        <4> HIDE DEF x, S
        <4> QED BY <3>2, FS_AddElement
      <3> QED BY <3>3
    <2> QED BY <2>1, <2>2, PageCounts
  <1>3. ASSUME NEW ls \in (SUBSET PagePart!Label) \ {{}}
        PROVE  \/ ls = PagePart!Label /\ PagePart!Cardinality(ls) = 2
               \/ ls # PagePart!Label /\ PagePart!Cardinality(ls) = 1
    <2>1. CASE ls = PagePart!Label
      BY <1>2, <2>1
    <2>2. CASE ls # PagePart!Label
      <3>1. ls = {"sm"} \/ ls = {"qd"}
        BY <1>1, <2>2
      <3>2. Cardinality(ls) = 1
        BY <3>1, FS_Singleton
      <3> QED BY <2>2, <3>2, PageCounts
    <2> QED BY <2>1, <2>2
  <1> QED BY <1>1, <1>2, <1>3

(* When the passes of a full run that begins after c were made.               *)
PassAt(c, n, ls, l) ==
    {c + (k - 1) * PagePart!Cardinality(ls)
       + (IF l = "qd" /\ ls = PagePart!Label THEN 2 ELSE 1) : k \in 1..n}

LEMMA PassTimes ==
  ASSUME NEW c \in Nat, NEW n \in 1..2, NEW ls \in (SUBSET PagePart!Label) \ {{}}
  PROVE  LET end == c + n * PagePart!Cardinality(ls)
         IN  /\ end \in Nat /\ c < end
             /\ \A l \in ls : PassAt(c, n, ls, l) # {} /\ PassAt(c, n, ls, l) \subseteq (c + 1)..end
             /\ ls = PagePart!Label => PassAt(c, n, ls, "sm") \cap PassAt(c, n, ls, "qd") = {}
             /\ ls = PagePart!Label /\ n > 1 =>
                   /\ c + 1 \in PassAt(c, n, ls, "sm") /\ c + 3 \in PassAt(c, n, ls, "sm")
                   /\ c + 2 \in PassAt(c, n, ls, "qd")
PROOF
  <1> DEFINE k == PagePart!Cardinality(ls)
  <1>1. CASE ls # PagePart!Label
    <2>1. k = 1
      BY <1>1, LabelsAre
    <2>2. \A l \in ls : PassAt(c, n, ls, l) = {c + (i - 1) * 1 + 1 : i \in 1..n}
      BY <1>1, <2>1 DEF PassAt
    <2>3. n * k = n
      BY <2>1
    <2>4. /\ {c + (i - 1) * 1 + 1 : i \in 1..n} # {}
          /\ {c + (i - 1) * 1 + 1 : i \in 1..n} \subseteq (c + 1)..(c + n)
      OBVIOUS
    <2>5. c + n \in Nat /\ c < c + n
      OBVIOUS
    <2> HIDE DEF k
    <2> QED BY <1>1, <2>2, <2>3, <2>4, <2>5 DEF k
  <1>2. CASE ls = PagePart!Label
    <2>1. k = 2
      BY <1>2, LabelsAre
    <2>2. /\ PassAt(c, n, ls, "sm") = {c + (i - 1) * 2 + 1 : i \in 1..n}
          /\ PassAt(c, n, ls, "qd") = {c + (i - 1) * 2 + 2 : i \in 1..n}
      BY <1>2, <2>1 DEF PassAt
    <2>3. n * k = 2 * n
      BY <2>1
    <2>4. /\ PassAt(c, n, ls, "sm") # {} /\ PassAt(c, n, ls, "sm") \subseteq (c + 1)..(c + 2 * n)
          /\ PassAt(c, n, ls, "qd") # {} /\ PassAt(c, n, ls, "qd") \subseteq (c + 1)..(c + 2 * n)
      BY <2>2
    <2>5. PassAt(c, n, ls, "sm") \cap PassAt(c, n, ls, "qd") = {}
      BY <2>2
    <2>6. n > 1 => /\ c + 1 \in PassAt(c, n, ls, "sm") /\ c + 3 \in PassAt(c, n, ls, "sm")
                   /\ c + 2 \in PassAt(c, n, ls, "qd")
      <3> SUFFICES ASSUME n > 1
                   PROVE  /\ c + 1 \in PassAt(c, n, ls, "sm") /\ c + 3 \in PassAt(c, n, ls, "sm")
                          /\ c + 2 \in PassAt(c, n, ls, "qd")
        OBVIOUS
      <3>1. 1 \in 1..n /\ 2 \in 1..n
        OBVIOUS
      <3>2. /\ c + 1 = c + (1 - 1) * 2 + 1 /\ c + 3 = c + (2 - 1) * 2 + 1
            /\ c + 2 = c + (1 - 1) * 2 + 2
        OBVIOUS
      <3> QED BY <2>2, <3>1, <3>2
    <2>7. c + 2 * n \in Nat /\ c < c + 2 * n
      OBVIOUS
    <2>8. \A l \in ls : l = "sm" \/ l = "qd"
      BY <1>2, LabelsAre
    <2> HIDE DEF k
    <2> QED BY <2>3, <2>4, <2>5, <2>6, <2>7, <2>8 DEF k
  <1> QED BY <1>1, <1>2

(* What the rows of one label out of one session are.                         *)
RowsOf(rs, l, made, qps, perf, ref, session) ==
    /\ \A r \in rs :
          /\ r.of = l /\ r.made = made /\ r.when \in made /\ r.session = session
          /\ r.id \in PagePart!RowIds /\ r.qps = qps /\ r.perf = perf
          /\ (r.source = "closed" <=> r.id = "W4")
          /\ (r.source = "pinned" =>
                /\ ref # PagePart!None /\ r.rate = ref
                /\ r.refPerf = {s.perf : s \in PagePart!Saturations(perf)})
          /\ r.rate \in {PagePart!None, qps, ref}
    /\ \A id \in PagePart!RowIds : \E r \in rs : r.id = id

LEMMA PassRowsAre ==
  ASSUME NEW l, NEW made \in SUBSET Nat, made # {}, NEW qps, NEW perf, NEW ref, NEW session
  PROVE  RowsOf(PagePart!PassRows(l, made, qps, perf, ref, session),
                l, made, qps, perf, ref, session)
PROOF
  <1> DEFINE m == PagePart!Min(made)
             rp == IF ref = PagePart!None THEN {} ELSE {s.perf : s \in PagePart!Saturations(perf)}
             row(id) == [id |-> id, of |-> l, when |-> m, made |-> made, qps |-> qps, perf |-> perf,
                         session |-> session,
                         source |-> IF id = "W4" THEN "closed"
                                    ELSE IF ref = PagePart!None THEN "own" ELSE "pinned",
                         rate |-> IF id = "W4" THEN PagePart!None
                                  ELSE IF ref = PagePart!None THEN qps ELSE ref,
                         refPerf |-> rp]
             rs == PagePart!PassRows(l, made, qps, perf, ref, session)
  <1>1. m \in made
    BY MinIsOneOf
  <1>2. rs = {row(id) : id \in PagePart!RowIds}
    BY DEF PagePart!PassRows
  <1> HIDE DEF rs
  <1>3. ASSUME NEW r \in rs
        PROVE  /\ r.of = l /\ r.made = made /\ r.when \in made /\ r.session = session
               /\ r.id \in PagePart!RowIds /\ r.qps = qps /\ r.perf = perf
               /\ (r.source = "closed" <=> r.id = "W4")
               /\ (r.source = "pinned" => ref # PagePart!None /\ r.rate = ref /\ r.refPerf = rp)
               /\ r.rate \in {PagePart!None, qps, ref}
    <2>1. PICK id \in PagePart!RowIds : r = row(id)
      BY <1>2
    <2> HIDE DEF m, rp
    <2> QED BY <1>1, <2>1
  <1>4. ASSUME NEW id \in PagePart!RowIds PROVE \E r \in rs : r.id = id
    <2>1. row(id) \in rs
      BY <1>2
    <2>2. row(id).id = id
      OBVIOUS
    <2> HIDE DEF row
    <2> QED BY <2>1, <2>2
  <1> HIDE DEF m
  <1> QED BY <1>3, <1>4 DEF RowsOf, rs

(* A reference is one of the throughputs, read off this run's instrument.     *)
LEMMA ReferenceIs ==
  ASSUME PagePart!LoadsHeld, NEW perf
  PROVE  /\ PagePart!Reference(perf) \in {0, 4, 6}
         /\ PagePart!Reference(perf) # 0 => {s.perf : s \in PagePart!Saturations(perf)} = {perf}
PROOF
  <1> DEFINE seen == PagePart!Saturations(perf)
             qs == {r.qps : r \in seen}
  <1>1. \A r \in seen : r.qps \in {4, 6} /\ r.perf = perf
    BY DEF PagePart!Saturations, PagePart!LoadsHeld
  <1>2. CASE seen = {}
    <2>1. {r.of : r \in seen} = {}
      BY <1>2
    <2>2. PagePart!Cardinality({r.of : r \in seen}) = 0
      BY <2>1, PageCounts, FS_EmptySet
    <2>3. PagePart!Reference(perf) = PagePart!None
      BY <2>2, LabelsAre DEF PagePart!Reference
    <2> QED BY <2>3, LabelsAre
  <1>3. CASE seen # {}
    <2>1. qs \in SUBSET Nat /\ qs # {} /\ qs \subseteq {4, 6}
      BY <1>1, <1>3
    <2>2. PagePart!Min(qs) \in {4, 6}
      <3> HIDE DEF qs
      <3> QED BY <2>1, MinIsOneOf
    <2>3. PagePart!Reference(perf) \in {PagePart!None, PagePart!Min(qs)}
      BY DEF PagePart!Reference
    <2>4. {s.perf : s \in seen} = {perf}
      <3> HIDE DEF seen
      <3> QED BY <1>1, <1>3
    <2> QED BY <2>2, <2>3, <2>4, LabelsAre
  <1> QED BY <1>2, <1>3

LEMMA PageStarts == PagePart!PageInit => PagePart!PageInv
PROOF
  <1> SUFFICES ASSUME PagePart!PageInit PROVE PagePart!PageInv
    OBVIOUS
  <1>1. /\ r1 = [l \in PagePart!Label |-> {}] /\ r2 = [l \in PagePart!Label |-> 0]
        /\ r4 = [l \in PagePart!Label |-> {}] /\ r5 = 0
    BY LabelsAre DEF PagePart!PageInit
  <1>2. PagePart!OpenLoop = {}
    BY <1>1 DEF PagePart!OpenLoop
  <1> QED BY <1>1, <1>2, LabelsAre
          DEF PagePart!PageInv, PagePart!TimesHeld, PagePart!LoadsHeld, PagePart!TurnsHeld,
              PagePart!LicencesHeld

(* What a full run adds: rows made after everything, of one load.             *)
LEMMA StepFullRun ==
  ASSUME PagePart!PageInv, PagePart!FullRun PROVE PagePart!PageInv'
PROOF
  <1>0. PagePart!TimesHeld /\ PagePart!LoadsHeld /\ PagePart!TurnsHeld /\ PagePart!LicencesHeld
    BY DEF PagePart!PageInv
  <1> DEFINE c == r5
             c2 == r5'
  <1> DEFINE Adds(n, ls, sat, perf) ==
           /\ c2 = c + n * PagePart!Cardinality(ls)
           /\ r1' = [l \in PagePart!Label |->
                       IF l \in ls
                       THEN PagePart!PassRows(l, PassAt(c, n, ls, l), sat[l], perf,
                                              PagePart!Reference(perf), c2)
                       ELSE r1[l]]
           /\ r2' = [l \in PagePart!Label |-> IF l \in ls THEN n ELSE r2[l]]
           /\ r3' = [l \in PagePart!Label |-> IF l \in ls THEN perf ELSE r3[l]]
           /\ UNCHANGED r4
  <1>1a. \E perf : \E n \in 1..2, ls \in (SUBSET PagePart!Label) \ {{}},
                        sat \in [PagePart!Label -> {4, 6}] : Adds(n, ls, sat, perf)
    <2>1. \E n \in 1..2, ls \in (SUBSET PagePart!Label) \ {{}}, perf \in BOOLEAN,
             sat \in [PagePart!Label -> {4, 6}] :
               c + n * PagePart!Cardinality(ls) <= MaxPageTimes /\ Adds(n, ls, sat, perf)
      BY Zenon DEF PagePart!FullRun, PassAt
    <2> HIDE DEF Adds
    <2> QED BY <2>1, Zenon
  <1>1b. PICK perf : \E n \in 1..2, ls \in (SUBSET PagePart!Label) \ {{}},
                        sat \in [PagePart!Label -> {4, 6}] : Adds(n, ls, sat, perf)
    BY <1>1a
  <1>1. PICK n \in 1..2, ls \in (SUBSET PagePart!Label) \ {{}}, sat \in [PagePart!Label -> {4, 6}] :
           /\ c2 = c + n * PagePart!Cardinality(ls)
           /\ r1' = [l \in PagePart!Label |->
                       IF l \in ls
                       THEN PagePart!PassRows(l, PassAt(c, n, ls, l), sat[l], perf,
                                              PagePart!Reference(perf), c2)
                       ELSE r1[l]]
           /\ r2' = [l \in PagePart!Label |-> IF l \in ls THEN n ELSE r2[l]]
           /\ r3' = [l \in PagePart!Label |-> IF l \in ls THEN perf ELSE r3[l]]
           /\ UNCHANGED r4
    BY <1>1b
  <1> DEFINE ref == PagePart!Reference(perf)
  <1>2. c \in Nat
    BY <1>0 DEF PagePart!TimesHeld
  <1>3. /\ c2 \in Nat /\ c < c2
        /\ \A l \in ls : PassAt(c, n, ls, l) # {} /\ PassAt(c, n, ls, l) \subseteq (c + 1)..c2
        /\ ls = PagePart!Label => PassAt(c, n, ls, "sm") \cap PassAt(c, n, ls, "qd") = {}
        /\ ls = PagePart!Label /\ n > 1 =>
              /\ c + 1 \in PassAt(c, n, ls, "sm") /\ c + 3 \in PassAt(c, n, ls, "sm")
              /\ c + 2 \in PassAt(c, n, ls, "qd")
    <2> HIDE DEF c
    <2> QED BY <1>1, <1>2, PassTimes
  <1>4. ref \in {0, 4, 6} /\ (ref # 0 => {s.perf : s \in PagePart!Saturations(perf)} = {perf})
    BY <1>0, ReferenceIs
  <1>5. ASSUME NEW l \in ls
        PROVE  /\ \A r \in r1'[l] :
                    /\ r.of = l /\ r.made = PassAt(c, n, ls, l) /\ r.when \in r.made /\ r.session = c2
                    /\ r.id \in PagePart!RowIds /\ r.qps \in {4, 6} /\ r.perf = perf
                    /\ (r.source = "closed" <=> r.id = "W4")
                    /\ (r.source = "pinned" => r.rate = ref /\ r.refPerf = {perf})
                    /\ r.rate \in {0, 4, 6}
               /\ \A id \in PagePart!RowIds : \E r \in r1'[l] : r.id = id
    <2>1. /\ r1'[l] = PagePart!PassRows(l, PassAt(c, n, ls, l), sat[l], perf, ref, c2)
          /\ sat[l] \in {4, 6}
      BY <1>1
    <2>2. PassAt(c, n, ls, l) \in SUBSET Nat /\ PassAt(c, n, ls, l) # {}
      <3> HIDE DEF c, c2
      <3>1. (c + 1)..c2 \subseteq Nat
        BY <1>2, <1>3
      <3> QED BY <1>3, <3>1
    <2> DEFINE made == PassAt(c, n, ls, l)
               rs == r1'[l]
               q == sat[l]
               cc == c2
    <2>3. RowsOf(rs, l, made, q, perf, ref, cc)
      <3>1. RowsOf(PagePart!PassRows(l, made, q, perf, ref, cc), l, made, q, perf, ref, cc)
        <4> HIDE DEF q, ref, cc, made
        <4> QED BY <2>2, PassRowsAre DEF made
      <3> QED BY <2>1, <3>1
    <2>4. q \in {4, 6}
      BY <2>1
    <2> HIDE DEF made, rs, q, ref, cc, c
    <2>5. \A r \in rs : r.source = "pinned" => r.rate = ref /\ r.refPerf = {perf}
      BY <1>4, <2>3, LabelsAre DEF RowsOf
    <2>6. \A r \in rs : r.rate \in {0, 4, 6} /\ r.qps \in {4, 6} /\ r.when \in r.made
      BY <1>4, <2>3, <2>4, LabelsAre DEF RowsOf
    <2> QED BY <2>3, <2>5, <2>6 DEF made, rs, c, cc, RowsOf
  <1>6. \A l \in PagePart!Label : l \notin ls => r1'[l] = r1[l] /\ r2'[l] = r2[l] /\ r3'[l] = r3[l]
    BY <1>1
  <1>7. \A l \in ls : r2'[l] = n /\ r3'[l] = perf /\ l \in PagePart!Label
    BY <1>1
  <1>8. \A l \in PagePart!Label : \A r \in r1[l] :
           /\ r.of = l /\ r.made \subseteq 1..c /\ r.when \in r.made /\ r.session \in 1..c
    BY <1>0 DEF PagePart!TimesHeld
  <1>9. DOMAIN r1' = PagePart!Label /\ DOMAIN r2' = PagePart!Label
    BY <1>1
  <1>10. PagePart!TimesHeld'
    <2>1. \A l \in PagePart!Label : \A r \in r1'[l] :
             /\ r.of = l /\ r.made \subseteq 1..c2 /\ r.when \in r.made /\ r.session \in 1..c2
      <3> HIDE DEF c, c2
      <3>1. 1..c \subseteq 1..c2 /\ (c + 1)..c2 \subseteq 1..c2 /\ c2 \in 1..c2
        BY <1>2, <1>3
      <3> QED BY <1>3, <1>5, <1>6, <1>8, <3>1
    <2>2. \A r \in r1'["sm"], s \in r1'["qd"] : r.made \cap s.made = {}
      <3> HIDE DEF c, c2
      <3>1. (c + 1)..c2 \cap 1..c = {}
        BY <1>2, <1>3
      <3>2. \A r \in r1["sm"], s \in r1["qd"] : r.made \cap s.made = {}
        BY <1>0 DEF PagePart!TimesHeld
      <3>3. CASE ls = PagePart!Label
        BY <1>3, <1>5, <3>3, LabelsAre
      <3>4. CASE ls # PagePart!Label
        <4>1. ~("sm" \in ls /\ "qd" \in ls)
          BY <3>4, LabelsAre
        <4> QED BY <1>3, <1>5, <1>6, <1>8, <3>1, <3>2, <4>1, LabelsAre
      <3> QED BY <3>3, <3>4
    <2> QED BY <1>3, <1>9, <2>1, <2>2 DEF PagePart!TimesHeld
  <1>11. PagePart!LoadsHeld'
    <2>1. \A l \in PagePart!Label : \A r \in r1[l] :
             /\ (r.source = "closed" <=> r.id = "W4") /\ r.perf = r3[l]
             /\ r.qps \in {4, 6} /\ r.rate \in {0, 4, 6}
             /\ r.source = "pinned" => r.refPerf = {r.perf}
      BY <1>0, LabelsAre DEF PagePart!LoadsHeld
    <2>2. \A l \in PagePart!Label : \A r \in r1'[l] :
             /\ (r.source = "closed" <=> r.id = "W4") /\ r.perf = r3'[l]
             /\ r.qps \in {4, 6} /\ r.rate \in {0, 4, 6}
             /\ r.source = "pinned" => r.refPerf = {r.perf}
      <3> HIDE DEF c, c2, ref
      <3> SUFFICES ASSUME NEW l \in PagePart!Label, NEW r \in r1'[l]
                   PROVE  /\ (r.source = "closed" <=> r.id = "W4") /\ r.perf = r3'[l]
                          /\ r.qps \in {4, 6} /\ r.rate \in {0, 4, 6}
                          /\ r.source = "pinned" => r.refPerf = {r.perf}
        OBVIOUS
      <3>1. CASE l \in ls
        BY <1>5, <1>7, <3>1
      <3>2. CASE l \notin ls
        BY <1>6, <2>1, <3>2
      <3> QED BY <3>1, <3>2
    <2>3. \A l \in PagePart!Label : r1'[l] # {} =>
             \A id \in PagePart!RowIds : \E r \in r1'[l] : r.id = id
      BY <1>0, <1>5, <1>6 DEF PagePart!LoadsHeld
    <2>4. \A r \in PagePart!OpenLoop' :
             \/ r \in PagePart!OpenLoop /\ r.session \in 1..c
             \/ r.session = c2 /\ (r.source = "pinned" => r.rate = ref)
      <3> SUFFICES ASSUME NEW r \in PagePart!OpenLoop'
                   PROVE \/ r \in PagePart!OpenLoop /\ r.session \in 1..c
                         \/ r.session = c2 /\ (r.source = "pinned" => r.rate = ref)
        OBVIOUS
      <3>1. PICK l \in PagePart!Label : r \in r1'[l] /\ r.source # "closed"
        BY DEF PagePart!OpenLoop
      <3> HIDE DEF c, c2, ref
      <3>2. CASE l \in ls
        BY <1>5, <3>1, <3>2
      <3>3. CASE l \notin ls
        BY <1>6, <1>8, <3>1, <3>3 DEF PagePart!OpenLoop
      <3> QED BY <3>2, <3>3
    <2>5. \A r, s \in PagePart!OpenLoop :
             r.source = "pinned" /\ s.source = "pinned" /\ r.session = s.session => r.rate = s.rate
      BY <1>0 DEF PagePart!LoadsHeld
    <2>6. \A r, s \in PagePart!OpenLoop' :
             r.source = "pinned" /\ s.source = "pinned" /\ r.session = s.session => r.rate = s.rate
      <3> HIDE DEF c, c2, ref
      <3>1. c2 \notin 1..c
        BY <1>2, <1>3
      <3> QED BY <2>4, <2>5, <3>1
    <2> QED BY <2>2, <2>3, <2>6, LabelsAre DEF PagePart!LoadsHeld
  <1>12. PagePart!TurnsHeld'
    <2> SUFFICES ASSUME NEW r \in r1'["sm"], NEW s \in r1'["qd"],
                        r2'["sm"] > 1, r.session = s.session
                 PROVE  \E t, v \in r.made, u \in s.made : t < u /\ u < v
      BY DEF PagePart!TurnsHeld
    <2> HIDE DEF c, c2, ref
    <2>1. c2 \notin 1..c /\ c + 1 < c + 2 /\ c + 2 < c + 3
      BY <1>2, <1>3
    <2>2. CASE "sm" \in ls /\ "qd" \in ls
      <3>1. ls = PagePart!Label /\ n > 1
        BY <1>7, <2>2, LabelsAre
      <3>2. c + 1 \in r.made /\ c + 3 \in r.made /\ c + 2 \in s.made
        BY <1>3, <1>5, <2>2, <3>1
      <3> QED BY <2>1, <3>2
    <2>3. CASE "sm" \notin ls /\ "qd" \notin ls
      <3>1. ls = {}
        BY <2>3, LabelsAre
      <3> QED BY <3>1
    <2>4. CASE "sm" \in ls /\ "qd" \notin ls
      BY <1>5, <1>6, <1>8, <2>1, <2>4, LabelsAre
    <2>5. CASE "sm" \notin ls /\ "qd" \in ls
      BY <1>5, <1>6, <1>8, <2>1, <2>5, LabelsAre
    <2> QED BY <2>2, <2>3, <2>4, <2>5
  <1>13. PagePart!LicencesHeld'
    <2>1. r4' = r4 /\ 1..c \subseteq 1..c2
      <3>1. r4' = r4
        BY <1>1
      <3> HIDE DEF c, c2
      <3> QED BY <1>2, <1>3, <3>1
    <2> QED BY <1>0, <2>1 DEF PagePart!LicencesHeld
  <1> QED BY <1>10, <1>11, <1>12, <1>13 DEF PagePart!PageInv

(* A row taken again is of this moment and follows no reference.              *)
LEMMA StepRetake ==
  ASSUME PagePart!PageInv, NEW l \in PagePart!Label, PagePart!Retake(l) PROVE PagePart!PageInv'
PROOF
  <1>0. PagePart!TimesHeld /\ PagePart!LoadsHeld /\ PagePart!TurnsHeld /\ PagePart!LicencesHeld
    BY DEF PagePart!PageInv
  <1> DEFINE c == r5
             c2 == r5'
             p == r3[l]
  <1>1. c \in Nat /\ c2 = c + 1
    BY <1>0 DEF PagePart!Retake, PagePart!TimesHeld
  <1>2. PICK id \in PagePart!RowIds, qps \in {4, 6} :
           LET sat == IF id = "W4" THEN qps ELSE (CHOOSE r \in r1[l] : r.id = "W4").qps
               new == {r \in PagePart!PassRows(l, {c2}, sat, p, PagePart!None, c2) : r.id = id}
           IN  r1' = [r1 EXCEPT ![l] = {r \in @ : r.id # id} \cup new]
    BY DEF PagePart!Retake
  <1>3. r1[l] # {} /\ r2' = [r2 EXCEPT ![l] = 1] /\ UNCHANGED <<r3, r4>>
    BY DEF PagePart!Retake
  <1>4. DOMAIN r1 = PagePart!Label /\ DOMAIN r2 = PagePart!Label
    BY <1>0 DEF PagePart!TimesHeld
  <1> DEFINE sat == IF id = "W4" THEN qps ELSE (CHOOSE r \in r1[l] : r.id = "W4").qps
             all == PagePart!PassRows(l, {c2}, sat, p, PagePart!None, c2)
  <1>5. sat \in {4, 6}
    <2>1. \E r \in r1[l] : r.id = "W4"
      BY <1>0, <1>3, LabelsAre DEF PagePart!LoadsHeld
    <2>2. (CHOOSE r \in r1[l] : r.id = "W4") \in r1[l]
      BY <2>1
    <2>3. (CHOOSE r \in r1[l] : r.id = "W4").qps \in {4, 6}
      BY <1>0, <2>2 DEF PagePart!LoadsHeld
    <2> QED BY <2>3
  <1>6. RowsOf(all, l, {c2}, sat, p, PagePart!None, c2)
    <2> DEFINE made == {c2}
    <2>1. made \in SUBSET Nat /\ made # {}
      <3> HIDE DEF c
      <3> QED BY <1>1
    <2>2. RowsOf(PagePart!PassRows(l, made, sat, p, PagePart!None, c2),
                 l, made, sat, p, PagePart!None, c2)
      <3> HIDE DEF made, sat, p, c2
      <3> QED BY <2>1, PassRowsAre
    <2> QED BY <2>2
  <1>7. r1' = [r1 EXCEPT ![l] = {r \in r1[l] : r.id # id} \cup {r \in all : r.id = id}]
    BY <1>2
  <1> HIDE DEF sat, all, p
  <1>8. \A k \in PagePart!Label : \A r \in r1'[k] :
           \/ r \in r1[k]
           \/ /\ k = l /\ r.of = l /\ r.made = {c2} /\ r.when = c2 /\ r.session = c2
              /\ r.qps \in {4, 6} /\ r.perf = p /\ (r.source = "closed" <=> r.id = "W4")
              /\ r.source # "pinned" /\ r.rate \in {0, 4, 6}
    <2> HIDE DEF c2
    <2> SUFFICES ASSUME NEW k \in PagePart!Label, NEW r \in r1'[k], r \notin r1[k]
                 PROVE /\ k = l /\ r.of = l /\ r.made = {c2} /\ r.when = c2 /\ r.session = c2
                       /\ r.qps \in {4, 6} /\ r.perf = p /\ (r.source = "closed" <=> r.id = "W4")
                       /\ r.source # "pinned" /\ r.rate \in {0, 4, 6}
      OBVIOUS
    <2>1. k = l /\ r \in all
      BY <1>4, <1>7
    <2> QED BY <1>5, <1>6, <2>1, LabelsAre DEF RowsOf
  <1>9. \A k \in PagePart!Label : r1'[k] # {} =>
           \A i \in PagePart!RowIds : \E r \in r1'[k] : r.id = i
    <2>1. \A k \in PagePart!Label : r1[k] # {} =>
             \A i \in PagePart!RowIds : \E r \in r1[k] : r.id = i
      BY <1>0 DEF PagePart!LoadsHeld
    <2>2. \E r \in all : r.id = id
      BY <1>6 DEF RowsOf
    <2>3. \A i \in PagePart!RowIds : \E r \in r1'[l] : r.id = i
      BY <1>3, <1>4, <1>7, <2>1, <2>2
    <2>4. \A k \in PagePart!Label : k # l => r1'[k] = r1[k]
      BY <1>7
    <2> QED BY <2>1, <2>3, <2>4
  <1>10. DOMAIN r1' = PagePart!Label /\ DOMAIN r2' = PagePart!Label
    BY <1>3, <1>4, <1>7
  <1>11. \A k \in PagePart!Label : \A r \in r1[k] :
            r.of = k /\ r.made \subseteq 1..c /\ r.when \in r.made /\ r.session \in 1..c
    BY <1>0 DEF PagePart!TimesHeld
  <1>12. c2 \notin 1..c /\ 1..c \subseteq 1..c2 /\ c2 \in 1..c2 /\ c2 \in Nat
    <2> HIDE DEF c, c2
    <2> QED BY <1>1
  <1>13. PagePart!TimesHeld'
    <2>1. \A k \in PagePart!Label : \A r \in r1'[k] :
             r.of = k /\ r.made \subseteq 1..c2 /\ r.when \in r.made /\ r.session \in 1..c2
      <3> HIDE DEF c, c2
      <3> QED BY <1>8, <1>11, <1>12
    <2>2. \A r \in r1'["sm"], s \in r1'["qd"] : r.made \cap s.made = {}
      <3>1. \A r \in r1["sm"], s \in r1["qd"] : r.made \cap s.made = {}
        BY <1>0 DEF PagePart!TimesHeld
      <3> HIDE DEF c, c2
      <3> SUFFICES ASSUME NEW r \in r1'["sm"], NEW s \in r1'["qd"] PROVE r.made \cap s.made = {}
        OBVIOUS
      <3>2. CASE r \in r1["sm"] /\ s \in r1["qd"]
        BY <3>1, <3>2
      <3>3. CASE r \in r1["sm"] /\ s \notin r1["qd"]
        <4>1. s.made = {c2} /\ r.made \subseteq 1..c
          BY <1>8, <1>11, <3>3, LabelsAre
        <4> QED BY <1>12, <4>1
      <3>4. CASE r \notin r1["sm"] /\ s \in r1["qd"]
        <4>1. r.made = {c2} /\ s.made \subseteq 1..c
          BY <1>8, <1>11, <3>4, LabelsAre
        <4> QED BY <1>12, <4>1
      <3>5. CASE r \notin r1["sm"] /\ s \notin r1["qd"]
        BY <1>8, <3>5, LabelsAre
      <3> QED BY <3>2, <3>3, <3>4, <3>5
    <2> QED BY <1>10, <1>12, <2>1, <2>2 DEF PagePart!TimesHeld
  <1>14. PagePart!LoadsHeld'
    <2>1. \A k \in PagePart!Label : \A r \in r1[k] :
             /\ (r.source = "closed" <=> r.id = "W4") /\ r.perf = r3[k]
             /\ r.qps \in {4, 6} /\ r.rate \in {0, 4, 6}
             /\ r.source = "pinned" => r.refPerf = {r.perf}
      BY <1>0, LabelsAre DEF PagePart!LoadsHeld
    <2>2. \A k \in PagePart!Label : \A r \in r1'[k] :
             /\ (r.source = "closed" <=> r.id = "W4") /\ r.perf = r3'[k]
             /\ r.qps \in {4, 6} /\ r.rate \in {0, 4, 6}
             /\ r.source = "pinned" => r.refPerf = {r.perf}
      <3>1. r3' = r3
        BY <1>3
      <3> HIDE DEF c, c2
      <3> QED BY <1>8, <2>1, <3>1 DEF p
    <2>3. \A r \in PagePart!OpenLoop' : r.source = "pinned" => r \in PagePart!OpenLoop
      BY <1>8 DEF PagePart!OpenLoop
    <2>4. \A r, s \in PagePart!OpenLoop :
             r.source = "pinned" /\ s.source = "pinned" /\ r.session = s.session => r.rate = s.rate
      BY <1>0 DEF PagePart!LoadsHeld
    <2>5. \A r, s \in PagePart!OpenLoop' :
             r.source = "pinned" /\ s.source = "pinned" /\ r.session = s.session => r.rate = s.rate
      BY <2>3, <2>4
    <2> QED BY <1>9, <2>2, <2>5, LabelsAre DEF PagePart!LoadsHeld
  <1>15. PagePart!TurnsHeld'
    <2> SUFFICES ASSUME NEW r \in r1'["sm"], NEW s \in r1'["qd"],
                        r2'["sm"] > 1, r.session = s.session
                 PROVE  \E t, v \in r.made, u \in s.made : t < u /\ u < v
      BY DEF PagePart!TurnsHeld
    <2>1. l # "sm"
      BY <1>3, <1>4
    <2>2. r2'["sm"] = r2["sm"] /\ r \in r1["sm"]
      BY <1>3, <1>7, <2>1
    <2>3. s \in r1["qd"]
      <3>1. r.session \in 1..c
        BY <1>11, <2>2, LabelsAre
      <3> HIDE DEF c, c2
      <3> QED BY <1>8, <1>12, <3>1, LabelsAre
    <2> QED BY <1>0, <2>2, <2>3 DEF PagePart!TurnsHeld
  <1>16. PagePart!LicencesHeld'
    BY <1>0, <1>3, <1>12 DEF PagePart!LicencesHeld
  <1> QED BY <1>13, <1>14, <1>15, <1>16 DEF PagePart!PageInv

LEMMA StepDiffer ==
  ASSUME PagePart!PageInv, PagePart!Differ PROVE PagePart!PageInv'
PROOF
  <1>0. PagePart!TimesHeld /\ PagePart!LoadsHeld /\ PagePart!TurnsHeld /\ PagePart!LicencesHeld
    BY DEF PagePart!PageInv
  <1> DEFINE c == r5
             c2 == r5'
  <1>1. c \in Nat /\ c2 = c + 1 /\ UNCHANGED <<r1, r2, r3>>
    BY <1>0 DEF PagePart!Differ, PagePart!TimesHeld
  <1>2. c2 \notin 1..c /\ 1..c \subseteq 1..c2 /\ c2 \in 1..c2 /\ c2 \in Nat
    <2> HIDE DEF c, c2
    <2> QED BY <1>1
  <1>3. PagePart!TimesHeld'
    BY <1>0, <1>1, <1>2 DEF PagePart!TimesHeld
  <1>4. PagePart!LoadsHeld'
    BY <1>0, <1>1 DEF PagePart!LoadsHeld, PagePart!OpenLoop
  <1>5. PagePart!TurnsHeld'
    BY <1>0, <1>1 DEF PagePart!TurnsHeld
  <1>6. \E ls, d : /\ d.hash = c2 /\ (d.t3 => d.scores)
                   /\ r4' = [l \in PagePart!Label |-> IF l \in ls THEN {d} ELSE r4[l]]
    <2>1. PICK ls \in (SUBSET PagePart!Label) \ {{}}, t3 \in BOOLEAN, scores \in BOOLEAN :
             /\ t3 => scores
             /\ r4' = [l \in PagePart!Label |->
                          IF l \in ls THEN {[hash |-> c2, t3 |-> t3, scores |-> scores]} ELSE r4[l]]
      BY Zenon DEF PagePart!Differ
    <2> DEFINE d == [hash |-> c2, t3 |-> t3, scores |-> scores]
    <2>2. d.hash = c2 /\ d.t3 = t3 /\ d.scores = scores
      BY Zenon
    <2>3. r4' = [l \in PagePart!Label |-> IF l \in ls THEN {d} ELSE r4[l]]
      BY <2>1
    <2> HIDE DEF d
    <2>4. d.t3 => d.scores
      BY <2>1, <2>2, Zenon
    <2> QED BY <2>2, <2>3, <2>4
  <1>7. PagePart!LicencesHeld'
    <2>1. PICK ls, d : /\ d.hash = c2 /\ (d.t3 => d.scores)
                       /\ r4' = [l \in PagePart!Label |-> IF l \in ls THEN {d} ELSE r4[l]]
      BY <1>6
    <2>2. \A l \in PagePart!Label : r4'[l] = {d} \/ r4'[l] = r4[l]
      BY <2>1
    <2>3. \A l \in PagePart!Label : \A e \in r4[l] :
             r4[l] = {e} /\ e.hash \in 1..c /\ (e.t3 => e.scores)
      BY <1>0 DEF PagePart!LicencesHeld
    <2>4. \A e \in r4["sm"], f \in r4["qd"] : e.hash = f.hash => e = f
      BY <1>0 DEF PagePart!LicencesHeld
    <2> HIDE DEF c, c2
    <2>5. \A l \in PagePart!Label : \A e \in r4'[l] :
             r4'[l] = {e} /\ e.hash \in 1..c2 /\ (e.t3 => e.scores)
      BY <1>2, <2>1, <2>2, <2>3
    <2>6. \A e \in r4'["sm"], f \in r4'["qd"] : e.hash = f.hash => e = f
      BY <1>2, <2>1, <2>2, <2>3, <2>4, LabelsAre
    <2> QED BY <2>5, <2>6 DEF PagePart!LicencesHeld, c2
  <1> QED BY <1>3, <1>4, <1>5, <1>7 DEF PagePart!PageInv

LEMMA PageStays ==
  ASSUME PagePart!PageInv, UNCHANGED <<r1, r2, r3, r4, r5>> PROVE PagePart!PageInv'
PROOF
  BY DEF PagePart!PageInv, PagePart!TimesHeld, PagePart!LoadsHeld, PagePart!TurnsHeld,
         PagePart!LicencesHeld, PagePart!OpenLoop

-----------------------------------------------------------------------------
(* Stamps and times of the rows are points, the stamps among the times.       *)
LEMMA TimesArePoints ==
  ASSUME PagePart!TimesHeld
  PROVE  /\ Points(r5, PagePart!MadeAt) /\ Points(r5, PagePart!Stamped)
         /\ PagePart!Stamped \subseteq PagePart!MadeAt
         /\ \A l \in PagePart!Label : \A r \in r1[l] : \A t \in r.made :
               [t |-> t, l |-> l] \in PagePart!MadeAt
PROOF
  <1>1. /\ r5 \in Nat
        /\ \A l \in PagePart!Label : \A r \in r1[l] :
              r.of = l /\ r.made \subseteq 1..r5 /\ r.when \in r.made /\ r.session \in 1..r5
        /\ \A r \in r1["sm"], s \in r1["qd"] : r.made \cap s.made = {}
    BY DEF PagePart!TimesHeld
  <1>2. \A p : p \in PagePart!MadeAt <=>
           \E l \in PagePart!Label : \E r \in r1[l] : \E t \in r.made : p = [t |-> t, l |-> l]
    BY DEF PagePart!MadeAt
  <1>3. \A p : p \in PagePart!Stamped <=>
           \E l \in PagePart!Label : \E r \in r1[l] : p = [t |-> r.when, l |-> l]
    BY DEF PagePart!Stamped
  <1>4. PagePart!Stamped \subseteq PagePart!MadeAt
    BY <1>1, <1>2, <1>3
  <1>5. PagePart!MadeAt \subseteq [t : 0..r5, l : PagePart!Label]
    <2> SUFFICES ASSUME NEW p \in PagePart!MadeAt PROVE p \in [t : 0..r5, l : PagePart!Label]
      OBVIOUS
    <2>1. PICK l \in PagePart!Label : \E r \in r1[l] : \E t \in r.made : p = [t |-> t, l |-> l]
      BY <1>2
    <2>2. PICK r \in r1[l] : \E t \in r.made : p = [t |-> t, l |-> l]
      BY <2>1
    <2>3. PICK t \in r.made : p = [t |-> t, l |-> l]
      BY <2>2
    <2>4. t \in 0..r5
      BY <1>1
    <2> QED BY <2>3, <2>4
  <1>6. \A p, q \in PagePart!MadeAt : p.t = q.t => p.l = q.l
    <2> SUFFICES ASSUME NEW p \in PagePart!MadeAt, NEW q \in PagePart!MadeAt,
                        p.t = q.t, p.l # q.l
                 PROVE  FALSE
      OBVIOUS
    <2>1. PICK l \in PagePart!Label : \E r \in r1[l] : \E t \in r.made : p = [t |-> t, l |-> l]
      BY <1>2
    <2>2. PICK r \in r1[l] : \E t \in r.made : p = [t |-> t, l |-> l]
      BY <2>1
    <2>3. p.t \in r.made /\ p.l = l
      BY <2>2
    <2>4. PICK m \in PagePart!Label : \E u \in r1[m] : \E t \in u.made : q = [t |-> t, l |-> m]
      BY <1>2
    <2>5. PICK s \in r1[m] : \E t \in s.made : q = [t |-> t, l |-> m]
      BY <2>4
    <2>6. q.t \in s.made /\ q.l = m
      BY <2>5
    <2>7. (l = "sm" /\ m = "qd") \/ (l = "qd" /\ m = "sm")
      BY <2>3, <2>6, LabelsAre
    <2> QED BY <1>1, <2>3, <2>6, <2>7
  <1>7. \A l \in PagePart!Label : \A r \in r1[l] : \A t \in r.made :
           [t |-> t, l |-> l] \in PagePart!MadeAt
    BY <1>2
  <1>8. Points(r5, PagePart!MadeAt)
    BY <1>5, <1>6 DEF Points
  <1>9. Points(r5, PagePart!Stamped)
    BY <1>4, <1>8 DEF Points
  <1> QED BY <1>4, <1>7, <1>8, <1>9

(* Called alternated, the passes were.                                        *)
LEMMA AlternatedIs ==
  ASSUME PagePart!TimesHeld, PagePart!TurnsHeld, \A l \in PagePart!Label : r1[l] # {},
         PagePart!Interleaving = "alternated",
         (\A l \in PagePart!Label : r2[l] > 1) => PagePart!Cardinality(PagePart!Sessions) = 1
  PROVE  PagePart!Blocks(PagePart!MadeAt) > 2
PROOF
  <1>1. r5 \in Nat
    BY DEF PagePart!TimesHeld
  <1>2. CASE \A l \in PagePart!Label : r2[l] > 1
    <2>1. PICK r \in r1["sm"], s \in r1["qd"] : TRUE
      BY LabelsAre
    <2>2. r.session = s.session
      <3>1. PagePart!Sessions \in SUBSET (1..r5)
        BY DEF PagePart!Sessions, PagePart!TimesHeld
      <3>2. 1 \in Int /\ r5 \in Int
        BY <1>1
      <3>3. IsFiniteSet(PagePart!Sessions)
        BY <3>1, <3>2, FS_Interval, FS_Subset
      <3>4. PICK x : PagePart!Sessions = {x}
        BY <1>2, <3>3, PageCounts, FS_Singleton
      <3>5. r \in UNION {r1[l] : l \in PagePart!Label} /\ s \in UNION {r1[l] : l \in PagePart!Label}
        BY LabelsAre
      <3>6. r.session \in PagePart!Sessions /\ s.session \in PagePart!Sessions
        BY <3>5 DEF PagePart!Sessions
      <3> QED BY <3>4, <3>6
    <2>3. PICK t \in r.made, v \in r.made, u \in s.made : t < u /\ u < v
      BY <1>2, <2>2, LabelsAre DEF PagePart!TurnsHeld
    <2> DEFINE x == [t |-> t, l |-> "sm"]
               y == [t |-> u, l |-> "qd"]
               z == [t |-> v, l |-> "sm"]
    <2>4. x \in PagePart!MadeAt /\ y \in PagePart!MadeAt /\ z \in PagePart!MadeAt
      BY LabelsAre, TimesArePoints
    <2>5. x.t < y.t /\ x.l # y.l /\ y.t < z.t /\ y.l # z.l
      BY <2>3
    <2> HIDE DEF x, y, z
    <2> QED BY <1>1, <2>4, <2>5, TimesArePoints, TurnsAreBlocks
  <1>3. CASE ~\A l \in PagePart!Label : r2[l] > 1
    <2>1. ~(PagePart!Blocks(PagePart!Stamped) <= 2)
      BY <1>3 DEF PagePart!Interleaving
    <2>2. PagePart!Blocks(PagePart!Stamped) > 2
      <3>1. PagePart!Blocks(PagePart!Stamped) \in Nat
        BY <1>1, TimesArePoints, BlocksAre
      <3> QED BY <2>1, <3>1
    <2>3. PICK x \in PagePart!Stamped, y \in PagePart!Stamped, z \in PagePart!Stamped :
             x.t < y.t /\ x.l # y.l /\ y.t < z.t /\ y.l # z.l
      BY <1>1, <2>2, TimesArePoints, BlocksAreTurns
    <2>4. x \in PagePart!MadeAt /\ y \in PagePart!MadeAt /\ z \in PagePart!MadeAt
      BY TimesArePoints
    <2> QED BY <1>1, <2>3, <2>4, TimesArePoints, TurnsAreBlocks
  <1> QED BY <1>2, <1>3

(* Said to be offered one load, they were.                                    *)
LEMMA LoadsAreOne ==
  ASSUME PagePart!TimesHeld, PagePart!LoadsHeld, \A l \in PagePart!Label : r1[l] # {},
         ~PagePart!OpenLoopMismatch, ~PagePart!PinnedApart
  PROVE  PagePart!Cardinality({r.rate : r \in PagePart!OpenLoop}) = 1
PROOF
  <1> DEFINE open == PagePart!OpenLoop
             rates == {r.rate : r \in open}
             sources == {r.source : r \in open}
             sessions == {r.session : r \in open}
  <1>1. PICK o \in open : TRUE
    <2>1. PICK o \in r1["sm"] : o.id = "W4-sat50"
      BY LabelsAre DEF PagePart!LoadsHeld
    <2>2. o.source # "closed"
      BY <2>1, LabelsAre DEF PagePart!LoadsHeld
    <2>3. o \in UNION {r1[l] : l \in PagePart!Label}
      BY LabelsAre
    <2> QED BY <2>2, <2>3 DEF PagePart!OpenLoop
  <1>2. \A r \in open : r.rate \in {0, 4, 6} /\ r.session \in 1..r5
    BY LabelsAre DEF PagePart!OpenLoop, PagePart!LoadsHeld, PagePart!TimesHeld
  <1>3. IsFiniteSet(rates)
    <2>1. IsFiniteSet({0, 4} \cup {6})
      BY PairIsFinite, FS_AddElement
    <2>2. rates \in SUBSET ({0, 4} \cup {6})
      BY <1>2
    <2> HIDE DEF rates
    <2> QED BY <2>1, <2>2, FS_Subset
  <1>4. Cardinality(rates) \in Nat /\ Cardinality(rates) # 0
    <2>1. rates # {}
      BY <1>1
    <2> HIDE DEF rates
    <2> QED BY <1>3, <2>1, FS_CardinalityType, FS_EmptySet
  <1>5. CASE sources # {"pinned"}
    <2>1. ~(PagePart!Cardinality(rates) > 1)
      BY <1>5 DEF PagePart!OpenLoopMismatch
    <2> HIDE DEF rates
    <2>2. Cardinality(rates) = 1
      BY <1>4, <2>1, PageCounts
    <2> QED BY <2>2, PageCounts DEF rates
  <1>6. CASE sources = {"pinned"}
    <2>1. ~(PagePart!Cardinality(sessions) > 1)
      BY <1>6 DEF PagePart!PinnedApart
    <2>2. IsFiniteSet(sessions)
      <3>1. sessions \in SUBSET (1..r5) /\ 1 \in Int /\ r5 \in Int
        BY <1>2 DEF PagePart!TimesHeld
      <3> HIDE DEF sessions
      <3> QED BY <3>1, FS_Interval, FS_Subset
    <2>3. Cardinality(sessions) = 1
      <3>1. sessions # {}
        BY <1>1
      <3> HIDE DEF sessions
      <3>2. Cardinality(sessions) \in Nat /\ Cardinality(sessions) # 0
        BY <2>2, <3>1, FS_CardinalityType, FS_EmptySet
      <3> QED BY <2>1, <3>2, PageCounts
    <2>4. \A r, s \in open : r.session = s.session
      <3>1. PICK x : sessions = {x}
        <4> HIDE DEF sessions
        <4> QED BY <2>2, <2>3, FS_Singleton
      <3>2. \A r \in open : r.session = x
        BY <3>1
      <3> QED BY <3>2
    <2>5. \A r \in open : r.source = "pinned"
      BY <1>6
    <2>6. \A r, s \in open : r.rate = s.rate
      BY <2>4, <2>5 DEF PagePart!LoadsHeld
    <2>7. rates = {o.rate}
      BY <1>1, <2>6
    <2>8. Cardinality(rates) = 1
      BY <2>7, FS_Singleton
    <2> QED BY <2>8, PageCounts
  <1> QED BY <1>5, <1>6

(* The card and the banner read the same licence.                             *)
LEMMA CardIsBanner ==
  ASSUME PagePart!TimesHeld, PagePart!LicencesHeld
  PROVE  /\ PagePart!CardComparative <=> PagePart!Comparative
         /\ PagePart!MatchedRecallShown =>
               /\ PagePart!CardComparative \/ PagePart!MatchedRecallCaveat
               /\ PagePart!Cardinality({c.hash : c \in PagePart!Carried}) = 1
               /\ \A c \in PagePart!Carried : c.scores
PROOF
  <1> DEFINE A == r4["sm"]
             B == r4["qd"]
             carried == PagePart!Carried
             hashes == {c.hash : c \in carried}
  <1>1. /\ \A c \in A : A = {c} /\ (c.t3 => c.scores)
        /\ \A c \in B : B = {c} /\ (c.t3 => c.scores)
        /\ \A c \in A, d \in B : c.hash = d.hash => c = d
    BY LabelsAre DEF PagePart!LicencesHeld
  <1>2. carried = A \cup B
    BY LabelsAre DEF PagePart!Carried
  <1>3. PagePart!Mismatched <=> A # {} /\ B # {} /\ A # B
    BY LabelsAre DEF PagePart!Mismatched
  <1>4. PagePart!LicenceRow = IF A # {} THEN A ELSE B
    BY DEF PagePart!LicenceRow
  <1>5. IsFiniteSet(hashes)
    <2>1. hashes \in SUBSET (1..r5) /\ 1 \in Int /\ r5 \in Int
      BY LabelsAre DEF PagePart!LicencesHeld, PagePart!Carried, PagePart!TimesHeld
    <2> HIDE DEF hashes
    <2> QED BY <2>1, FS_Interval, FS_Subset
  <1> HIDE DEF A, B, carried
  <1>6. PagePart!Cardinality(hashes) = 1 <=> \E x : hashes = {x}
    <2> HIDE DEF hashes
    <2> QED BY <1>5, PageCounts, FS_Singleton
  <1>7. (\E x : hashes = {x}) <=> carried # {} /\ ~PagePart!Mismatched
    <2>1. ASSUME NEW x, hashes = {x} PROVE carried # {} /\ ~PagePart!Mismatched
      <3>1. \A c \in carried : c.hash = x
        BY <2>1
      <3>2. carried # {}
        BY <2>1
      <3>3. ASSUME A # {}, B # {} PROVE A = B
        <4>1. PICK c \in A, d \in B : TRUE
          BY <3>3
        <4>2. c.hash = d.hash
          BY <1>2, <3>1
        <4> QED BY <1>1, <4>2
      <3> QED BY <1>3, <3>2, <3>3
    <2>2. ASSUME carried # {}, ~PagePart!Mismatched PROVE \E x : hashes = {x}
      <3>1. PICK c : carried = {c}
        BY <1>1, <1>2, <1>3, <2>2
      <3>2. hashes = {c.hash}
        BY <3>1
      <3> QED BY <3>2
    <2> QED BY <2>1, <2>2
  <1>8. ~PagePart!Mismatched => carried = PagePart!LicenceRow
    BY <1>2, <1>3, <1>4
  <1>9. PagePart!CardComparative <=> ~PagePart!Mismatched /\ \E c \in carried : c.t3
    BY <1>6, <1>7 DEF PagePart!CardComparative, carried
  <1>10. /\ PagePart!Comparative <=> ~PagePart!Mismatched /\ \E c \in carried : c.t3
         /\ PagePart!ScoresAgree <=> ~PagePart!Mismatched /\ \E c \in carried : c.scores
    BY <1>8 DEF PagePart!Comparative, PagePart!ScoresAgree
  <1>11. \A c \in carried : (c.t3 => c.scores) /\ (~PagePart!Mismatched => carried = {c})
    BY <1>1, <1>2, <1>3
  <1>12. ASSUME PagePart!MatchedRecallShown
         PROVE  /\ PagePart!CardComparative \/ PagePart!MatchedRecallCaveat
                /\ PagePart!Cardinality(hashes) = 1
                /\ \A c \in carried : c.scores
    <2>1. PagePart!Comparative \/ PagePart!ScoresAgree
      BY <1>12 DEF PagePart!MatchedRecallShown
    <2>2. ~PagePart!Mismatched /\ \E c \in carried : c.scores
      BY <1>10, <1>11, <2>1
    <2>3. \A c \in carried : c.scores
      BY <1>11, <2>2
    <2>4. PagePart!Cardinality(hashes) = 1
      <3> HIDE DEF hashes
      <3>1. carried # {}
        BY <2>2
      <3> QED BY <1>6, <1>7, <2>2, <3>1
    <2>5. PagePart!CardComparative \/ PagePart!MatchedRecallCaveat
      BY <1>9, <1>10, <2>1 DEF PagePart!MatchedRecallCaveat
    <2> QED BY <2>3, <2>4, <2>5
  <1> QED BY <1>9, <1>10, <1>12 DEF carried

LEMMA PageSpeaks == PagePart!PageInv => PagePart!PageSaysWhatWasMeasured
PROOF
  <1> SUFFICES ASSUME PagePart!PageInv, \A l \in PagePart!Label : r1[l] # {}
               PROVE  /\ /\ PagePart!Interleaving = "alternated"
                         /\ (\A l \in PagePart!Label : r2[l] > 1)
                              => PagePart!Cardinality(PagePart!Sessions) = 1
                         => PagePart!Blocks(PagePart!MadeAt) > 2
                      /\ ~PagePart!OpenLoopMismatch /\ ~PagePart!PinnedApart
                            => PagePart!Cardinality({r.rate : r \in PagePart!OpenLoop}) = 1
                      /\ \A r \in PagePart!OpenLoop : r.source = "pinned" => r.refPerf = {r.perf}
                      /\ PagePart!CardComparative = PagePart!Comparative
                      /\ PagePart!MatchedRecallShown =>
                            /\ PagePart!CardComparative \/ PagePart!MatchedRecallCaveat
                            /\ PagePart!Cardinality({c.hash : c \in PagePart!Carried}) = 1
                            /\ \A c \in PagePart!Carried : c.scores
    BY Zenon DEF PagePart!PageSaysWhatWasMeasured
  <1>1. PagePart!TimesHeld /\ PagePart!LoadsHeld /\ PagePart!TurnsHeld /\ PagePart!LicencesHeld
    BY DEF PagePart!PageInv
  <1>2. \A r \in PagePart!OpenLoop : r.source = "pinned" => r.refPerf = {r.perf}
    BY <1>1 DEF PagePart!OpenLoop, PagePart!LoadsHeld
  <1>3. PagePart!CardComparative = PagePart!Comparative
    <2>1. PagePart!CardComparative <=> PagePart!Comparative
      BY <1>1, CardIsBanner
    <2>2. PagePart!CardComparative \in BOOLEAN /\ PagePart!Comparative \in BOOLEAN
      BY Zenon DEF PagePart!CardComparative, PagePart!Comparative
    <2> QED BY <2>1, <2>2, Zenon
  <1> QED BY <1>1, <1>2, <1>3, AlternatedIs, LoadsAreOne, CardIsBanner

LEMMA FloorKept == FloorHeld /\ [PartsNext]_pvars => FloorHeld'
PROOF
  <1> SUFFICES ASSUME FloorHeld, [PartsNext]_pvars, part' = "floor"
               PROVE  NoiseFloorPart!FloorsHeld'
    BY DEF FloorHeld
  <1>1. part = "floor" /\ NoiseFloorPart!FloorsHeld
    BY PartStays DEF FloorHeld
  <1>2. CASE NoiseFloorPart!FloorNext
    BY <1>1, <1>2, StepFloor
  <1>3. CASE UNCHANGED pvars
    <2>1. UNCHANGED <<r1, r2, r3, r4>>
      BY <1>3 DEF pvars, After0, After1, After4
    <2> QED BY <1>1, <2>1 DEF NoiseFloorPart!FloorsHeld, NoiseFloorPart!Names
  <1> QED BY <1>1, <1>2, <1>3 DEF PartsNext

LEMMA PageKept == PageHeld /\ [PartsNext]_pvars => PageHeld'
PROOF
  <1> SUFFICES ASSUME PageHeld, [PartsNext]_pvars, part' = "page"
               PROVE  PagePart!PageInv'
    BY DEF PageHeld
  <1>1. part = "page" /\ PagePart!PageInv
    BY PartStays DEF PageHeld
  <1>2. CASE PagePart!PageNext
    BY <1>1, <1>2, StepFullRun, StepRetake, StepDiffer DEF PagePart!PageNext
  <1>3. CASE UNCHANGED pvars
    <2>1. UNCHANGED <<r1, r2, r3, r4, r5>>
      BY <1>3 DEF pvars, After0, After1, After4
    <2> QED BY <1>1, <2>1, PageStays
  <1> QED BY <1>1, <1>2, <1>3 DEF PartsNext

(* What the page and the noise band claim of two labels is what was measured: *)
(* for any number of folds and global measurements, and any number of passes, *)
(* of rows taken again and of runs of the differ.                             *)
THEOREM PageIsFaithfulCorrect == PartsSpec => []PageIsFaithful
PROOF
  <1>1. PartsInit => FloorHeld /\ PageHeld
    BY FloorStarts, PageStarts DEF PartsInit, FloorHeld, PageHeld
  <1>4. FloorHeld /\ PageHeld => PageIsFaithful
    BY BandsItsRows, PageSpeaks DEF FloorHeld, PageHeld, PageIsFaithful
  <1> QED BY <1>1, FloorKept, PageKept, <1>4, PTL DEF PartsSpec, pvars
-----------------------------------------------------------------------------
(* The types of every part: what a bound or an enumeration says of a variable *)
(* holds by the part's own steps, given the invariant proved above.           *)

LEMMA FetchTyped == FetchTypeOK /\ [FetchNext]_fvars => FetchTypeOK'
PROOF
  <1> SUFFICES ASSUME FetchTypeOK, [FetchNext]_fvars PROVE FetchTypeOK'
    OBVIOUS
  <1> USE DEF FetchTypeOK, Contents, MaxRoots, Shards
  <1>1. CASE StartFetch
    BY <1>1 DEF StartFetch, Ended, Missing
  <1>2. CASE FetchFile
    <2>1. PICK f \in todo, done \in BOOLEAN : \E got \in Transferred(content[f]) :
            /\ content' = [content EXCEPT ![f] = IF done /\ got = "rotten" THEN "none" ELSE got]
            /\ IF ~done \/ got = "rotten" THEN Ended(FALSE)
               ELSE IF todo = {f} THEN doing' = "extract" /\ todo' = {} /\ vouched' = TRUE
               ELSE todo' = todo \ {f} /\ UNCHANGED <<doing, vouched>>
      BY <1>2 DEF FetchFile
    <2>2. f \in DataFiles /\ content[f] \in Contents
      OBVIOUS
    <2>3. Transferred(content[f]) \subseteq Contents
      BY <2>2 DEF Transferred
    <2>4. content' \in [DataFiles -> Contents]
      BY <2>1, <2>2, <2>3
    <2>5. todo' \subseteq DataFiles /\ vouched' \in BOOLEAN
      BY <2>1 DEF Ended
    <2>6. UNCHANGED <<member, linkedTo, root, text>>
      BY <1>2 DEF FetchFile
    <2> QED BY <2>4, <2>5, <2>6
  <1>3. CASE Extract
    BY <1>3 DEF Extract
  <1>4. CASE Verify
    BY <1>4 DEF Verify, Ended
  <1>5. CASE StartLink
    BY <1>5 DEF StartLink
  <1>6. CASE LinkShard
    BY <1>6 DEF LinkShard
  <1>7. CASE ConvertBeir
    BY <1>7 DEF ConvertBeir
  <1>8. CASE Interrupted
    BY <1>8 DEF Interrupted, Ended
  <1>9. CASE Rot
    BY <1>9 DEF Rot
  <1>10. CASE MoveRoot
    BY <1>10 DEF MoveRoot
  <1>11. CASE UNCHANGED fvars
    BY <1>11 DEF fvars
  <1> QED BY <1>1, <1>2, <1>3, <1>4, <1>5, <1>6, <1>7, <1>8, <1>9, <1>10, <1>11 DEF FetchNext

(* The fold and the comparison: a list of passes, a kind and two rows.        *)
FoldTypes == part = "fold" => PassFoldPart!FoldTypeOK

LEMMA FoldTyped == FoldTypes /\ [PartsNext]_pvars => FoldTypes'
PROOF
  <1> SUFFICES ASSUME FoldTypes, [PartsNext]_pvars, part' = "fold"
               PROVE  PassFoldPart!FoldTypeOK'
    BY DEF FoldTypes
  <1>1. part = "fold" /\ r1 \in Seq(PassFoldPart!PassRows) /\ Len(r1) <= FoldPasses
    BY PartStays DEF FoldTypes, PassFoldPart!FoldTypeOK
  <1>2. CASE PassFoldPart!FoldNext
    <2>1. PICK r \in PassFoldPart!PassRows : r1' = Append(r1, r)
      BY <1>2 DEF PassFoldPart!FoldNext, PassFoldPart!MeasurePass
    <2>2. Len(r1) < FoldPasses
      BY <1>2 DEF PassFoldPart!FoldNext, PassFoldPart!MeasurePass
    <2>3. Len(r1') = Len(r1) + 1 /\ r1' \in Seq(PassFoldPart!PassRows)
      BY <1>1, <2>1
    <2> QED BY <1>1, <2>2, <2>3, HarnessAssumption
            DEF PassFoldPart!FoldTypeOK, HarnessAssumption
  <1>3. CASE UNCHANGED pvars
    BY <1>1, <1>3 DEF pvars, After0, PassFoldPart!FoldTypeOK
  <1> QED BY <1>1, <1>2, <1>3 DEF PartsNext

VerdictTypes == part = "verdict" => VerdictPart!VerdictTypeOK

LEMMA VerdictTyped ==
  VerdictHeld /\ VerdictHeld' /\ VerdictTypes /\ [PartsNext]_pvars => VerdictTypes'
PROOF
  <1> SUFFICES ASSUME VerdictHeld', VerdictTypes, [PartsNext]_pvars, part' = "verdict"
               PROVE  VerdictPart!VerdictTypeOK'
    BY DEF VerdictTypes
  <1>1. part = "verdict" /\ VerdictPart!VerdictTypeOK
    BY PartStays DEF VerdictTypes
  <1>2. \A a \in VerdictPart!Pair : DOMAIN r2'[a] = DOMAIN VerdictPart!HealthyRow
    BY DEF VerdictHeld, VerdictPart!VerdictInv, VerdictPart!RecallsRead
  <1>3. MaxOddities \in Nat
    BY PartBoundsAssumption DEF PartBoundsAssumption
  <1>4. CASE VerdictPart!VerdictNext
    <2>1. r1' \in VerdictPart!Kinds0
      BY <1>1, <1>4 DEF VerdictPart!VerdictNext, VerdictPart!ChooseKind, VerdictPart!OddRow,
                        VerdictPart!OddLabel, VerdictPart!VerdictTypeOK
    <2>2. r4' \in 0..MaxOddities
      BY <1>1, <1>3, <1>4 DEF VerdictPart!VerdictNext, VerdictPart!ChooseKind,
         VerdictPart!OddRow, VerdictPart!OddLabel, VerdictPart!VerdictTypeOK
    <2> QED BY <1>2, <2>1, <2>2 DEF VerdictPart!VerdictTypeOK
  <1>5. CASE UNCHANGED pvars
    <2>1. UNCHANGED <<r1, r2, r3, r4>>
      BY <1>5 DEF pvars, After0, After1
    <2> QED BY <1>1, <1>2, <2>1 DEF VerdictPart!VerdictTypeOK
  <1> QED BY <1>1, <1>4, <1>5 DEF PartsNext

(* The record's head is a commit, and what was built was built of one.        *)
RecordTypes == part = "record" => RecordPart!ProvenanceTypeOK

LEMMA RecordTyped == RecordHeld /\ RecordHeld' /\ RecordTypes /\ [PartsNext]_pvars => RecordTypes'
PROOF
  <1> SUFFICES ASSUME RecordHeld', RecordTypes, [PartsNext]_pvars, part' = "record"
               PROVE  RecordPart!ProvenanceTypeOK'
    BY DEF RecordTypes
  <1>1. part = "record" /\ r10 \in 0..MaxClock
    BY PartStays DEF RecordTypes, RecordPart!ProvenanceTypeOK
  <1>2. MaxClock \in Nat
    BY PartBoundsAssumption DEF PartBoundsAssumption
  <1>3. r10' \in 0..MaxClock
    <2>1. CASE RecordPart!ProvenanceNext
      BY <1>1, <1>2, <2>1
         DEF RecordPart!ProvenanceNext, RecordPart!Tick, RecordPart!Edit, RecordPart!CommitEdit,
             RecordPart!Checkout, RecordPart!BuildFile, RecordPart!CopyPin, RecordPart!Start,
             RecordPart!Stop, RecordPart!Collect
    <2>2. CASE UNCHANGED pvars
      BY <1>1, <2>2 DEF pvars, After0, After1, After4, After5, After6, After8, After9
    <2> QED BY <1>1, <2>1, <2>2 DEF PartsNext
  <1>4. r2' \in DOMAIN r1' /\ r10' \in Nat
        /\ \A i \in r5' : i.built \in 0..r10' /\ i.commit \in DOMAIN r1'
    BY DEF RecordHeld, RecordPart!RecordInv, RecordPart!CommitsDated, RecordPart!BuildsDated
  <1> QED BY <1>3, <1>4 DEF RecordPart!ProvenanceTypeOK

(* The rows: without a pin, a factor is of the times a row was found short.   *)
FactorHeld ==
    RowRunnerPart!Running /\ r12[r4] = 0 =>
        \/ r7 = 0 /\ r6 = 1
        \/ r7 = 1 /\ r6 = 2
        \/ r7 = 2 /\ r6 = 4
RowTypes == part = "row" => RowRunnerPart!RunnerTypeOK /\ FactorHeld

LEMMA RunnerTyped ==
  ASSUME RowRunnerPart!RunnerInv, RowRunnerPart!RunnerTypeOK, FactorHeld,
         RowRunnerPart!RunnerNext
  PROVE  RowRunnerPart!RunnerTypeOK' /\ FactorHeld'
PROOF
  <1> USE DEF RowRunnerPart!RunnerTypeOK, FactorHeld, RowRunnerPart!Running
  <1>1. /\ GateRetries \in Nat /\ DirtyRetries \in Nat /\ RowPasses \in Nat
        /\ Len(RunRows) \in Nat /\ RowRunnerPart!RowsOfRun = 1..Len(RunRows)
    BY PartBoundsAssumption, HarnessAssumption
       DEF PartBoundsAssumption, HarnessAssumption, RowRunnerPart!RowsOfRun
  <1>2. RowRunnerPart!Running => r4 \in RowRunnerPart!RowsOfRun
    BY DEF RowRunnerPart!RunnerInv, RowRunnerPart!PinsHeld
  <1>3. CASE RowRunnerPart!StartPass
    BY <1>1, <1>3 DEF RowRunnerPart!StartPass
  <1>4. CASE RowRunnerPart!Gate
    BY <1>1, <1>4 DEF RowRunnerPart!Gate
  <1>5. CASE RowRunnerPart!RunRow
    <2>1. /\ r4 \in RowRunnerPart!RowsOfRun /\ r6' = RowRunnerPart!BaseFactor(r4)
          /\ r7' = 0 /\ r8' = 0 /\ r5' = "short?" /\ UNCHANGED <<r1, r2, r3, r4, r12>>
      BY <1>5 DEF RowRunnerPart!RunRow, RowRunnerPart!RunOne
    <2> QED BY <1>1, <2>1 DEF RowRunnerPart!BaseFactor
  <1>6. CASE RowRunnerPart!SkipRow
    BY <1>1, <1>6 DEF RowRunnerPart!SkipRow
  <1>7. CASE RowRunnerPart!RunShortAgain
    <2>1. /\ r7 < 2 /\ r12[r4] = 0 /\ r5 = "short?" /\ r6' = r6 * 2
          /\ r7' = r7 + 1 /\ r5' = "short?" /\ UNCHANGED <<r1, r2, r3, r4, r8, r12>>
      BY <1>7 DEF RowRunnerPart!RunShortAgain, RowRunnerPart!RunOne, RowRunnerPart!MayRunShortAgain
    <2>2. \/ r7 = 0 /\ r6 = 1
          \/ r7 = 1 /\ r6 = 2
      BY <2>1
    <2> QED BY <1>1, <2>1, <2>2
  <1>8. CASE RowRunnerPart!PinFactor
    <2>1. /\ r5 = "short?" /\ r5' = "dirty?" /\ UNCHANGED <<r1, r2, r3, r4, r6, r7, r8>>
          /\ r12' = r12 \/ r12' = [r12 EXCEPT ![r4] = r6]
      BY <1>8 DEF RowRunnerPart!PinFactor
    <2>2. r12' \in [RowRunnerPart!RowsOfRun -> {0, 1, 2, 4}]
      BY <1>2, <2>1
    <2>3. r12'[r4] = 0 => r12[r4] = 0
      BY <1>2, <2>1
    <2> QED BY <2>1, <2>2, <2>3
  <1>9. CASE RowRunnerPart!RunDirtyAgain
    <2>1. /\ r8 < DirtyRetries /\ r8' = r8 + 1
          /\ UNCHANGED <<r1, r2, r3, r4, r5, r6, r7, r12>>
      BY <1>9 DEF RowRunnerPart!RunDirtyAgain, RowRunnerPart!MayRunDirtyAgain
    <2> QED BY <1>1, <2>1
  <1>10. CASE RowRunnerPart!KeepRow
    <2>1. /\ r4' = r4 + 1 /\ r5 = "dirty?" /\ r5' = "row"
          /\ UNCHANGED <<r1, r2, r3, r6, r7, r8, r12>>
      BY <1>10 DEF RowRunnerPart!KeepRow
    <2> QED BY <1>1, <1>2, <2>1
  <1>11. CASE RowRunnerPart!WriteRows
    <2>1. r4' = 0 /\ r5' = "between" /\ UNCHANGED <<r1, r2, r3, r6, r7, r8, r12>>
      BY <1>11 DEF RowRunnerPart!WriteRows
    <2> QED BY <1>1, <2>1
  <1>12. CASE RowRunnerPart!Die
    <2>1. /\ r4' = 0 /\ r5' = "between" /\ UNCHANGED <<r1, r2, r3, r6, r7, r8>>
          /\ r12' = r12 \/ r12' = [i \in RowRunnerPart!RowsOfRun |-> 0]
      BY <1>12 DEF RowRunnerPart!Die
    <2> QED BY <1>1, <2>1
  <1> QED BY <1>3, <1>4, <1>5, <1>6, <1>7, <1>8, <1>9, <1>10, <1>11, <1>12
         DEF RowRunnerPart!RunnerNext

LEMMA RowTyped == RowHeld /\ RowTypes /\ [PartsNext]_pvars => RowTypes'
PROOF
  <1> SUFFICES ASSUME RowHeld, RowTypes, [PartsNext]_pvars, part' = "row"
               PROVE  RowRunnerPart!RunnerTypeOK' /\ FactorHeld'
    BY DEF RowTypes
  <1>1. part = "row" /\ RowRunnerPart!RunnerInv /\ RowRunnerPart!RunnerTypeOK /\ FactorHeld
    BY PartStays DEF RowHeld, RowTypes
  <1>2. CASE RowRunnerPart!RunnerNext
    BY <1>1, <1>2, RunnerTyped
  <1>3. CASE UNCHANGED pvars
    <2>1. UNCHANGED <<r1, r2, r3, r4, r5, r6, r7, r8, r12>>
      BY <1>3 DEF pvars, After0, After1, After4, After5, After6, After8, After9, After10,
                  After11
    <2> QED BY <1>1, <2>1 DEF RowRunnerPart!RunnerTypeOK, FactorHeld, RowRunnerPart!Running,
        RowRunnerPart!RowsOfRun
  <1> QED BY <1>1, <1>2, <1>3 DEF PartsNext

(* The waits: the load is the one of some work, or falls to it.               *)
SettleTypes ==
    part = "settle" =>
        /\ SettlePart!SettleTypeOK
        /\ r1 \in {0, 3, 4} /\ r7 \in Seq(0..6)

LEMMA WaitTyped ==
  ASSUME SettlePart!SettleTypeOK, r1 \in {0, 3, 4}, r7 \in Seq(0..6), SettlePart!SettleNext
  PROVE  SettlePart!SettleTypeOK' /\ r1' \in {0, 3, 4} /\ r7' \in Seq(0..6)
PROOF
  <1> USE DEF SettlePart!SettleTypeOK, SettlePart!PlateauPolls, SettlePart!IdleStable
  <1>1. MaxPolls \in Nat /\ MaxShifts \in Nat
    BY PartBoundsAssumption, HarnessAssumption DEF PartBoundsAssumption, HarnessAssumption
  <1>2. SettlePart!Decayed \in 0..6
    BY DEF SettlePart!Decayed
  <1>3. CASE SettlePart!Shift
    BY <1>1, <1>3 DEF SettlePart!Shift
  <1>4. CASE SettlePart!Begin
    <2>1. /\ r3' \in {r1, 6} /\ r6' = 0 /\ r7' = <<>> /\ r8' = 0
          /\ UNCHANGED <<r1, r10>>
      BY <1>4 DEF SettlePart!Begin
    <2>2. r7' \in Seq(0..6) /\ Len(r7') = 0
      BY <2>1
    <2> QED BY <1>1, <2>1, <2>2
  <1>5. CASE SettlePart!SettlePoll
    <2>1. /\ SettlePart!Readings \in Seq(0..6) /\ Len(SettlePart!Readings) <= 3
      <3> DEFINE all == Append(r7, r3)
      <3>1. all \in Seq(0..6) /\ Len(all) = Len(r7) + 1 /\ Len(r7) \in Nat
        OBVIOUS
      <3> HIDE DEF all
      <3>2. Len(all) > 3 => Tail(all) \in Seq(0..6) /\ Len(Tail(all)) = Len(all) - 1
        BY <3>1
      <3>3. SettlePart!Readings = IF Len(all) > 3 THEN Tail(all) ELSE all
        BY DEF SettlePart!Readings, all
      <3> QED BY <3>1, <3>2, <3>3
    <2>2. CASE UNCHANGED <<r1, r3, r6, r7, r8, r10>>
      BY <1>1, <2>2
    <2>3. CASE ~SettlePart!TimedOut /\ SettlePart!Sleep /\ r7' = SettlePart!Readings
                  /\ UNCHANGED <<r8, r12, r13>>
      <3>1. r6 < MaxPolls /\ r6' = r6 + 1 /\ r3' = SettlePart!Decayed /\ UNCHANGED <<r1, r10>>
        BY <1>1, <2>3 DEF SettlePart!TimedOut, SettlePart!Sleep
      <3> QED BY <1>1, <1>2, <2>1, <2>3, <3>1
    <2> QED BY <1>5, <2>2, <2>3 DEF SettlePart!SettlePoll, SettlePart!Leave
  <1>6. CASE SettlePart!RetryPoll
    <2>1. CASE UNCHANGED <<r1, r3, r6, r7, r8, r10>>
      BY <1>1, <2>1
    <2>2. CASE ~SettlePart!TimedOut /\ SettlePart!Sleep
                  /\ UNCHANGED <<r7, r8, r12, r13>>
      <3>1. r6 < MaxPolls /\ r6' = r6 + 1 /\ r3' = SettlePart!Decayed /\ UNCHANGED <<r1, r10>>
        BY <1>1, <2>2 DEF SettlePart!TimedOut, SettlePart!Sleep
      <3> QED BY <1>1, <1>2, <2>2, <3>1
    <2> QED BY <1>6, <2>1, <2>2 DEF SettlePart!RetryPoll, SettlePart!Leave
  <1>7. CASE SettlePart!EnginePoll
    <2>1. CASE UNCHANGED <<r1, r3, r6, r7, r8, r10>>
      BY <1>1, <2>1
    <2>2. CASE SettlePart!Windows < 3 /\ ~SettlePart!TimedOut /\ SettlePart!Sleep
                  /\ r8' = SettlePart!Windows /\ UNCHANGED r7
      <3>1. r6 < MaxPolls /\ r6' = r6 + 1 /\ r3' = SettlePart!Decayed /\ UNCHANGED <<r1, r10>>
        BY <1>1, <2>2 DEF SettlePart!TimedOut, SettlePart!Sleep
      <3>2. SettlePart!Windows \in 0..3
        BY <2>2 DEF SettlePart!Windows
      <3> QED BY <1>1, <1>2, <2>2, <3>1, <3>2
    <2> QED BY <1>7, <2>1, <2>2 DEF SettlePart!EnginePoll, SettlePart!Leave
  <1> QED BY <1>3, <1>4, <1>5, <1>6, <1>7 DEF SettlePart!SettleNext

LEMMA SettleTyped == SettleTypes /\ [PartsNext]_pvars => SettleTypes'
PROOF
  <1> SUFFICES ASSUME SettleTypes, [PartsNext]_pvars, part' = "settle"
               PROVE  SettlePart!SettleTypeOK' /\ r1' \in {0, 3, 4} /\ r7' \in Seq(0..6)
    BY DEF SettleTypes
  <1>1. part = "settle" /\ SettlePart!SettleTypeOK /\ r1 \in {0, 3, 4} /\ r7 \in Seq(0..6)
    BY PartStays DEF SettleTypes
  <1>2. CASE SettlePart!SettleNext
    BY <1>1, <1>2, WaitTyped
  <1>3. CASE UNCHANGED pvars
    BY <1>1, <1>3
       DEF pvars, After0, After1, After4, After5, After6, After8, After9, SettlePart!SettleTypeOK
  <1> QED BY <1>1, <1>2, <1>3 DEF PartsNext

RetentionTypes == part = "retention" => RetentionPart!RetentionTypeOK

LEMMA KeepTyped ==
  ASSUME RetentionPart!RetentionTypeOK, RetentionPart!RetentionNext
  PROVE  RetentionPart!RetentionTypeOK'
PROOF
  <1> USE DEF RetentionPart!RetentionTypeOK
  <1>1. MaxDay \in Nat
    BY PartBoundsAssumption DEF PartBoundsAssumption
  <1>2. CASE RetentionPart!NextDay
    BY <1>1, <1>2 DEF RetentionPart!NextDay
  <1>3. CASE RetentionPart!StartRun
    BY <1>3 DEF RetentionPart!StartRun
  <1>4. CASE RetentionPart!WriteLabel
    <2>1. PICK k \in {d.pass : d \in r6} :
            LET these == {d \in r6 : d.pass = k}
            IN  /\ r2' = r2 \cup these
                /\ r3' = [d \in RetentionPart!Directory |-> IF d \in these THEN r1 ELSE r3[d]]
      BY <1>4 DEF RetentionPart!WriteLabel
    <2>2. UNCHANGED <<r1, r4, r6>>
      BY <1>4 DEF RetentionPart!WriteLabel
    <2>3. r3' \in [RetentionPart!Directory -> 0..MaxDay]
      BY <2>1
    <2> QED BY <2>1, <2>2, <2>3
  <1>5. CASE RetentionPart!Note
    <2>1. PICK d \in r2 : r4' = r4 \cup {d} /\ r3' = [r3 EXCEPT ![d] = r1]
      BY <1>5 DEF RetentionPart!Note
    <2>2. UNCHANGED <<r1, r2, r6>>
      BY <1>5 DEF RetentionPart!Note
    <2> QED BY <2>1, <2>2
  <1>6. CASE RetentionPart!Cite
    BY <1>6 DEF RetentionPart!Cite
  <1>7. CASE RetentionPart!EndRun
    <2>1. /\ r2' = r2 \ RetentionPart!Prunable(r6) /\ r4' = r4 \ RetentionPart!Prunable(r6)
                /\ r6' = {}
          /\ UNCHANGED <<r1, r3>>
      BY <1>7 DEF RetentionPart!EndRun
    <2> QED BY <2>1
  <1>8. CASE RetentionPart!Die
    BY <1>8 DEF RetentionPart!Die
  <1> QED BY <1>2, <1>3, <1>4, <1>5, <1>6, <1>7, <1>8 DEF RetentionPart!RetentionNext

LEMMA RetentionTyped == RetentionTypes /\ [PartsNext]_pvars => RetentionTypes'
PROOF
  <1> SUFFICES ASSUME RetentionTypes, [PartsNext]_pvars, part' = "retention"
               PROVE  RetentionPart!RetentionTypeOK'
    BY DEF RetentionTypes
  <1>1. part = "retention" /\ RetentionPart!RetentionTypeOK
    BY PartStays DEF RetentionTypes
  <1>2. CASE RetentionPart!RetentionNext
    BY <1>1, <1>2, KeepTyped
  <1>3. CASE UNCHANGED pvars
    BY <1>1, <1>3 DEF pvars, After0, After1, After4, After5, After6, RetentionPart!RetentionTypeOK
  <1> QED BY <1>1, <1>2, <1>3 DEF PartsNext

LEMMA FloorCounts == \A S : NoiseFloorPart!Cardinality(S) = Cardinality(S)
PROOF
  BY DEF NoiseFloorPart!Cardinality, Cardinality

FloorTypes == part = "floor" => NoiseFloorPart!FloorTypeOK

(* A fold or a measurement leaves one file where it writes.                   *)
LEMMA SpreadTyped ==
  ASSUME NoiseFloorPart!FloorTypeOK, NoiseFloorPart!FloorsHeld, NoiseFloorPart!FloorNext
  PROVE  NoiseFloorPart!FloorTypeOK'
PROOF
  <1>1. MaxFolds \in Nat
    BY PartBoundsAssumption DEF PartBoundsAssumption
  <1>2. \A x : NoiseFloorPart!Cardinality({x}) = 1
    BY FS_Singleton, FloorCounts
  <1>3. DOMAIN r2 = NoiseFloorPart!Label /\ DOMAIN r3 = NoiseFloorPart!Label
    BY DEF NoiseFloorPart!FloorsHeld
  <1>4. CASE NoiseFloorPart!Move
    <2>1. r1' \in NoiseFloorPart!Place /\ UNCHANGED <<r2, r3, r4, r5>>
      BY <1>4 DEF NoiseFloorPart!Move
    <2> QED BY <2>1 DEF NoiseFloorPart!FloorTypeOK
  <1>5. ASSUME NEW m \in NoiseFloorPart!Label, NoiseFloorPart!Fold(m)
        PROVE NoiseFloorPart!FloorTypeOK'
    <2>1. PICK x, y : /\ r2' = [r2 EXCEPT ![m] = {x}]
                      /\ r3' = r3 \/ r3' = [r3 EXCEPT ![m] = {y}]
      BY <1>5 DEF NoiseFloorPart!Fold
    <2>2. r5' \in 0..MaxFolds /\ UNCHANGED <<r1, r4>>
      BY <1>1, <1>5 DEF NoiseFloorPart!Fold, NoiseFloorPart!FloorTypeOK
    <2>3. ASSUME NEW l \in NoiseFloorPart!Label
          PROVE  NoiseFloorPart!Cardinality(r2'[l]) <= 1 /\ NoiseFloorPart!Cardinality(r3'[l]) <= 1
      <3>1. /\ r2'[l] = r2[l] \/ r2'[l] = {x}
            /\ r3'[l] = r3[l] \/ r3'[l] = {y}
        BY <1>3, <2>1
      <3>2. NoiseFloorPart!Cardinality(r2[l]) <= 1 /\ NoiseFloorPart!Cardinality(r3[l]) <= 1
        BY DEF NoiseFloorPart!FloorTypeOK
      <3>3. NoiseFloorPart!Cardinality(r2'[l]) <= 1
        <4>1. CASE r2'[l] = r2[l]
          BY <3>2, <4>1
        <4>2. CASE r2'[l] = {x}
          BY <1>2, <4>2
        <4> QED BY <3>1, <4>1, <4>2
      <3>4. NoiseFloorPart!Cardinality(r3'[l]) <= 1
        <4>1. CASE r3'[l] = r3[l]
          BY <3>2, <4>1
        <4>2. CASE r3'[l] = {y}
          BY <1>2, <4>2
        <4> QED BY <3>1, <4>1, <4>2
      <3> QED BY <3>3, <3>4
    <2> QED BY <2>2, <2>3 DEF NoiseFloorPart!FloorTypeOK
  <1>6. CASE NoiseFloorPart!MeasureNoise
    <2>1. \A f \in r4' : f.discards /\ f.arms # {}
      <3>1. PICK ls \in (SUBSET NoiseFloorPart!Label) \ {{}} :
              LET places == {m.place : m \in UNION {r2[l] : l \in ls}}
              IN  r4' = {[dataset |-> NoiseFloorPart!Agreed({p.dataset : p \in places}),
                          env |-> NoiseFloorPart!Agreed({p.env : p \in places}),
                          arms |-> {NoiseFloorPart!EngineOf(l) : l \in ls},
                          spread |-> NoiseFloorPart!CleanPasses(ls) >= 3, of |-> places,
                          clean |-> NoiseFloorPart!CleanPasses(ls), discards |-> TRUE]}
        BY <1>6 DEF NoiseFloorPart!MeasureNoise
      <3> DEFINE places == {m.place : m \in UNION {r2[l] : l \in ls}}
                 where == NoiseFloorPart!Agreed({p.dataset : p \in places})
                 host == NoiseFloorPart!Agreed({p.env : p \in places})
                 arms == {NoiseFloorPart!EngineOf(l) : l \in ls}
                 many == NoiseFloorPart!CleanPasses(ls) >= 3
      <3>2. r4' = {[dataset |-> where, env |-> host, arms |-> arms, spread |-> many, of |-> places,
                    clean |-> NoiseFloorPart!CleanPasses(ls), discards |-> TRUE]}
        BY <3>1
      <3>3. arms # {}
        OBVIOUS
      <3> HIDE DEF places, where, host, arms, many
      <3> QED BY <3>2, <3>3
    <2>2. r5' \in 0..MaxFolds /\ UNCHANGED <<r1, r2, r3>>
      BY <1>1, <1>6 DEF NoiseFloorPart!MeasureNoise, NoiseFloorPart!FloorTypeOK
    <2> QED BY <2>1, <2>2 DEF NoiseFloorPart!FloorTypeOK
  <1> QED BY <1>4, <1>5, <1>6 DEF NoiseFloorPart!FloorNext

LEMMA FloorTyped == FloorHeld /\ FloorTypes /\ [PartsNext]_pvars => FloorTypes'
PROOF
  <1> SUFFICES ASSUME FloorHeld, FloorTypes, [PartsNext]_pvars, part' = "floor"
               PROVE  NoiseFloorPart!FloorTypeOK'
    BY DEF FloorTypes
  <1>1. part = "floor" /\ NoiseFloorPart!FloorsHeld /\ NoiseFloorPart!FloorTypeOK
    BY PartStays DEF FloorHeld, FloorTypes
  <1>2. CASE NoiseFloorPart!FloorNext
    BY <1>1, <1>2, SpreadTyped
  <1>3. CASE UNCHANGED pvars
    <2>1. UNCHANGED <<r1, r2, r3, r4, r5>>
      BY <1>3 DEF pvars, After0, After1, After4
    <2> QED BY <1>1, <2>1 DEF NoiseFloorPart!FloorTypeOK
  <1> QED BY <1>1, <1>2, <1>3 DEF PartsNext

GateTypes == part = "gate" => GatePart!GateTypeOK

LEMMA TreeTyped ==
  ASSUME GatePart!GateTypeOK, GatePart!TreeHeld', GatePart!GateNext
  PROVE  GatePart!GateTypeOK'
PROOF
  <1> USE DEF GatePart!GateTypeOK
  <1>1. MaxTreeEdits \in Nat
    BY PartBoundsAssumption DEF PartBoundsAssumption
  <1>2. \A x : GatePart!Cardinality({x}) = 1
    <2>1. \A S : GatePart!Cardinality(S) = Cardinality(S)
      BY DEF GatePart!Cardinality, Cardinality
    <2> QED BY <2>1, FS_Singleton
  <1>3. r1' \subseteq GatePart!Defects /\ r12' \subseteq r1'
    BY DEF GatePart!TreeHeld
  <1>4. r14' \in 0..MaxTreeEdits /\ r13' \in {"none", "running", "passed", "failed", "died"}
    <2>1. CASE GatePart!EditTree
      BY <1>1, <2>1 DEF GatePart!EditTree, GatePart!Outdate
    <2>2. CASE GatePart!EditTools
      BY <1>1, <2>2 DEF GatePart!EditTools, GatePart!Outdate
    <2>3. CASE GatePart!StartGate
      BY <1>1, <2>3 DEF GatePart!StartGate, GatePart!Outside
    <2>4. CASE GatePart!RunStep
      BY <1>1, <2>4 DEF GatePart!RunStep
    <2>5. CASE GatePart!WriteCanary
      BY <1>1, <2>5 DEF GatePart!WriteCanary
    <2>6. CASE GatePart!PutBack
      BY <1>1, <2>6 DEF GatePart!PutBack
    <2>7. CASE GatePart!EndGate
      BY <1>1, <2>7 DEF GatePart!EndGate, GatePart!Outside
    <2>8. CASE GatePart!Abort
      BY <1>1, <2>8 DEF GatePart!Abort
    <2> QED BY <2>1, <2>2, <2>3, <2>4, <2>5, <2>6, <2>7, <2>8 DEF GatePart!GateNext
  <1>5. r7' = r7 \/ \E x : r7' = {x}
    BY DEF GatePart!GateNext, GatePart!EditTree, GatePart!EditTools, GatePart!StartGate,
       GatePart!RunStep, GatePart!WriteCanary, GatePart!PutBack,
           GatePart!EndGate, GatePart!Abort, GatePart!Outside
  <1>6. GatePart!Cardinality(r7') <= 1
    BY <1>2, <1>5
  <1> QED BY <1>3, <1>4, <1>6

LEMMA GateTyped == GateHeld' /\ GateTypes /\ [PartsNext]_pvars => GateTypes'
PROOF
  <1> SUFFICES ASSUME GateHeld', GateTypes, [PartsNext]_pvars, part' = "gate"
               PROVE  GatePart!GateTypeOK'
    BY DEF GateTypes
  <1>1. part = "gate" /\ GatePart!TreeHeld' /\ GatePart!GateTypeOK
    BY PartStays DEF GateHeld, GateTypes, GatePart!GateInv
  <1>2. CASE GatePart!GateNext
    BY <1>1, <1>2, TreeTyped
  <1>3. CASE UNCHANGED pvars
    <2>1. UNCHANGED <<r1, r7, r12, r13, r14>>
      BY <1>3 DEF pvars, After0, After1, After4, After5, After6, After8, After9, After10, After11,
                  After13
    <2> QED BY <1>1, <2>1 DEF GatePart!GateTypeOK
  <1> QED BY <1>1, <1>2, <1>3 DEF PartsNext

(* The nights: the launch under way is one there was.                         *)
NightTypes ==
    part = "night" =>
        /\ NightPart!NightTypeOK
        /\ r1 \in 0..r3 /\ r3 <= MaxLaunches /\ r10 \in Seq([step : STRING, rc : {0, 1}])

LEMMA LaunchTyped ==
  ASSUME NightPart!NightTypeOK, NightPart!NightInv, NightPart!NightInv', r1 \in 0..r3,
         r3 <= MaxLaunches,
         r10 \in Seq([step : STRING, rc : {0, 1}]), NightPart!NightNext
  PROVE  /\ NightPart!NightTypeOK'
         /\ r1' \in 0..r3' /\ r3' <= MaxLaunches /\ r10' \in Seq([step : STRING, rc : {0, 1}])
PROOF
  <1>1. MaxLaunches \in Nat /\ ChainSteps \in Seq(STRING) /\ Len(ChainSteps) \in Nat
    BY PartBoundsAssumption DEF PartBoundsAssumption
  <1>2. r3 \in Nat /\ Len(r9') = r3'
    BY DEF NightPart!NightInv, NightPart!LogHeld, NightPart!CodesHeld
  <1>3. r1' \in 0..r3' /\ r3' <= MaxLaunches
    BY <1>1, <1>2 DEF NightPart!NightNext, NightPart!Launch, NightPart!Measured,
       NightPart!KeepReport, NightPart!Analyse, NightPart!Killed, NightPart!MoveAside,
                      NightPart!Rerender, NightPart!Step, NightPart!NoRun
  <1>4. r2' \in {"idle", "measure", "report", "analyse"}
    BY DEF NightPart!NightNext, NightPart!Launch, NightPart!Measured, NightPart!KeepReport,
       NightPart!Analyse, NightPart!Killed, NightPart!MoveAside,
           NightPart!Rerender, NightPart!Step, NightPart!NightTypeOK
  <1>5. r10' \in Seq([step : STRING, rc : {0, 1}]) /\ Len(r10') <= Len(ChainSteps)
    <2>1. CASE UNCHANGED r10
      BY <2>1 DEF NightPart!NightTypeOK
    <2>2. CASE NightPart!Step
      <3>1. PICK rc \in {0, 1} :
              r10' = Append(r10, [step |-> ChainSteps[Len(r10) + 1], rc |-> rc])
        BY <2>2 DEF NightPart!Step
      <3>2. Len(r10) \in Nat /\ Len(r10) < Len(ChainSteps)
        BY <2>2 DEF NightPart!Step
      <3>3. ChainSteps[Len(r10) + 1] \in STRING
        BY <1>1, <3>2
      <3> DEFINE x == [step |-> ChainSteps[Len(r10) + 1], rc |-> rc]
      <3>4. x \in [step : STRING, rc : {0, 1}]
        BY <3>3
      <3>5. r10' = Append(r10, x)
        BY <3>1
      <3> HIDE DEF x
      <3>6. Len(r10') = Len(r10) + 1 /\ r10' \in Seq([step : STRING, rc : {0, 1}])
        BY <3>4, <3>5
      <3> QED BY <1>1, <3>2, <3>6
    <2> QED BY <2>1, <2>2 DEF NightPart!NightNext, NightPart!Launch, NightPart!Measured,
        NightPart!KeepReport, NightPart!Analyse, NightPart!Killed,
                              NightPart!MoveAside, NightPart!Rerender
  <1>6. NightPart!ChainExit' \in {0, 1}
    BY DEF NightPart!ChainExit
  <1>7. r1' \in 0..MaxLaunches
    BY <1>1, <1>2, <1>3 DEF NightPart!NightInv, NightPart!LogHeld
  <1> QED BY <1>2, <1>3, <1>4, <1>5, <1>6, <1>7 DEF NightPart!NightTypeOK

LEMMA NightTyped == NightHeld /\ NightHeld' /\ NightTypes /\ [PartsNext]_pvars => NightTypes'
PROOF
  <1> SUFFICES ASSUME NightHeld, NightHeld', NightTypes, [PartsNext]_pvars, part' = "night"
               PROVE  NightTypes'
    BY DEF NightTypes
  <1>1. /\ part = "night" /\ NightPart!NightInv /\ NightPart!NightInv' /\ NightPart!NightTypeOK
        /\ r1 \in 0..r3 /\ r3 <= MaxLaunches /\ r10 \in Seq([step : STRING, rc : {0, 1}])
    BY PartStays DEF NightHeld, NightTypes
  <1>2. CASE NightPart!NightNext
    BY <1>1, <1>2, LaunchTyped DEF NightTypes
  <1>3. CASE UNCHANGED pvars
    <2>1. UNCHANGED <<r1, r2, r3, r9, r10>>
      BY <1>3 DEF pvars, After0, After1, After4, After5, After6, After8, After9
    <2> QED BY <1>1, <2>1 DEF NightTypes, NightPart!NightTypeOK, NightPart!ChainExit
  <1> QED BY <1>1, <1>2, <1>3 DEF PartsNext

(* The drivers: of the engines alive one at most was started by this driver, *)
(* beside nothing or a stranger.                                              *)
LeftOver == [of |-> "left", config |-> "old"]
Stranger == [of |-> "stranger", config |-> "old"]
EnginesAre(es) ==
    \/ es \subseteq {LeftOver}
    \/ \E c : es \subseteq {Stranger, [of |-> "mine", config |-> c]}
SessionTypes == part = "session" => r10 \in {0, 1} /\ r11 \in 0..MaxTroubles /\ EnginesAre(r4)

LEMMA EnginesStay ==
  ASSUME EnginesAre(r4), SessionsPart!SessionsNext
  PROVE  EnginesAre(r4')
PROOF
  <1>1. \A es : es \subseteq r4 => EnginesAre(es)
    BY DEF EnginesAre
  <1>2. CASE SessionsPart!Choose
    <2>1. r4' \in {{}, {LeftOver}} \cup {{Stranger}}
      BY <1>2 DEF SessionsPart!Choose, LeftOver, Stranger
    <2> QED BY <2>1 DEF EnginesAre
  <1>3. CASE SessionsPart!Start
    <2>1. PICK left \in SessionsPart!Survivors : \/ SessionsPart!Up(left)
                                     \/ r4' = left
      BY <1>3 DEF SessionsPart!Start
    <2>2. left \subseteq SessionsPart!Strangers
      BY DEF SessionsPart!Survivors
    <2>3. SessionsPart!Strangers \subseteq {Stranger}
      BY DEF SessionsPart!Strangers, EnginesAre, LeftOver, Stranger
    <2>4. CASE SessionsPart!Up(left)
      <3> DEFINE c == SessionsPart!Session.config
      <3>1. r4' = left \cup {[of |-> "mine", config |-> c]}
        BY <2>4 DEF SessionsPart!Up
      <3> HIDE DEF c
      <3> QED BY <2>2, <2>3, <3>1 DEF EnginesAre
    <2>5. CASE r4' = left
      BY <1>1, <2>2, <2>5 DEF SessionsPart!Strangers
    <2> QED BY <2>1, <2>4, <2>5
  <1>4. SessionsPart!SessionStop \subseteq r4 /\ SessionsPart!StopMine \subseteq r4
    BY DEF SessionsPart!SessionStop, SessionsPart!StopMine
  <1>5. CASE SessionsPart!Upload
    BY <1>1, <1>4, <1>5 DEF SessionsPart!Upload
  <1>6. CASE SessionsPart!Load
    BY <1>1, <1>6 DEF SessionsPart!Load
  <1>7. CASE SessionsPart!Measure
    BY <1>1, <1>7 DEF SessionsPart!Measure
  <1>8. CASE SessionsPart!EndSession
    BY <1>1, <1>4, <1>8 DEF SessionsPart!EndSession
  <1>9. CASE SessionsPart!Crash
    BY <1>1, <1>4, <1>9 DEF SessionsPart!Crash
  <1>10. CASE SessionsPart!Interrupt
    BY <1>1, <1>4, <1>10 DEF SessionsPart!Interrupt
  <1>11. CASE SessionsPart!Finally
    BY <1>1, <1>4, <1>11 DEF SessionsPart!Finally
  <1> QED BY <1>2, <1>3, <1>5, <1>6, <1>7, <1>8, <1>9, <1>10, <1>11 DEF SessionsPart!SessionsNext

LEMMA EnginesAreFew ==
  ASSUME NEW es, EnginesAre(es)
  PROVE  /\ SessionsPart!Cardinality({e \in es : e.of = "mine"}) <= 1
         /\ SessionsPart!Cardinality(es) <= 2
PROOF
  <1>1. \A x : IsFiniteSet({x}) /\ Cardinality({x}) = 1
    BY FS_Singleton
  <1>2. \A x, y : IsFiniteSet({x, y}) /\ Cardinality({x, y}) <= 2
    <2>1. ASSUME NEW x, NEW y PROVE IsFiniteSet({x, y}) /\ Cardinality({x, y}) <= 2
      <3>1. /\ IsFiniteSet({x} \cup {y})
            /\ Cardinality({x} \cup {y}) = Cardinality({x})
                  \/ Cardinality({x} \cup {y}) = Cardinality({x}) + 1
        BY <1>1, FS_AddElement
      <3>2. {x} \cup {y} = {x, y}
        OBVIOUS
      <3> QED BY <1>1, <3>1, <3>2
    <2> QED BY <2>1
  <1>3. \A S, T : IsFiniteSet(T) /\ S \subseteq T =>
            Cardinality(S) <= Cardinality(T) /\ Cardinality(S) \in Nat /\ Cardinality(T) \in Nat
    <2>1. ASSUME NEW T, IsFiniteSet(T), NEW S \in SUBSET T
          PROVE  Cardinality(S) <= Cardinality(T) /\ Cardinality(S) \in Nat /\ Cardinality(T) \in Nat
      <3>1. IsFiniteSet(S) /\ Cardinality(S) <= Cardinality(T)
        BY <2>1, FS_Subset
      <3> QED BY <2>1, <3>1, FS_CardinalityType
    <2> QED BY <2>1
  <1>4. PICK c : es \subseteq {LeftOver} \/ es \subseteq {Stranger, [of |-> "mine", config |-> c]}
    BY DEF EnginesAre
  <1> DEFINE mine == [of |-> "mine", config |-> c]
  <1>5. {e \in es : e.of = "mine"} \subseteq {mine}
    BY <1>4 DEF LeftOver, Stranger
  <1>6. es \subseteq {LeftOver} \/ es \subseteq {Stranger, mine}
    BY <1>4
  <1> HIDE DEF mine
  <1>7. Cardinality({e \in es : e.of = "mine"}) <= 1
    BY <1>1, <1>3, <1>5
  <1>8. Cardinality(es) <= 2
    <2>1. CASE es \subseteq {LeftOver}
      <3>1. Cardinality(es) <= 1 /\ Cardinality(es) \in Nat
        BY <1>1, <1>3, <2>1
      <3> QED BY <3>1
    <2>2. CASE es \subseteq {Stranger, mine}
      <3>1. /\ Cardinality(es) <= Cardinality({Stranger, mine})
            /\ Cardinality(es) \in Nat /\ Cardinality({Stranger, mine}) \in Nat
            /\ Cardinality({Stranger, mine}) <= 2
        BY <1>2, <1>3, <2>2
      <3> QED BY <3>1
    <2> QED BY <1>6, <2>1, <2>2
  <1> QED BY <1>7, <1>8, SessionCounts

LEMMA SessionTyped == SessionTypes /\ [PartsNext]_pvars => SessionTypes'
PROOF
  <1> SUFFICES ASSUME SessionTypes, [PartsNext]_pvars, part' = "session"
               PROVE  r10' \in {0, 1} /\ r11' \in 0..MaxTroubles /\ EnginesAre(r4')
    BY DEF SessionTypes
  <1>1. part = "session" /\ r10 \in {0, 1} /\ r11 \in 0..MaxTroubles /\ EnginesAre(r4)
    BY PartStays DEF SessionTypes
  <1>2. MaxTroubles \in Nat
    BY PartBoundsAssumption DEF PartBoundsAssumption
  <1>3. CASE SessionsPart!SessionsNext
    <2>1. r10' \in {0, 1}
      BY <1>1, <1>3 DEF SessionsPart!SessionsNext, SessionsPart!Choose, SessionsPart!Start,
         SessionsPart!GivenUp, SessionsPart!Upload, SessionsPart!Load, SessionsPart!Measure,
                        SessionsPart!EndSession, SessionsPart!Crash, SessionsPart!Interrupt,
                        SessionsPart!Finally
    <2>2. r11' \in 0..MaxTroubles
      <3>1. CASE SessionsPart!Choose
        BY <1>1, <1>2, <3>1 DEF SessionsPart!Choose, SessionsPart!Trouble
      <3>2. CASE SessionsPart!Start
        BY <1>1, <1>2, <3>2 DEF SessionsPart!Start, SessionsPart!Trouble
      <3>3. CASE SessionsPart!Upload
        BY <1>1, <1>2, <3>3 DEF SessionsPart!Upload, SessionsPart!Trouble
      <3>4. CASE SessionsPart!Load
        BY <1>1, <1>2, <3>4 DEF SessionsPart!Load, SessionsPart!Trouble
      <3>5. CASE SessionsPart!Measure
        BY <1>1, <1>2, <3>5 DEF SessionsPart!Measure, SessionsPart!Trouble
      <3>6. CASE SessionsPart!EndSession
        BY <1>1, <1>2, <3>6 DEF SessionsPart!EndSession, SessionsPart!Trouble
      <3>7. CASE SessionsPart!Crash
        BY <1>1, <1>2, <3>7 DEF SessionsPart!Crash, SessionsPart!Trouble
      <3>8. CASE SessionsPart!Interrupt
        BY <1>1, <1>2, <3>8 DEF SessionsPart!Interrupt, SessionsPart!Trouble
      <3>9. CASE SessionsPart!Finally
        BY <1>1, <1>2, <3>9 DEF SessionsPart!Finally, SessionsPart!Trouble
      <3> QED BY <1>3, <3>1, <3>2, <3>3, <3>4, <3>5, <3>6, <3>7, <3>8,
          <3>9 DEF SessionsPart!SessionsNext
    <2> QED BY <1>1, <1>3, <2>1, <2>2, EnginesStay
  <1>4. CASE UNCHANGED pvars
    <2>1. UNCHANGED <<r4, r10, r11>>
      BY <1>4 DEF pvars, After0, After1, After4, After5, After6, After8, After9, After10
    <2> QED BY <1>1, <2>1
  <1> QED BY <1>1, <1>3, <1>4 DEF PartsNext

LEMMA SessionTypeOK ==
  SessionHeld /\ SessionTypes /\ part = "session" => SessionsPart!SessionsTypeOK
PROOF
  <1> SUFFICES ASSUME SessionsPart!SessionsInv, r10 \in {0, 1}, r11 \in 0..MaxTroubles, EnginesAre(r4)
               PROVE  SessionsPart!SessionsTypeOK
    BY DEF SessionHeld, SessionTypes
  <1>1. r1 \in SessionsPart!Drivers \cup {"none"}
    BY DEF SessionsPart!SessionsInv, SessionsPart!PlanHeld
  <1>2. r6 \in {"idle", "start", "upload", "load", "rows", "finally", "done"}
    BY DEF SessionsPart!SessionsInv, SessionsPart!PlanHeld, SessionsPart!Serving
  <1>3. SessionsPart!Cardinality(SessionsPart!Mine) <= 1 /\ SessionsPart!Cardinality(r4) <= 2
    BY EnginesAreFew DEF SessionsPart!Mine
  <1> QED BY <1>1, <1>2, <1>3 DEF SessionsPart!SessionsTypeOK

(* The page: a label has one row of each name, or none.                       *)
OneRowEach ==
    \A l \in PagePart!Label :
        /\ \A r \in r1[l] : r.id \in PagePart!RowIds
        /\ \A r, s \in r1[l] : r.id = s.id => r = s
PageTypes == part = "page" => r5 <= MaxPageTimes /\ OneRowEach

LEMMA PassRowsDiffer ==
  ASSUME NEW l, NEW made, NEW qps, NEW perf, NEW ref, NEW session
  PROVE  LET rows == PagePart!PassRows(l, made, qps, perf, ref, session)
         IN  /\ \A r \in rows : r.id \in PagePart!RowIds
             /\ \A r, s \in rows : r.id = s.id => r = s
PROOF
  <1> DEFINE when == PagePart!Min(made)
             source(id) == IF id = "W4" THEN "closed" ELSE IF ref = PagePart!None THEN "own" ELSE "pinned"
             rate(id) == IF id = "W4" THEN PagePart!None ELSE IF ref = PagePart!None THEN qps ELSE ref
             by == IF ref = PagePart!None THEN {} ELSE {r.perf : r \in PagePart!Saturations(perf)}
             row(id) == [id |-> id, of |-> l, when |-> when, made |-> made, qps |-> qps,
                         perf |-> perf, session |-> session, source |-> source(id),
                         rate |-> rate(id), refPerf |-> by]
  <1>1. PagePart!PassRows(l, made, qps, perf, ref, session) = {row(id) : id \in PagePart!RowIds}
    BY DEF PagePart!PassRows
  <1> HIDE DEF when, source, rate, by
  <1>2. \A id \in PagePart!RowIds : row(id).id = id
    OBVIOUS
  <1> HIDE DEF row
  <1> QED BY <1>1, <1>2

LEMMA OneRowEachStays ==
  ASSUME DOMAIN r1 = PagePart!Label, OneRowEach, PagePart!PageNext
  PROVE  OneRowEach'
PROOF
  <1>1. CASE PagePart!FullRun
    <2>1. PICK ls \in (SUBSET PagePart!Label) \ {{}} : \A l \in PagePart!Label :
            \/ r1'[l] = r1[l]
            \/ \E made, qps, perf, ref, session :
                  r1'[l] = PagePart!PassRows(l, made, qps, perf, ref, session)
      <3>1. PICK n \in 1..2, ls \in (SUBSET PagePart!Label) \ {{}}, perf \in BOOLEAN,
                 sat \in [PagePart!Label -> {4, 6}] :
              LET ref == PagePart!Reference(perf)
                  At(l) == {r5 + (k - 1) * PagePart!Cardinality(ls)
                              + (IF l = "qd" /\ ls = PagePart!Label THEN 2 ELSE 1) : k \in 1..n}
              IN  r1' = [l \in PagePart!Label |-> IF l \in ls THEN PagePart!PassRows(l, At(l),
              sat[l], perf, ref, r5')
                                          ELSE r1[l]]
        BY <1>1 DEF PagePart!FullRun
      <3> DEFINE At(l) == {r5 + (k - 1) * PagePart!Cardinality(ls)
                              + (IF l = "qd" /\ ls = PagePart!Label THEN 2 ELSE 1) : k \in 1..n}
      <3>2. \A l \in PagePart!Label :
               r1'[l] = IF l \in ls THEN PagePart!PassRows(l, At(l), sat[l], perf,
               PagePart!Reference(perf), r5')
                                       ELSE r1[l]
        BY <3>1
      <3> HIDE DEF At
      <3> QED BY <3>2
    <2> QED BY <2>1, PassRowsDiffer DEF OneRowEach
  <1>2. ASSUME NEW m \in PagePart!Label, PagePart!Retake(m) PROVE OneRowEach'
    <2>1. PICK id \in PagePart!RowIds, qps \in {4, 6} :
            LET sat == IF id = "W4" THEN qps ELSE (CHOOSE r \in r1[m] : r.id = "W4").qps
                new == {r \in PagePart!PassRows(m, {r5'}, sat, r3[m], PagePart!None, r5') : r.id = id}
            IN  r1' = [r1 EXCEPT ![m] = {r \in @ : r.id # id} \cup new]
      BY <1>2 DEF PagePart!Retake
    <2> DEFINE sat == IF id = "W4" THEN qps ELSE (CHOOSE r \in r1[m] : r.id = "W4").qps
               rows == PagePart!PassRows(m, {r5'}, sat, r3[m], PagePart!None, r5')
               new == {r \in rows : r.id = id}
    <2>2. r1' = [r1 EXCEPT ![m] = {r \in r1[m] : r.id # id} \cup new]
      BY <2>1
    <2> HIDE DEF sat
    <2>3. \A r \in rows : r.id \in PagePart!RowIds
      BY PassRowsDiffer
    <2>4. \A r, s \in rows : r.id = s.id => r = s
      BY PassRowsDiffer
    <2> HIDE DEF rows
    <2>5. ASSUME NEW l \in PagePart!Label
          PROVE  /\ \A r \in r1'[l] : r.id \in PagePart!RowIds
                 /\ \A r, s \in r1'[l] : r.id = s.id => r = s
      <3>1. CASE l # m
        BY <2>2, <3>1 DEF OneRowEach
      <3>2. CASE l = m
        <4>1. r1'[l] = {r \in r1[l] : r.id # id} \cup new
          BY <2>2, <3>2
        <4> QED BY <2>3, <2>4, <4>1 DEF OneRowEach
      <3> QED BY <3>1, <3>2
    <2> QED BY <2>5 DEF OneRowEach
  <1>3. CASE PagePart!Differ
    BY <1>3 DEF PagePart!Differ, OneRowEach
  <1> QED BY <1>1, <1>2, <1>3 DEF PagePart!PageNext

LEMMA PageTyped == PageHeld /\ PageTypes /\ [PartsNext]_pvars => PageTypes'
PROOF
  <1> SUFFICES ASSUME PageHeld, PageTypes, [PartsNext]_pvars, part' = "page"
               PROVE  r5' <= MaxPageTimes /\ OneRowEach'
    BY DEF PageTypes
  <1>1. part = "page" /\ r5 <= MaxPageTimes /\ OneRowEach
    BY PartStays DEF PageTypes
  <1>2. r5 \in Nat /\ MaxPageTimes \in Nat /\ DOMAIN r1 = PagePart!Label
    BY <1>1, PartBoundsAssumption
       DEF PartBoundsAssumption, PageHeld, PagePart!PageInv, PagePart!TimesHeld
  <1>3. CASE PagePart!PageNext
    <2>1. r5' <= MaxPageTimes
      <3>1. CASE PagePart!FullRun
        BY <3>1 DEF PagePart!FullRun
      <3>2. CASE PagePart!Differ \/ \E l \in PagePart!Label : PagePart!Retake(l)
        BY <1>2, <3>2 DEF PagePart!Differ, PagePart!Retake
      <3> QED BY <1>3, <3>1, <3>2 DEF PagePart!PageNext
    <2> QED BY <1>1, <1>2, <1>3, <2>1, OneRowEachStays
  <1>4. CASE UNCHANGED pvars
    <2>1. UNCHANGED <<r1, r5>>
      BY <1>4 DEF pvars, After0, After1, After4
    <2> QED BY <1>1, <2>1 DEF OneRowEach
  <1> QED BY <1>1, <1>3, <1>4 DEF PartsNext

LEMMA PageTypeOK == PageHeld /\ PageTypes /\ part = "page" => PagePart!PageTypeOK
PROOF
  <1> SUFFICES ASSUME PagePart!PageInv, r5 <= MaxPageTimes, OneRowEach PROVE PagePart!PageTypeOK
    BY DEF PageHeld, PageTypes
  <1>1. r5 \in 0..MaxPageTimes
    BY PartBoundsAssumption DEF PartBoundsAssumption, PagePart!PageInv, PagePart!TimesHeld
  <1>2. \A x, y : x # y => Cardinality({x, y}) = 2
    <2>1. ASSUME NEW x, NEW y, x # y PROVE Cardinality({x, y}) = 2
      <3>1. IsFiniteSet({x}) /\ Cardinality({x}) = 1
        BY FS_Singleton
      <3>2. Cardinality({x} \cup {y}) = 2
        BY <2>1, <3>1, FS_AddElement
      <3>3. {x} \cup {y} = {x, y}
        OBVIOUS
      <3> QED BY <3>2, <3>3
    <2> QED BY <2>1
  <1>3. ASSUME NEW l \in PagePart!Label PROVE PagePart!Cardinality(r1[l]) \in {0, 2}
    <2>1. CASE r1[l] = {}
      BY <2>1, FS_EmptySet, PageCounts
    <2>2. CASE r1[l] # {}
      <3>1. PICK r \in r1[l] : r.id = "W4"
        BY <2>2 DEF PagePart!PageInv, PagePart!LoadsHeld, PagePart!RowIds
      <3>2. PICK s \in r1[l] : s.id = "W4-sat50"
        BY <2>2 DEF PagePart!PageInv, PagePart!LoadsHeld, PagePart!RowIds
      <3>3. r1[l] = {r, s} /\ r # s
        BY <3>1, <3>2 DEF OneRowEach, PagePart!RowIds
      <3> QED BY <1>2, <3>3, PageCounts
    <2> QED BY <2>1, <2>2
  <1>4. ASSUME NEW l \in PagePart!Label PROVE PagePart!Cardinality(r4[l]) <= 1
    <2>1. r4[l] = {} \/ \E c : r4[l] = {c}
      BY DEF PagePart!PageInv, PagePart!LicencesHeld
    <2>2. PagePart!Cardinality(r4[l]) = 0 \/ PagePart!Cardinality(r4[l]) = 1
      BY <2>1, FS_EmptySet, FS_Singleton, PageCounts
    <2> QED BY <2>2
  <1> QED BY <1>1, <1>3, <1>4 DEF PagePart!PageTypeOK

(* The sweeps: two files of one name are one file.                            *)
NamesDiffer == \A f, g \in r4 : f.name = g.name => f = g
JoinTypes ==
    part = "join" =>
        /\ r1 \in {"unknown", "yes", "no"} /\ r2 \in BOOLEAN /\ r6 \in 0..MaxSweeps
        /\ NamesDiffer

LEMMA PutReplaces ==
  ASSUME NamesDiffer, NEW name, NEW doc, r4' = JoinPart!Put(name, doc)
  PROVE  NamesDiffer'
PROOF
  <1> DEFINE file == [name |-> name, doc |-> doc]
  <1>1. file.name = name
    OBVIOUS
  <1>2. r4' = {f \in r4 : f.name # name} \cup {file}
    BY DEF JoinPart!Put
  <1> HIDE DEF file
  <1> QED BY <1>1, <1>2 DEF NamesDiffer

LEMMA SweepTyped ==
  ASSUME r1 \in {"unknown", "yes", "no"}, r2 \in BOOLEAN, r6 \in 0..MaxSweeps, NamesDiffer,
         JoinPart!JoinNext
  PROVE  r1' \in {"unknown", "yes", "no"} /\ r2' \in BOOLEAN /\ r6' \in 0..MaxSweeps /\ NamesDiffer'
PROOF
  <1>1. MaxSweeps \in Nat
    BY PartBoundsAssumption DEF PartBoundsAssumption
  <1>2. CASE JoinPart!Engine
    BY <1>2 DEF JoinPart!Engine, NamesDiffer
  <1>3. CASE JoinPart!RunRow
    BY <1>3 DEF JoinPart!RunRow, NamesDiffer
  <1>4. CASE JoinPart!Restamp
    BY <1>4 DEF JoinPart!Restamp, NamesDiffer
  <1>5. CASE JoinPart!BinaryWrites
    <2>1. \E name, doc : r4' = JoinPart!Put(name, doc)
      BY <1>5 DEF JoinPart!BinaryWrites
    <2>2. UNCHANGED <<r1, r2>> /\ r6' \in 0..MaxSweeps
      BY <1>1, <1>5 DEF JoinPart!BinaryWrites
    <2> QED BY <2>1, <2>2, PutReplaces
  <1>6. CASE JoinPart!Stamp
    <2>1. PICK f \in r4 : r4' = r4 \ {f} \/ \E name, doc : r4' = JoinPart!Put(name, doc)
      BY <1>6 DEF JoinPart!Stamp
    <2>2. UNCHANGED <<r1, r2, r6>>
      BY <1>6 DEF JoinPart!Stamp
    <2>3. CASE r4' = r4 \ {f}
      BY <2>2, <2>3 DEF NamesDiffer
    <2>4. CASE \E name, doc : r4' = JoinPart!Put(name, doc)
      BY <2>2, <2>4, PutReplaces
    <2> QED BY <2>1, <2>3, <2>4
  <1>7. CASE JoinPart!DieUnstamped
    BY <1>7 DEF JoinPart!DieUnstamped, NamesDiffer
  <1>8. CASE JoinPart!Legacy
    <2>1. \E name, doc : r4' = JoinPart!Put(name, doc)
      BY <1>8 DEF JoinPart!Legacy
    <2>2. UNCHANGED <<r1, r2>> /\ r6' \in 0..MaxSweeps
      BY <1>1, <1>8 DEF JoinPart!Legacy
    <2> QED BY <2>1, <2>2, PutReplaces
  <1> QED BY <1>2, <1>3, <1>4, <1>5, <1>6, <1>7, <1>8 DEF JoinPart!JoinNext

LEMMA JoinTyped == JoinTypes /\ [PartsNext]_pvars => JoinTypes'
PROOF
  <1> SUFFICES ASSUME JoinTypes, [PartsNext]_pvars, part' = "join" PROVE JoinTypes'
    BY DEF JoinTypes
  <1>1. /\ part = "join" /\ r1 \in {"unknown", "yes", "no"} /\ r2 \in BOOLEAN
        /\ r6 \in 0..MaxSweeps /\ NamesDiffer
    BY PartStays DEF JoinTypes
  <1>2. CASE JoinPart!JoinNext
    BY <1>1, <1>2, SweepTyped DEF JoinTypes
  <1>3. CASE UNCHANGED pvars
    <2>1. UNCHANGED <<r1, r2, r4, r6>>
      BY <1>3 DEF pvars, After0, After1, After4, After5
    <2> QED BY <1>1, <2>1 DEF JoinTypes, NamesDiffer
  <1> QED BY <1>1, <1>2, <1>3 DEF PartsNext

LEMMA JoinTypeOK == JoinHeld /\ JoinTypes /\ part = "join" => JoinPart!JoinTypeOK
PROOF
  <1> SUFFICES ASSUME JoinPart!JoinInv, r1 \in {"unknown", "yes", "no"}, r2 \in BOOLEAN,
                      r6 \in 0..MaxSweeps, NamesDiffer
               PROVE  JoinPart!JoinTypeOK
    BY DEF JoinHeld, JoinTypes
  <1>1. r3 \subseteq [of : JoinPart!Searches, says : BOOLEAN]
    BY DEF JoinPart!JoinInv, JoinPart!RowsSane
  <1>2. \A f \in r4 : f.doc.of \in JoinPart!Searches
    BY DEF JoinPart!JoinInv, JoinPart!FilesTell, JoinPart!FileTells
  <1> QED BY <1>1, <1>2 DEF JoinPart!JoinTypeOK, NamesDiffer

(* The sink: a label has one run.json and one differ's row, and of what is    *)
(* upserted the last stays.                                                   *)
SingleFiles ==
    \A l \in SinkPart!Label :
        /\ \A m, n \in r3[l] : m = n
        /\ \A c, d \in r6[l] : c = d
        /\ \A r, s \in r4[l] : r.w = s.w => r = s
RowsDiffer ==
    /\ \A c, d \in r7 : c.hash = d.hash => c = d
    /\ \A p, q \in r8 : SinkPart!SameKey(p, q) => p = q
SinkTypes == part = "sink" => SingleFiles /\ RowsDiffer

LEMMA SingleFilesStay ==
  ASSUME SinkPart!FilesHeld, SingleFiles, SinkPart!SinkNext
  PROVE  SingleFiles'
PROOF
  <1>1. DOMAIN r3 = SinkPart!Label /\ DOMAIN r4 = SinkPart!Label
    BY DEF SinkPart!FilesHeld
  <1>2. CASE UNCHANGED <<r3, r4, r6>>
    BY <1>2 DEF SingleFiles
  <1>3. ASSUME NEW m \in SinkPart!Label, SinkPart!Measure(m) PROVE SingleFiles'
    <2>1. PICK done :
                  r4' = [r4 EXCEPT ![m] = {r \in r4[m] : r.w \notin done} \cup {SinkPart!Row(w) :
                     w \in done}]
      BY <1>3 DEF SinkPart!Measure
    <2>2. PICK x : r3' = [r3 EXCEPT ![m] = {x}]
      BY <1>3 DEF SinkPart!Measure
    <2>3. r6' = r6
      BY <1>3 DEF SinkPart!Measure
    <2>4. \A w : SinkPart!Row(w).w = w
      BY DEF SinkPart!Row
    <2>5. ASSUME NEW l \in SinkPart!Label
          PROVE  /\ \A a, b \in r3'[l] : a = b
                 /\ \A r, s \in r4'[l] : r.w = s.w => r = s
      <3>1. CASE l # m
        BY <2>1, <2>2, <3>1 DEF SingleFiles
      <3>2. CASE l = m
        <4>1. r3'[l] = {x}
                 /\ r4'[l] = {r \in r4[l] : r.w \notin done} \cup {SinkPart!Row(w) : w \in done}
          BY <1>1, <2>1, <2>2, <3>2
        <4> QED BY <2>4, <4>1 DEF SingleFiles
      <3> QED BY <3>1, <3>2
    <2> QED BY <2>3, <2>5 DEF SingleFiles
  <1>4. CASE SinkPart!Differ
    <2>1. \A l \in SinkPart!Label : \E x : r6'[l] = {x}
      <3>1. PICK tier \in {"T0", "T1", "T3"} : r6' = [l \in SinkPart!Label |->
              {[hash |-> <<r1, r2, tier>>, build |-> r1, dataset |-> r2,
                licensesPerf |-> tier # "T0", licensesComparative |-> tier = "T3"]}]
        BY <1>4 DEF SinkPart!Differ
      <3> QED BY <3>1
    <2>2. UNCHANGED <<r3, r4>>
      BY <1>4 DEF SinkPart!Differ
    <2> QED BY <2>1, <2>2 DEF SingleFiles
  <1>5. CASE SinkPart!Rebuild \/ \E l \in SinkPart!Label : SinkPart!Sweep(l) \/ SinkPart!Ingest(l)
    BY <1>2, <1>5 DEF SinkPart!Rebuild, SinkPart!Sweep, SinkPart!Ingest
  <1> QED BY <1>3, <1>4, <1>5 DEF SinkPart!SinkNext

LEMMA UpsertReplaces ==
  ASSUME RowsDiffer, NEW es, \A e, f \in es : SinkPart!SameKey(e, f) => e = f,
         r8' = SinkPart!Upsert(es)
  PROVE  \A p, q \in r8' : SinkPart!SameKey(p, q) => p = q
PROOF
  <1>1. \A p, q : SinkPart!SameKey(p, q) => SinkPart!SameKey(q, p)
    BY DEF SinkPart!SameKey
  <1> QED BY <1>1 DEF SinkPart!Upsert, RowsDiffer

LEMMA RowsDifferStay ==
  ASSUME SingleFiles, RowsDiffer, SinkPart!SinkNext
  PROVE  RowsDiffer'
PROOF
  <1>1. CASE UNCHANGED <<r7, r8>>
    BY <1>1 DEF RowsDiffer
  <1>2. ASSUME NEW l \in SinkPart!Label, SinkPart!Ingest(l) PROVE RowsDiffer'
    <2>1. r7' = {c \in r7 : ~\E d \in r6[l] : d.hash = c.hash} \cup r6[l]
      BY <1>2 DEF SinkPart!Ingest
    <2>2. \A c, d \in r7' : c.hash = d.hash => c = d
      BY <2>1 DEF SingleFiles, RowsDiffer
    <2>3. CASE r8' = r8
      BY <2>2, <2>3 DEF RowsDiffer
    <2> DEFINE ts == {u \in r4[l] \X r6[l] \X r3[l] : ~SinkPart!Refused(l, u[1], u[2], u[3])}
               es == {SinkPart!Entry(l, t[1], t[2], t[3]) : t \in ts}
    <2>4. CASE r8' = SinkPart!Upsert(es)
      <3>1. \A t \in ts : t[1] \in r4[l] /\ t[2] \in r6[l] /\ t[3] \in r3[l]
        OBVIOUS
      <3>2. \A r, c, m : SinkPart!Entry(l, r, c, m).workload = r.w
        BY DEF SinkPart!Entry
      <3>3. ASSUME NEW e \in es, NEW f \in es, SinkPart!SameKey(e, f) PROVE e = f
        <4>1. PICK t \in ts : e = SinkPart!Entry(l, t[1], t[2], t[3])
          OBVIOUS
        <4>2. PICK u \in ts : f = SinkPart!Entry(l, u[1], u[2], u[3])
          OBVIOUS
        <4>3. t[1].w = u[1].w
          BY <3>2, <3>3, <4>1, <4>2 DEF SinkPart!SameKey
        <4>4. t[1] = u[1] /\ t[2] = u[2] /\ t[3] = u[3]
          BY <3>1, <4>3 DEF SingleFiles
        <4> QED BY <4>1, <4>2, <4>4
      <3> HIDE DEF es
      <3>4. \A e, f \in es : SinkPart!SameKey(e, f) => e = f
        BY <3>3
      <3> QED BY <2>2, <2>4, <3>4, UpsertReplaces DEF RowsDiffer
    <2>5. r8' = r8 \/ r8' = SinkPart!Upsert(es)
      BY <1>2 DEF SinkPart!Ingest
    <2> QED BY <2>3, <2>4, <2>5
  <1>3. CASE SinkPart!Rebuild \/ SinkPart!Differ \/ \E l \in SinkPart!Label : SinkPart!Measure(l)
                \/ SinkPart!Sweep(l)
    BY <1>1, <1>3 DEF SinkPart!Rebuild, SinkPart!Differ, SinkPart!Measure, SinkPart!Sweep
  <1> QED BY <1>2, <1>3 DEF SinkPart!SinkNext

LEMMA SinkTyped == SinkHeld /\ SinkTypes /\ [PartsNext]_pvars => SinkTypes'
PROOF
  <1> SUFFICES ASSUME SinkHeld, SinkTypes, [PartsNext]_pvars, part' = "sink"
               PROVE  SingleFiles' /\ RowsDiffer'
    BY DEF SinkTypes
  <1>1. part = "sink" /\ SingleFiles /\ RowsDiffer
    BY PartStays DEF SinkTypes
  <1>2. SinkPart!FilesHeld
    BY <1>1 DEF SinkHeld, SinkPart!SinkInv
  <1>3. CASE SinkPart!SinkNext
    BY <1>1, <1>2, <1>3, SingleFilesStay, RowsDifferStay
  <1>4. CASE UNCHANGED pvars
    <2>1. UNCHANGED <<r3, r4, r6, r7, r8>>
      BY <1>4 DEF pvars, After0, After1, After4, After5, After6, After8
    <2> QED BY <1>1, <2>1 DEF SingleFiles, RowsDiffer
  <1> QED BY <1>1, <1>3, <1>4 DEF PartsNext

LEMMA SinkTypeOK == SinkHeld /\ SinkTypes /\ part = "sink" => SinkPart!SinkTypeOK
PROOF
  BY DEF SinkHeld, SinkTypes, SinkPart!SinkInv, SinkPart!FilesHeld, SinkPart!SinkTypeOK,
     SingleFiles, RowsDiffer

SamplerTypes ==
    part = "sampler" =>
        /\ r1 \in {"open", "opening", "opened", "sampled", "running", "stopping", "closing",
                   "closed"}
        /\ r14 \in {"off", "on", "orphan"} /\ r16 \in 0..MaxUpsets

LEMMA BracketTyped ==
  ASSUME r1 \in {"open", "opening", "opened", "sampled", "running", "stopping", "closing", "closed"},
         r14 \in {"off", "on", "orphan"}, r16 \in 0..MaxUpsets, SamplerPart!SamplerNext
  PROVE  /\ r1' \in {"open", "opening", "opened", "sampled", "running", "stopping", "closing",
                     "closed"}
         /\ r14' \in {"off", "on", "orphan"} /\ r16' \in 0..MaxUpsets
PROOF
  <1>1. r1' \in {"open", "opening", "opened", "sampled", "running", "stopping", "closing",
                 "closed"}
    BY DEF SamplerPart!SamplerNext, SamplerPart!Work, SamplerPart!ThreadStarts,
       SamplerPart!ThreadExits, SamplerPart!EngineReplaced, SamplerPart!OpenStat,
           SamplerPart!OpenThreads, SamplerPart!StartSampler, SamplerPart!StartCar,
           SamplerPart!LoopRead, SamplerPart!LoopBank, SamplerPart!StopCar, SamplerPart!Join,
           SamplerPart!LastPoll, SamplerPart!SumUp, SamplerPart!CloseStat, SamplerPart!CloseThreads,
           SamplerPart!HarnessEnds
  <1>2. r14' \in {"off", "on", "orphan"}
    BY DEF SamplerPart!SamplerNext, SamplerPart!Work, SamplerPart!ThreadStarts,
       SamplerPart!ThreadExits, SamplerPart!EngineReplaced, SamplerPart!OpenStat,
           SamplerPart!OpenThreads, SamplerPart!StartSampler, SamplerPart!StartCar,
           SamplerPart!LoopRead, SamplerPart!LoopBank, SamplerPart!StopCar, SamplerPart!Join,
           SamplerPart!LastPoll, SamplerPart!SumUp, SamplerPart!CloseStat, SamplerPart!CloseThreads,
           SamplerPart!HarnessEnds
  <1>3. MaxUpsets \in Nat
    BY PartBoundsAssumption DEF PartBoundsAssumption
  <1>4. CASE \E n \in {0, 1} : SamplerPart!Upset(n)
    BY <1>1, <1>2, <1>3, <1>4 DEF SamplerPart!Upset
  <1>5. CASE r16' = r16
    BY <1>1, <1>2, <1>5
  <1>6. CASE SamplerPart!ThreadExits \/ SamplerPart!EngineReplaced \/ SamplerPart!HarnessEnds
    BY <1>4, <1>6 DEF SamplerPart!ThreadExits, SamplerPart!EngineReplaced, SamplerPart!HarnessEnds
  <1>7. CASE SamplerPart!Join
    BY <1>4, <1>7 DEF SamplerPart!Join
  <1> QED BY <1>1, <1>2, <1>5, <1>6, <1>7
             DEF SamplerPart!SamplerNext, SamplerPart!Work, SamplerPart!ThreadStarts,
             SamplerPart!OpenStat,
                 SamplerPart!OpenThreads, SamplerPart!StartSampler, SamplerPart!StartCar,
                 SamplerPart!LoopRead, SamplerPart!LoopBank, SamplerPart!StopCar,
                 SamplerPart!LastPoll, SamplerPart!SumUp, SamplerPart!CloseStat,
                 SamplerPart!CloseThreads

LEMMA SamplerTyped == SamplerTypes /\ [PartsNext]_pvars => SamplerTypes'
PROOF
  <1> SUFFICES ASSUME SamplerTypes, [PartsNext]_pvars, part' = "sampler" PROVE SamplerTypes'
    BY DEF SamplerTypes
  <1>1. /\ part = "sampler"
        /\ r1 \in {"open", "opening", "opened", "sampled", "running", "stopping", "closing",
                   "closed"}
        /\ r14 \in {"off", "on", "orphan"} /\ r16 \in 0..MaxUpsets
    BY PartStays DEF SamplerTypes
  <1>2. CASE SamplerPart!SamplerNext
    BY <1>1, <1>2, BracketTyped DEF SamplerTypes
  <1>3. CASE UNCHANGED pvars
    <2>1. UNCHANGED <<r1, r14, r16>>
      BY <1>3 DEF pvars, After0, After1, After4, After5, After6, After8, After9, After10, After11,
                  After13, After14, After15
    <2> QED BY <1>1, <2>1 DEF SamplerTypes
  <1> QED BY <1>1, <1>2, <1>3 DEF PartsNext

LEMMA SamplerTypeOK == SamplerHeld /\ SamplerTypes /\ part = "sampler" => SamplerPart!SamplerTypeOK
PROOF
  <1> SUFFICES ASSUME SamplerPart!TalliesHeld,
                      r1 \in {"open", "opening", "opened", "sampled", "running", "stopping",
                              "closing", "closed"},
                      r14 \in {"off", "on", "orphan"}, r16 \in 0..MaxUpsets
               PROVE  SamplerPart!SamplerTypeOK
    BY DEF SamplerHeld, SamplerTypes, SamplerPart!SamplerInv
  <1>1. /\ DOMAIN r3 \subseteq Threads /\ DOMAIN r8 = DOMAIN r9 /\ r10 \subseteq DOMAIN r9
        /\ r6 \in {"off", "running", "joining", "last", "sum"}
    BY DEF SamplerPart!TalliesHeld, SamplerPart!Tally
  <1> QED BY <1>1 DEF SamplerPart!SamplerTypeOK

(* The load: a process used what the machine was busy for, and its own time  *)
(* before.                                                                    *)
LoadTypes == part = "load" => HostLoadPart!LoadTypeOK /\ \A p \in LoadProcs : r2[p] <= r4 - 3

LEMMA BusyTyped ==
  ASSUME HostLoadPart!LoadTypeOK, \A p \in LoadProcs : r2[p] <= r4 - 3, HostLoadPart!LoadNext
  PROVE  HostLoadPart!LoadTypeOK' /\ \A p \in LoadProcs : r2'[p] <= r4' - 3
PROOF
  <1>1. MaxBursts \in Nat /\ HostLoadPart!Procs = LoadProcs
    BY PartBoundsAssumption, LoadNames DEF PartBoundsAssumption
  <1>2. r2 \in [LoadProcs -> -1..(MaxBursts + 2)] /\ r4 \in 4..(4 + MaxBursts)
    BY <1>1 DEF HostLoadPart!LoadTypeOK
  <1>3. /\ r1' \in {"idle", "row", "after", "judged"} /\ r8' \in {"no", "busy"}
        /\ r11' \in {"none", "quiet", "foreign"} /\ r12' \in {"none", "ok", "fail"}
    <2> USE DEF HostLoadPart!LoadTypeOK
    <2>1. CASE UNCHANGED <<r1, r8, r11, r12>>
      BY <2>1
    <2>2. CASE HostLoadPart!ReadProcs
      BY <2>2 DEF HostLoadPart!ReadProcs
    <2>3. CASE HostLoadPart!ReadBusy
      BY <2>3 DEF HostLoadPart!ReadBusy
    <2>4. CASE HostLoadPart!Judge
      BY <2>4 DEF HostLoadPart!Judge, HostLoadPart!ForeignBetween, HostLoadPart!CheckQuiescent
    <2> QED BY <2>1, <2>2, <2>3, <2>4
            DEF HostLoadPart!LoadNext, HostLoadPart!Burst, HostLoadPart!ChildStarts,
            HostLoadPart!ChildReaped, HostLoadPart!Exits, HostLoadPart!Starts, HostLoadPart!Execs
  <1>4. CASE HostLoadPart!Burst
    <2>1. PICK p \in LoadProcs : r2' = [r2 EXCEPT ![p] = r2[p] + 1]
      BY <1>1, <1>4 DEF HostLoadPart!Burst, HostLoadPart!Running
    <2>2. r4 < 4 + MaxBursts /\ r4' = r4 + 1
      BY <1>4 DEF HostLoadPart!Burst
    <2>3. \A q \in LoadProcs : r2'[q] \in -1..(MaxBursts + 2) /\ r2'[q] <= r4' - 3
      <3> SUFFICES ASSUME NEW q \in LoadProcs
                   PROVE  r2'[q] \in -1..(MaxBursts + 2) /\ r2'[q] <= r4' - 3
        OBVIOUS
      <3>1. r2[q] \in -1..(MaxBursts + 2) /\ r2[q] <= r4 - 3
        BY <1>2
      <3>2. r2'[q] = r2[q] \/ r2'[q] = r2[q] + 1
        BY <1>2, <2>1
      <3> QED BY <1>1, <1>2, <2>2, <3>1, <3>2
    <2>4. r2' \in [LoadProcs -> -1..(MaxBursts + 2)]
      BY <1>2, <2>1, <2>3
    <2> QED BY <1>1, <1>2, <1>3, <2>2, <2>3, <2>4 DEF HostLoadPart!LoadTypeOK
  <1>5. CASE \E p \in LoadProcs, v \in {-1, 0} : r2' = [r2 EXCEPT ![p] = v] /\ r4' = r4
    <2>1. PICK p \in LoadProcs, v \in {-1, 0} : r2' = [r2 EXCEPT ![p] = v] /\ r4' = r4
      BY <1>5
    <2>2. r2' \in [LoadProcs -> -1..(MaxBursts + 2)]
      BY <1>1, <1>2, <2>1
    <2>3. \A q \in LoadProcs : r2'[q] <= r4' - 3
      BY <1>1, <1>2, <2>1
    <2> QED BY <1>1, <1>2, <1>3, <2>1, <2>2, <2>3 DEF HostLoadPart!LoadTypeOK
  <1>6. CASE UNCHANGED <<r2, r4>>
    BY <1>1, <1>2, <1>3, <1>6 DEF HostLoadPart!LoadTypeOK
  <1>7. CASE HostLoadPart!ChildStarts \/ HostLoadPart!ChildReaped
    <2>1. "bfb" \in LoadProcs
      BY DEF LoadProcs
    <2> QED BY <1>5, <1>7, <2>1 DEF HostLoadPart!ChildStarts, HostLoadPart!ChildReaped
  <1>8. CASE HostLoadPart!Exits
    <2>1. PICK p \in LoadProcs : r2' = [r2 EXCEPT ![p] = -1] /\ r4' = r4
      BY <1>1, <1>8 DEF HostLoadPart!Exits, HostLoadPart!Running
    <2> QED BY <1>5, <2>1
  <1>9. CASE HostLoadPart!Starts
    <2>1. PICK p \in HostLoadPart!Foreign : r2' = [r2 EXCEPT ![p] = 0] /\ r4' = r4
      BY <1>9 DEF HostLoadPart!Starts
    <2>2. p \in LoadProcs
      BY LoadNames DEF LoadForeign, LoadProcs
    <2> QED BY <1>5, <2>1, <2>2
  <1>10. CASE HostLoadPart!Execs \/ HostLoadPart!ReadProcs \/ HostLoadPart!ReadBusy
                 \/ HostLoadPart!Judge
    BY <1>6, <1>10 DEF HostLoadPart!Execs, HostLoadPart!ReadProcs, HostLoadPart!ReadBusy,
       HostLoadPart!Judge
  <1> QED BY <1>4, <1>7, <1>8, <1>9, <1>10 DEF HostLoadPart!LoadNext

LEMMA LoadTyped == LoadTypes /\ [PartsNext]_pvars => LoadTypes'
PROOF
  <1> SUFFICES ASSUME LoadTypes, [PartsNext]_pvars, part' = "load"
               PROVE  HostLoadPart!LoadTypeOK' /\ \A p \in LoadProcs : r2'[p] <= r4' - 3
    BY DEF LoadTypes
  <1>1. part = "load" /\ HostLoadPart!LoadTypeOK /\ \A p \in LoadProcs : r2[p] <= r4 - 3
    BY PartStays DEF LoadTypes
  <1>2. CASE HostLoadPart!LoadNext
    BY <1>1, <1>2, BusyTyped
  <1>3. CASE UNCHANGED pvars
    <2>1. UNCHANGED <<r1, r2, r4, r8, r11, r12>>
      BY <1>3 DEF pvars, After0, After1, After4, After5, After6, After8, After9, After10, After11
    <2> QED BY <1>1, <2>1 DEF HostLoadPart!LoadTypeOK
  <1> QED BY <1>1, <1>2, <1>3 DEF PartsNext

-----------------------------------------------------------------------------
(* Each part starts with its types.                                           *)
LEMMA PassesStartTyped == PartsInit => RowTypes /\ FoldTypes /\ VerdictTypes
PROOF
  <1> SUFFICES ASSUME PartsInit PROVE RowTypes /\ FoldTypes /\ VerdictTypes
    OBVIOUS
  <1> USE PartBoundsAssumption, HarnessAssumption
  <1>1. ASSUME part = "row" PROVE RowRunnerPart!RunnerTypeOK /\ FactorHeld
    <2>1. RowRunnerPart!RunnerInit
      BY <1>1 DEF PartsInit
    <2>2. Len(RunRows) \in Nat /\ GateRetries \in Nat /\ DirtyRetries \in Nat /\ RowPasses \in Nat
      BY DEF PartBoundsAssumption, HarnessAssumption
    <2> QED BY <2>1, <2>2 DEF RowRunnerPart!RunnerInit, RowRunnerPart!RunnerTypeOK, FactorHeld,
                              RowRunnerPart!Running
  <1>2. ASSUME part = "fold" PROVE PassFoldPart!FoldTypeOK
    <2>1. r1 = <<>> /\ FoldPasses \in Nat
      BY <1>2 DEF PartsInit, PassFoldPart!FoldInit, HarnessAssumption
    <2> QED BY <2>1 DEF PassFoldPart!FoldTypeOK
  <1>3. ASSUME part = "verdict" PROVE VerdictPart!VerdictTypeOK
    <2>1. VerdictPart!VerdictInit /\ MaxOddities \in Nat
      BY <1>3 DEF PartsInit, PartBoundsAssumption
    <2>2. r1 \in VerdictPart!Kinds0
      BY <2>1 DEF VerdictPart!VerdictInit, VerdictPart!Kinds0
    <2>3. r2 = [a \in VerdictPart!Pair |-> VerdictPart!HealthyRow] /\ r4 = 0
      BY <2>1 DEF VerdictPart!VerdictInit
    <2> QED BY <2>1, <2>2, <2>3 DEF VerdictPart!VerdictTypeOK
  <1> QED BY <1>1, <1>2, <1>3 DEF RowTypes, FoldTypes, VerdictTypes

LEMMA HostStartsTyped == PartsInit => SamplerTypes /\ LoadTypes /\ SettleTypes
PROOF
  <1> SUFFICES ASSUME PartsInit PROVE SamplerTypes /\ LoadTypes /\ SettleTypes
    OBVIOUS
  <1>1. /\ MaxUpsets \in Nat /\ MaxBursts \in Nat /\ MaxShifts \in Nat /\ MaxPolls \in Nat
    BY PartBoundsAssumption, HarnessAssumption DEF PartBoundsAssumption, HarnessAssumption
  <1>2. part = "sampler" => SamplerPart!SamplerInit
    BY DEF PartsInit
  <1>3. SamplerTypes
    BY <1>1, <1>2 DEF SamplerTypes, SamplerPart!SamplerInit
  <1>4. ASSUME part = "load"
        PROVE  HostLoadPart!LoadTypeOK /\ \A p \in LoadProcs : r2[p] <= r4 - 3
    <2>1. HostLoadPart!LoadInit
      BY <1>4 DEF PartsInit
    <2>2. r2 = [p \in LoadProcs |-> IF p = "bfb" THEN -1 ELSE 1] /\ r4 = 4
      BY <2>1, LoadNames DEF HostLoadPart!LoadInit
    <2>3. \A p \in LoadProcs : r2[p] \in -1..(MaxBursts + 2) /\ r2[p] <= r4 - 3
      BY <1>1, <2>2
    <2>4. r2 \in [HostLoadPart!Procs -> -1..(MaxBursts + 2)]
      BY <2>2, <2>3, LoadNames
    <2> QED BY <1>1, <2>1, <2>3, <2>4 DEF HostLoadPart!LoadInit, HostLoadPart!LoadTypeOK
  <1>5. ASSUME part = "settle"
        PROVE  SettlePart!SettleTypeOK /\ r1 \in {0, 3, 4} /\ r7 \in Seq(0..6)
    <2>1. SettlePart!SettleInit
      BY <1>5 DEF PartsInit
    <2> QED BY <1>1, <2>1 DEF SettlePart!SettleInit, SettlePart!SettleTypeOK,
                              SettlePart!PlateauPolls, SettlePart!IdleStable
  <1> QED BY <1>3, <1>4, <1>5 DEF LoadTypes, SettleTypes

LEMMA LabelsStartTyped == PartsInit => JoinTypes /\ SinkTypes /\ RetentionTypes /\ FloorTypes
         /\ RecordTypes
PROOF
  <1> SUFFICES ASSUME PartsInit
               PROVE  JoinTypes /\ SinkTypes /\ RetentionTypes /\ FloorTypes /\ RecordTypes
    OBVIOUS
  <1>1. MaxSweeps \in Nat /\ MaxDay \in Nat /\ MaxFolds \in Nat /\ MaxClock \in Nat
    BY PartBoundsAssumption DEF PartBoundsAssumption
  <1>2. part = "join" => JoinPart!JoinInit
    BY DEF PartsInit
  <1>3. JoinTypes
    <2>1. r2 = FALSE => r2 \in BOOLEAN
      OBVIOUS
    <2>2. part = "join" => r1 = "unknown" /\ r2 = FALSE /\ r4 = {} /\ r6 = 0
      BY <1>2 DEF JoinPart!JoinInit
    <2>3. part = "join" => r1 \in {"unknown", "yes", "no"} /\ NamesDiffer /\ r6 \in 0..MaxSweeps
      BY <1>1, <2>2 DEF NamesDiffer
    <2> QED BY <2>1, <2>2, <2>3, Zenon DEF JoinTypes
  <1>4. part = "sink" => SinkPart!SinkInit
    BY DEF PartsInit
  <1>5. SinkTypes
    BY <1>4 DEF SinkTypes, SinkPart!SinkInit, SinkPart!NoFile, SingleFiles, RowsDiffer
  <1>6. part = "retention" => RetentionPart!RetentionInit
    BY DEF PartsInit
  <1>7. RetentionTypes
    BY <1>1, <1>6 DEF RetentionTypes, RetentionPart!RetentionInit, RetentionPart!RetentionTypeOK
  <1>8. ASSUME part = "floor" PROVE NoiseFloorPart!FloorTypeOK
    <2>1. NoiseFloorPart!FloorInit
      BY <1>8 DEF PartsInit
    <2>2. NoiseFloorPart!Cardinality({}) = 0
      BY FS_EmptySet, FloorCounts
    <2> QED BY <1>1, <2>1, <2>2 DEF NoiseFloorPart!FloorInit, NoiseFloorPart!FloorTypeOK,
               NoiseFloorPart!NoFloor, NoiseFloorPart!Place
  <1>9. part = "record" => RecordPart!ProvenanceInit
    BY DEF PartsInit
  <1>10. RecordTypes
    BY <1>1, <1>9 DEF RecordTypes, RecordPart!ProvenanceInit, RecordPart!ProvenanceTypeOK,
                      RecordPart!Nobody
  <1> QED BY <1>3, <1>5, <1>7, <1>8, <1>10 DEF FloorTypes

LEMMA DriversStartTyped == PartsInit => SessionTypes /\ NightTypes /\ GateTypes /\ PageTypes
PROOF
  <1> SUFFICES ASSUME PartsInit PROVE SessionTypes /\ NightTypes /\ GateTypes /\ PageTypes
    OBVIOUS
  <1>1. /\ MaxTroubles \in Nat /\ MaxLaunches \in Nat /\ MaxTreeEdits \in Nat /\ MaxPageTimes \in Nat
        /\ Len(ChainSteps) \in Nat
    BY PartBoundsAssumption DEF PartBoundsAssumption
  <1>2. part = "session" => SessionsPart!SessionsInit
    BY DEF PartsInit
  <1>3. SessionTypes
    BY <1>1, <1>2 DEF SessionTypes, SessionsPart!SessionsInit, EnginesAre
  <1>4. ASSUME part = "night"
        PROVE  /\ NightPart!NightTypeOK
               /\ r1 \in 0..r3 /\ r3 <= MaxLaunches /\ r10 \in Seq([step : STRING, rc : {0, 1}])
    <2>1. NightPart!NightInit
      BY <1>4 DEF PartsInit
    <2> QED BY <1>1, <2>1 DEF NightPart!NightInit, NightPart!NightTypeOK, NightPart!NoRun,
                              NightPart!ChainExit
  <1>5. ASSUME part = "gate" PROVE GatePart!GateTypeOK
    <2>1. GatePart!GateInit
      BY <1>5 DEF PartsInit
    <2>2. GatePart!Cardinality({}) = 0
      <3>1. GatePart!Cardinality({}) = Cardinality({})
        BY DEF GatePart!Cardinality, Cardinality
      <3> QED BY <3>1, FS_EmptySet
    <2> QED BY <1>1, <2>1, <2>2 DEF GatePart!GateInit, GatePart!GateTypeOK
  <1>6. part = "page" => PagePart!PageInit
    BY DEF PartsInit
  <1>7. PageTypes
    BY <1>1, <1>6 DEF PageTypes, PagePart!PageInit, OneRowEach
  <1> QED BY <1>3, <1>4, <1>5, <1>7 DEF NightTypes, GateTypes

(* The parts, four by four.                                                   *)
PassesTyped ==
    /\ part = "row" => RowRunnerPart!RunnerTypeOK
    /\ part = "fold" => PassFoldPart!FoldTypeOK
    /\ part = "verdict" => VerdictPart!VerdictTypeOK
    /\ part = "sampler" => SamplerPart!SamplerTypeOK
HostTyped ==
    /\ part = "load" => HostLoadPart!LoadTypeOK
    /\ part = "settle" => SettlePart!SettleTypeOK
    /\ part = "setup" => HostSetupPart!SetupTypeOK
    /\ part = "floor" => NoiseFloorPart!FloorTypeOK
LabelsTyped ==
    /\ part = "join" => JoinPart!JoinTypeOK
    /\ part = "sink" => SinkPart!SinkTypeOK
    /\ part = "retention" => RetentionPart!RetentionTypeOK
    /\ part = "record" => RecordPart!ProvenanceTypeOK
DriversTyped ==
    /\ part = "session" => SessionsPart!SessionsTypeOK
    /\ part = "night" => NightPart!NightTypeOK
    /\ part = "gate" => GatePart!GateTypeOK
    /\ part = "page" => PagePart!PageTypeOK

(* What every part's variables are, for every table and bound: each of its    *)
(* steps keeps the types its module gives them.                               *)
THEOREM PartsTypedCorrect == PartsSpec => []PartsTyped
PROOF
  <1>1. PartsSpec => [](TypeOK /\ FetchTypeOK)
    <2>1. PartsInit => TypeOK /\ FetchTypeOK
      <3>1. PartsInit => Init /\ FetchInit
        BY DEF PartsInit
      <3>2. FetchInit => FetchTypeOK
        <4> SUFFICES ASSUME FetchInit PROVE FetchTypeOK
          OBVIOUS
        <4>1. content \in [DataFiles -> Contents] /\ linkedTo \in [Shards -> 0..root]
          BY DEF FetchInit, Contents
        <4>2. member \in {"none", "part", "whole", "rotten"} /\ root \in 1..MaxRoots
                 /\ todo \subseteq DataFiles
          BY DEF FetchInit, MaxRoots
        <4>3. vouched \in BOOLEAN
          BY Zenon DEF FetchInit
        <4> QED BY <4>1, <4>2, <4>3 DEF FetchTypeOK
      <3> QED BY <3>1, <3>2, TypeInit
    <2>2. [PartsNext]_pvars => [Next]_vars /\ [FetchNext]_fvars
      BY DEF PartsNext, pvars, Halted
    <2> QED BY <2>1, <2>2, TypeStep, FetchTyped, PTL DEF PartsSpec, pvars
  <1>2. PartsSpec => [](part = "row" => RowRunnerPart!RunnerTypeOK)
    <2>1. PartsInit => RowHeld
      BY RowsStart DEF PartsInit, RowHeld
    <2>2. RowTypes => (part = "row" => RowRunnerPart!RunnerTypeOK)
      BY DEF RowTypes
    <2> QED BY PassesStartTyped, <2>1, <2>2, RowStep, RowTyped, PTL DEF PartsSpec, pvars
  <1>3. PartsSpec => [](part = "fold" => PassFoldPart!FoldTypeOK)
    <2>1. FoldTypes => (part = "fold" => PassFoldPart!FoldTypeOK)
      BY DEF FoldTypes
    <2> QED BY PassesStartTyped, <2>1, FoldTyped, PTL DEF PartsSpec, pvars
  <1>4. PartsSpec => [](part = "verdict" => VerdictPart!VerdictTypeOK)
    <2>1. VerdictTypes => (part = "verdict" => VerdictPart!VerdictTypeOK)
      BY DEF VerdictTypes
    <2> QED BY PassesStartTyped, <2>1, VerdictInit, VerdictKept, VerdictTyped, PTL DEF PartsSpec,
        pvars
  <1>5. PartsSpec => [](part = "sampler" => SamplerPart!SamplerTypeOK)
    <2>1. PartsInit => SamplerHeld
      BY SamplerStarts DEF PartsInit, SamplerHeld
    <2>2. SamplerTypes /\ SamplerHeld => (part = "sampler" => SamplerPart!SamplerTypeOK)
      BY SamplerTypeOK DEF SamplerTypes
    <2> QED BY HostStartsTyped, <2>1, <2>2, SamplerStep, SamplerTyped, PTL DEF PartsSpec, pvars
  <1>6. PartsSpec => [](part = "load" => HostLoadPart!LoadTypeOK)
    <2>1. LoadTypes => (part = "load" => HostLoadPart!LoadTypeOK)
      BY DEF LoadTypes
    <2> QED BY HostStartsTyped, <2>1, LoadTyped, PTL DEF PartsSpec, pvars
  <1>7. PartsSpec => [](part = "setup" => HostSetupPart!SetupTypeOK)
    <2>1. SetupHeld => (part = "setup" => HostSetupPart!SetupTypeOK)
      BY DEF SetupHeld, HostSetupPart!SetupInv, HostSetupPart!HostHeld
    <2> QED BY SetupInit, <2>1, SetupKept, PTL DEF PartsSpec, pvars
  <1>8. PartsSpec => [](part = "join" => JoinPart!JoinTypeOK)
    <2>1. JoinTypes /\ JoinHeld => (part = "join" => JoinPart!JoinTypeOK)
      BY JoinTypeOK DEF JoinTypes
    <2> QED BY LabelsStartTyped, <2>1, JoinSafe, JoinTyped, PTL DEF PartsSpec, pvars
  <1>9. PartsSpec => [](part = "sink" => SinkPart!SinkTypeOK)
    <2>1. SinkTypes /\ SinkHeld => (part = "sink" => SinkPart!SinkTypeOK)
      BY SinkTypeOK DEF SinkTypes
    <2> QED BY LabelsStartTyped, <2>1, SinkInit, SinkKept, SinkTyped, PTL DEF PartsSpec, pvars
  <1>10. PartsSpec => [](part = "retention" => RetentionPart!RetentionTypeOK)
    <2>1. RetentionTypes => (part = "retention" => RetentionPart!RetentionTypeOK)
      BY DEF RetentionTypes
    <2> QED BY LabelsStartTyped, <2>1, RetentionTyped, PTL DEF PartsSpec, pvars
  <1>11. PartsSpec => [](part = "floor" => NoiseFloorPart!FloorTypeOK)
    <2>1. PartsInit => FloorHeld
      BY FloorStarts DEF PartsInit, FloorHeld
    <2>2. FloorTypes => (part = "floor" => NoiseFloorPart!FloorTypeOK)
      BY DEF FloorTypes
    <2> QED BY LabelsStartTyped, <2>1, <2>2, FloorKept, FloorTyped, PTL DEF PartsSpec, pvars
  <1>12. PartsSpec => [](part = "session" => SessionsPart!SessionsTypeOK)
    <2>1. PartsInit => SessionHeld
      BY SessionsStart DEF PartsInit, SessionHeld
    <2>2. SessionTypes /\ SessionHeld => (part = "session" => SessionsPart!SessionsTypeOK)
      BY SessionTypeOK DEF SessionTypes
    <2> QED BY DriversStartTyped, <2>1, <2>2, SessionKept, SessionTyped, PTL DEF PartsSpec, pvars
  <1>13. PartsSpec => [](part = "night" => NightPart!NightTypeOK)
    <2>1. NightTypes => (part = "night" => NightPart!NightTypeOK)
      BY DEF NightTypes
    <2> QED BY DriversStartTyped, <2>1, NightSafe, NightTyped, PTL DEF PartsSpec, pvars
  <1>14. PartsSpec => [](part = "settle" => SettlePart!SettleTypeOK)
    <2>1. SettleTypes => (part = "settle" => SettlePart!SettleTypeOK)
      BY DEF SettleTypes
    <2> QED BY HostStartsTyped, <2>1, SettleTyped, PTL DEF PartsSpec, pvars
  <1>15. PartsSpec => [](part = "record" => RecordPart!ProvenanceTypeOK)
    <2>1. RecordTypes => (part = "record" => RecordPart!ProvenanceTypeOK)
      BY DEF RecordTypes
    <2> QED BY LabelsStartTyped, <2>1, RecordSafe, RecordTyped, PTL DEF PartsSpec, pvars
  <1>16. PartsSpec => [](part = "gate" => GatePart!GateTypeOK)
    <2>1. PartsInit => GateHeld
      BY GateStarts DEF PartsInit, GateHeld
    <2>2. GateTypes => (part = "gate" => GatePart!GateTypeOK)
      BY DEF GateTypes
    <2> QED BY DriversStartTyped, <2>1, <2>2, GateKept, GateTyped, PTL DEF PartsSpec, pvars
  <1>17. PartsSpec => [](part = "page" => PagePart!PageTypeOK)
    <2>1. PartsInit => PageHeld
      BY PageStarts DEF PartsInit, PageHeld
    <2>2. PageTypes /\ PageHeld => (part = "page" => PagePart!PageTypeOK)
      BY PageTypeOK DEF PageTypes
    <2> QED BY DriversStartTyped, <2>1, <2>2, PageKept, PageTyped, PTL DEF PartsSpec, pvars
  <1>18. PartsSpec => []PassesTyped
    <2>1. /\ (part = "row" => RowRunnerPart!RunnerTypeOK)
          /\ (part = "fold" => PassFoldPart!FoldTypeOK)
          /\ (part = "verdict" => VerdictPart!VerdictTypeOK)
          /\ (part = "sampler" => SamplerPart!SamplerTypeOK)
          => PassesTyped
      BY DEF PassesTyped
    <2> QED BY <1>2, <1>3, <1>4, <1>5, <2>1, PTL
  <1>19. PartsSpec => []HostTyped
    <2>1. /\ (part = "load" => HostLoadPart!LoadTypeOK)
          /\ (part = "settle" => SettlePart!SettleTypeOK)
          /\ (part = "setup" => HostSetupPart!SetupTypeOK)
          /\ (part = "floor" => NoiseFloorPart!FloorTypeOK)
          => HostTyped
      BY DEF HostTyped
    <2> QED BY <1>6, <1>14, <1>7, <1>11, <2>1, PTL
  <1>20. PartsSpec => []LabelsTyped
    <2>1. /\ (part = "join" => JoinPart!JoinTypeOK)
          /\ (part = "sink" => SinkPart!SinkTypeOK)
          /\ (part = "retention" => RetentionPart!RetentionTypeOK)
          /\ (part = "record" => RecordPart!ProvenanceTypeOK)
          => LabelsTyped
      BY DEF LabelsTyped
    <2> QED BY <1>8, <1>9, <1>10, <1>15, <2>1, PTL
  <1>21. PartsSpec => []DriversTyped
    <2>1. /\ (part = "session" => SessionsPart!SessionsTypeOK)
          /\ (part = "night" => NightPart!NightTypeOK)
          /\ (part = "gate" => GatePart!GateTypeOK)
          /\ (part = "page" => PagePart!PageTypeOK)
          => DriversTyped
      BY DEF DriversTyped
    <2> QED BY <1>12, <1>13, <1>16, <1>17, <2>1, PTL
  <1>22. TypeOK /\ FetchTypeOK /\ PassesTyped /\ HostTyped /\ LabelsTyped /\ DriversTyped
            => PartsTyped
    BY DEF PartsTyped, PassesTyped, HostTyped, LabelsTyped, DriversTyped
  <1> QED BY <1>1, <1>18, <1>19, <1>20, <1>21, <1>22, PTL
===============================================================================
