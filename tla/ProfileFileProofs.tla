------------------------- MODULE ProfileFileProofs -------------------------
(***************************************************************************)
(* Proofs about ProfileFile, for any number of processes, workers, buckets *)
(* and runs, with crashes at every step.  The types hold in every case;    *)
(* that saves accumulate needs the flock to be obtained and the temporary  *)
(* file to be written in full, neither of which saveProfileFile looks at.  *)
(***************************************************************************)
EXTENDS ProfileFile, TLAPS, SequenceTheorems, WellFoundedInduction

\* What the code's constants are: workers are numbered, the window is a
\* count, and no file is the absence of one.
Sized ==
    /\ Workers \subseteq Nat /\ Workers # {}
    /\ Buckets \in Nat /\ Window \in Nat
    /\ None \notin File

\* The lock file opens and the disk has room.
Reliable == ~LockFails /\ ~DiskFull

Inside(p) == pc[p] \in {"merge", "write", "rename", "unlock"}

\* The flock is held by the one process between its Lock and its Unlock.
LockInv ==
    /\ \A p \in Procs : p \in holder <=> Inside(p)
    /\ \A p \in Procs : p \in holder <=> locked[p]
    /\ \A p, q \in holder : p = q

\* A save carries at least what the process collected, and once merged at
\* least what the finished saves brought; its temporary file has all of it.
MineOf(p) ==
    /\ pc[p] \in {"lock", "merge", "write", "rename"} =>
         /\ hot[p] => mine[p].hot
         /\ \A b \in Bucket : mine[p].recs[b].count >= Collected(p)[b].count
    /\ pc[p] \in {"write", "rename"} =>
         /\ best.hot => mine[p].hot
         /\ \A b \in Bucket : mine[p].recs[b].count >= best.count[b]
    /\ pc[p] = "rename" =>
         /\ tmp[p] # None /\ tmp[p].ours /\ tmp[p].whole
         /\ tmp[p].hot = mine[p].hot /\ tmp[p].recs = mine[p].recs

MineInv == \A p \in Procs : MineOf(p)

\* A readable profile is complete.
PathInv == Readable(path) => path.whole /\ Len(path.recs) = Buckets

ProfileInv == TypeOK /\ LockInv /\ MineInv /\ PathInv /\ SavesAccumulate

-----------------------------------------------------------------------------
(* What the operators return.                                              *)

\* A set of naturals has a least one.
LEMMA LeastNat ==
  ASSUME NEW T \in SUBSET Nat, T # {}
  PROVE  \E x \in T : \A y \in T : x <= y
<1> DEFINE R == OpToRel(<, Nat)
<1>1. PICK x \in T : \A y \in T : ~ (<<y, x>> \in R)
  BY WFMin, NatLessThanWellFounded, Zenon
<1>2. \A y \in T : ~ (y < x)
  BY <1>1, Zenon DEF OpToRel
<1> QED
  BY <1>2

\* One worker has the most samples for a bucket, and is the first to: the
\* choice of Collected has a value.
LEMMA SpeakerExists ==
  ASSUME Sized, NEW s \in [Workers -> [Bucket -> Record]], NEW b \in Bucket
  PROVE  \E w \in Workers : \A v \in Workers :
           /\ ~Better(s[v][b], s[w][b])
           /\ (v < w => Better(s[w][b], s[v][b]))
<1> DEFINE Count(w) == s[w][b].count
           Room == {n \in Nat : \E w \in Workers : n = Window - Count(w)}
<1>1. \A w \in Workers : Count(w) \in 0 .. Window
  BY DEF Record
<1>2. \A w \in Workers : Window - Count(w) \in Room
  BY <1>1 DEF Sized
<1>3. PICK m \in Workers : \A v \in Workers : Window - Count(m) <= Window - Count(v)
  <2>1. Room # {}
    BY <1>2, Zenon DEF Sized
  <2>2. PICK n \in Room : \A k \in Room : n <= k
    BY <2>1, LeastNat, Zenon
  <2>3. PICK m \in Workers : n = Window - Count(m)
    BY <2>2
  <2>4. \A v \in Workers : Window - Count(m) <= Window - Count(v)
    BY <1>2, <2>2, <2>3
  <2> QED
    BY <2>4
<1>4. \A v \in Workers : Count(v) <= Count(m)
  BY <1>1, <1>3 DEF Sized
<1> DEFINE Most == {w \in Workers : Count(w) = Count(m)}
<1>5. PICK w \in Most : \A v \in Most : w <= v
  BY LeastNat, Zenon DEF Sized
<1>6. ASSUME NEW v \in Workers
      PROVE  ~Better(s[v][b], s[w][b]) /\ (v < w => Better(s[w][b], s[v][b]))
  BY <1>1, <1>4, <1>5, <1>6 DEF Better, Sized
<1> QED
  BY <1>5, <1>6

\* What a process collects are records.
LEMMA CollectedType ==
  ASSUME Sized, TypeOK, NEW p \in Procs
  PROVE  Collected(p) \in [Bucket -> Record]
<1>1. stats[p] \in [Workers -> [Bucket -> Record]]
  BY DEF TypeOK
<1>2. ASSUME NEW b \in Bucket
      PROVE  (CHOOSE w \in Workers :
                \A v \in Workers : /\ ~Better(stats[p][v][b], stats[p][w][b])
                                   /\ (v < w => Better(stats[p][w][b], stats[p][v][b]))) \in Workers
  <2>1. \E w \in Workers : \A v \in Workers :
           /\ ~Better(stats[p][v][b], stats[p][w][b])
           /\ (v < w => Better(stats[p][w][b], stats[p][v][b]))
    BY <1>1, SpeakerExists
  <2> QED
    BY <2>1, Zenon
<1> QED
  BY <1>1, <1>2 DEF Collected

\* Old data fades into a record.
LEMMA DeserializeType ==
  ASSUME Sized, NEW r \in Record
  PROVE  Deserialize(r) \in Record
BY DEF Sized, Record, Deserialize

\* The records of a file are a sequence, no longer than the buckets.
LEMMA FileRecords ==
  ASSUME Sized, NEW f \in File
  PROVE  /\ f.recs \in Seq(Record) /\ Len(f.recs) \in 0 .. Buckets
         /\ \A b \in 1 .. Len(f.recs) : f.recs[b] \in Record
<1>1. PICK n \in 0 .. Buckets : f.recs \in [1 .. n -> Record]
  BY DEF File
<1>2. n \in Nat
  BY DEF Sized
<1> QED
  BY <1>1, <1>2

\* The first n records of a save, as they are written.
LEMMA WrittenRecords ==
  ASSUME Sized, NEW r \in [Bucket -> Record], NEW n \in 0 .. Buckets
  PROVE  /\ SubSeq(r, 1, n) \in [1 .. n -> Record]
         /\ Len(SubSeq(r, 1, n)) = n
         /\ n = Buckets => SubSeq(r, 1, n) = r
<1>1. r \in Seq(Record) /\ Len(r) = Buckets /\ n \in Nat
  BY DEF Sized, Bucket
<1>2. /\ SubSeq(r, 1, n) \in Seq(Record)
      /\ Len(SubSeq(r, 1, n)) = n
  BY <1>1, SubSeqProperties DEF Sized
<1>3. n = Buckets => SubSeq(r, 1, n) = r
  BY <1>1, SubSeqFull
<1>4. ASSUME NEW w \in Seq(Record) PROVE w \in [1 .. Len(w) -> Record]
  OBVIOUS
<1>5. SubSeq(r, 1, n) \in [1 .. Len(SubSeq(r, 1, n)) -> Record]
  BY <1>2, <1>4, Zenon
<1> QED
  BY <1>2, <1>3, <1>5, Zenon

\* What loadProfileFile finds are records.
LEMMA LoadedType ==
  ASSUME Sized, TypeOK
  PROVE  Loaded \in [Bucket -> Record]
<1>1. NoSamples \in Record
  BY DEF NoSamples, Record, Sized
<1>2. ASSUME Readable(path), NEW b \in Bucket, b <= Len(path.recs)
      PROVE  path.recs[b] \in Record
  BY <1>2, FileRecords DEF TypeOK, Readable, Bucket, Sized
<1> QED
  BY <1>1, <1>2 DEF Loaded

\* The merge takes, bucket by bucket, the record with more samples.
LEMMA MergeDominates ==
  ASSUME Sized, NEW m \in [hot : BOOLEAN, recs : [Bucket -> Record]], NEW f \in File
  PROVE  /\ MergeWith(m, f) \in [hot : BOOLEAN, recs : [Bucket -> Record]]
         /\ m.hot \/ f.hot => MergeWith(m, f).hot
         /\ \A b \in Bucket : MergeWith(m, f).recs[b].count >= m.recs[b].count
         /\ \A b \in Bucket : b <= Len(f.recs) =>
              MergeWith(m, f).recs[b].count >= f.recs[b].count
<1> DEFINE Pick(b) == IF b <= Len(f.recs) /\ Better(f.recs[b], m.recs[b])
                      THEN f.recs[b] ELSE m.recs[b]
<1>1. ASSUME NEW b \in Bucket
      PROVE  /\ Pick(b) \in Record /\ Pick(b).count >= m.recs[b].count
             /\ b <= Len(f.recs) => Pick(b).count >= f.recs[b].count
  <2>1. m.recs[b] \in Record /\ m.recs[b].count \in Int
    BY DEF Record
  <2>2. b <= Len(f.recs) => f.recs[b] \in Record /\ f.recs[b].count \in Int
    BY FileRecords, SMT, SMTT(30) DEF Record, Bucket, Sized
  <2> QED
    BY <2>1, <2>2 DEF Better
<1>2. /\ MergeWith(m, f).recs = [b \in Bucket |-> Pick(b)]
      /\ MergeWith(m, f) = [hot |-> m.hot \/ f.hot, recs |-> [b \in Bucket |-> Pick(b)]]
  BY DEF MergeWith
<1>3. MergeWith(m, f).hot = (m.hot \/ f.hot)
  BY DEF MergeWith
<1> HIDE DEF Pick
<1>4. [b \in Bucket |-> Pick(b)] \in [Bucket -> Record]
  BY <1>1
<1>5. (m.hot \/ f.hot) \in BOOLEAN
  BY Zenon
<1> QED
  BY <1>1, <1>2, <1>3, <1>4, <1>5, Zenon

-----------------------------------------------------------------------------
(* Types.                                                                  *)

Points == {"off", "run", "lock", "merge", "write", "rename", "unlock"}
Mine == [hot : BOOLEAN, recs : [Bucket -> Record]]

\* No process has samples or a save at first, nor after it is gone.
LEMMA NothingTyped ==
  ASSUME Sized
  PROVE  /\ Fresh \in [Workers -> [Bucket -> Record]]
         /\ NothingMine \in Mine
         /\ [b \in Bucket |-> FALSE] \in [Bucket -> BOOLEAN]
BY DEF Sized, Fresh, NothingMine, Mine, NoSamples, Record

\* The types hold at first.
LEMMA TypeInit ==
  ASSUME Sized, Init PROVE TypeOK
<1>1. Foreign \in File
  <2>1. << >> \in [1 .. 0 -> Record] /\ 0 \in 0 .. Buckets
    BY DEF Sized
  <2>2. << >> \in UNION {[1 .. n -> Record] : n \in 0 .. Buckets}
    BY <2>1
  <2> QED
    BY <2>2 DEF Foreign, File
<1>2. path \in File \cup {None}
  BY <1>1 DEF Init
<1>3. tmp \in [Procs -> File \cup {None}] /\ holder \in SUBSET Procs
  BY DEF Init
<1>4. pc \in [Procs -> Points]
  BY DEF Init, Points
<1>5. stats \in [Procs -> [Workers -> [Bucket -> Record]]]
  BY NothingTyped DEF Init
<1>6. hint \in [Procs -> [Bucket -> BOOLEAN]] /\ mine \in [Procs -> Mine]
  BY NothingTyped DEF Init
<1>7. /\ hot \in [Procs -> BOOLEAN] /\ skipExt \in [Procs -> BOOLEAN]
      /\ locked \in [Procs -> BOOLEAN]
  BY DEF Init
<1>8. best \in [hot : BOOLEAN, count : [Bucket -> 0 .. Window]]
  BY DEF Init, Sized
<1> QED
  BY <1>2, <1>3, <1>4, <1>5, <1>6, <1>7, <1>8, Zenon DEF TypeOK, Points, Mine

\* The types, at a process that starts and runs.
LEMMA TypeRun ==
  ASSUME Sized, TypeOK, NEW p \in Procs,
         \/ Start(p)
         \/ \E w \in Workers, b \in Bucket, poor \in BOOLEAN : Observe(p, w, b, poor)
         \/ ExternalThrash(p)
  PROVE  TypeOK'
<1>1. CASE Start(p)
  <2>1. stats' \in [Procs -> [Workers -> [Bucket -> Record]]]
    <3>1. \A b \in Bucket : Deserialize(Loaded[b]) \in Record
      BY LoadedType, DeserializeType
    <3>2. [w \in Workers |-> [b \in Bucket |-> Deserialize(Loaded[b])]]
            \in [Workers -> [Bucket -> Record]]
      BY <3>1
    <3>3. stats' = [stats EXCEPT ![p] =
                      [w \in Workers |-> [b \in Bucket |-> Deserialize(Loaded[b])]]]
      BY <1>1 DEF Start
    <3>4. stats \in [Procs -> [Workers -> [Bucket -> Record]]]
      BY DEF TypeOK
    <3> QED
      BY <3>2, <3>3, <3>4, Zenon
  <2>2. hint' \in [Procs -> [Bucket -> BOOLEAN]]
    <3>1. [b \in Bucket |-> AlwaysSkip(Loaded[b])] \in [Bucket -> BOOLEAN]
      BY Zenon DEF AlwaysSkip
    <3> QED
      BY <1>1, <3>1, Zenon DEF Start, TypeOK
  <2>3. skipExt' \in [Procs -> BOOLEAN] /\ hot' \in [Procs -> BOOLEAN]
    BY <1>1, Zenon DEF Start, TypeOK, Readable
  <2>4. pc' \in [Procs -> Points]
    BY <1>1 DEF Start, TypeOK, Points
  <2> QED
    BY <1>1, <2>1, <2>2, <2>3, <2>4, Zenon DEF Start, TypeOK, Points
<1>2. ASSUME NEW w \in Workers, NEW b \in Bucket, NEW poor \in BOOLEAN, Observe(p, w, b, poor)
      PROVE  TypeOK'
  <2> DEFINE old == stats[p][w][b]
             new == [count |-> IF old.count = Window THEN Window ELSE old.count + 1,
                     poor |-> poor]
  <2>1. stats \in [Procs -> [Workers -> [Bucket -> Record]]] /\ old \in Record
    BY DEF TypeOK
  <2>2. new \in Record
    <3>1. old.count \in 0 .. Window
      BY <2>1 DEF Record
    <3> HIDE DEF old
    <3>2. (IF old.count = Window THEN Window ELSE old.count + 1) \in 0 .. Window
      BY <3>1, SMT, SMTT(30) DEF Sized
    <3> QED
      BY <3>2, Zenon DEF Record
  <2>3. stats' = [stats EXCEPT ![p][w][b] = new]
    BY <1>2 DEF Observe
  <2> HIDE DEF new
  <2>4. stats' \in [Procs -> [Workers -> [Bucket -> Record]]]
    BY <2>1, <2>2, <2>3
  <2> QED
    BY <1>2, <2>4, Zenon DEF Observe, TypeOK
<1>3. CASE ExternalThrash(p)
  BY <1>3, Zenon DEF ExternalThrash, TypeOK
<1> QED
  BY <1>1, <1>2, <1>3, Zenon

\* The types, at a save and at the end of a process.
LEMMA TypeSave ==
  ASSUME Sized, TypeOK, NEW p \in Procs, Save(p) \/ Crash(p)
  PROVE  TypeOK'
<1>1. CASE Collect(p)
  <2>1. [hot |-> hot[p], recs |-> Collected(p)] \in Mine
    BY CollectedType DEF TypeOK, Mine
  <2>2. mine' \in [Procs -> Mine]
    BY <1>1, <2>1, Zenon DEF Collect, TypeOK, Mine
  <2>3. pc' \in [Procs -> Points]
    BY <1>1 DEF Collect, TypeOK, Points
  <2> QED
    BY <1>1, <2>2, <2>3, Zenon DEF Collect, TypeOK, Points, Mine
<1>2. CASE Lock(p)
  <2>1. holder' \in SUBSET Procs /\ locked' \in [Procs -> BOOLEAN]
    BY <1>2, Zenon DEF Lock, TypeOK
  <2>2. pc' \in [Procs -> Points]
    BY <1>2 DEF Lock, TypeOK, Points
  <2> QED
    BY <1>2, <2>1, <2>2, Zenon DEF Lock, TypeOK, Points
<1>3. CASE Merge(p)
  <2>1. Readable(path) => MergeWith(mine[p], path) \in Mine
    BY MergeDominates, SMT, SMTT(30) DEF TypeOK, Readable, Mine
  <2>2. mine' \in [Procs -> Mine]
    BY <1>3, <2>1, Zenon DEF Merge, TypeOK, Mine
  <2>3. pc' \in [Procs -> Points]
    BY <1>3 DEF Merge, TypeOK, Points
  <2> QED
    BY <1>3, <2>2, <2>3, Zenon DEF Merge, TypeOK, Points, Mine
<1>4. CASE Write(p)
  <2>1. PICK n \in 0 .. Buckets :
          tmp' = [tmp EXCEPT ![p] = [ours |-> TRUE, hot |-> mine[p].hot,
                    recs |-> SubSeq(mine[p].recs, 1, n), whole |-> n = Buckets]]
    <3>1. (IF DiskFull THEN 0 .. Buckets ELSE {Buckets}) \subseteq 0 .. Buckets
      BY DEF Sized
    <3> QED
      BY <1>4, <3>1, Zenon DEF Write
  <2>2. mine[p].hot \in BOOLEAN /\ mine[p].recs \in [Bucket -> Record]
    BY DEF TypeOK
  <2>3. SubSeq(mine[p].recs, 1, n) \in UNION {[1 .. k -> Record] : k \in 0 .. Buckets}
    BY <2>2, WrittenRecords
  <2>4. [ours |-> TRUE, hot |-> mine[p].hot,
         recs |-> SubSeq(mine[p].recs, 1, n), whole |-> n = Buckets] \in File
    BY <2>2, <2>3, Zenon DEF File
  <2>5. tmp' \in [Procs -> File \cup {None}]
    BY <2>1, <2>4, Zenon DEF TypeOK
  <2>6. pc' \in [Procs -> Points]
    BY <1>4 DEF Write, TypeOK, Points
  <2> QED
    BY <1>4, <2>5, <2>6, Zenon DEF Write, TypeOK, Points
<1>5. CASE WriteFails(p)
  <2>1. pc' \in [Procs -> Points]
    BY <1>5 DEF WriteFails, TypeOK, Points
  <2> QED
    BY <1>5, <2>1, Zenon DEF WriteFails, TypeOK, Points
<1>6. CASE Rename(p)
  <2>1. path' \in File \cup {None} /\ tmp' \in [Procs -> File \cup {None}]
    BY <1>6, Zenon DEF Rename, TypeOK
  <2>2. best' \in [hot : BOOLEAN, count : [Bucket -> 0 .. Window]]
    <3>1. \A b \in Bucket : Collected(p)[b].count \in 0 .. Window
      BY CollectedType DEF Record
    <3>2. [b \in Bucket |-> IF best.count[b] > Collected(p)[b].count
                            THEN best.count[b] ELSE Collected(p)[b].count]
            \in [Bucket -> 0 .. Window]
      BY <3>1, Zenon DEF TypeOK
    <3>3. (best.hot \/ hot[p]) \in BOOLEAN
      BY Zenon
    <3> QED
      BY <1>6, <3>2, <3>3, Zenon DEF Rename
  <2>3. pc' \in [Procs -> Points]
    BY <1>6 DEF Rename, TypeOK, Points
  <2> QED
    BY <1>6, <2>1, <2>2, <2>3, Zenon DEF Rename, TypeOK, Points
<1>7. CASE Unlock(p) \/ Crash(p)
  <2>1. Gone(p)
    BY <1>7, Zenon DEF Unlock, Crash
  <2>2. stats' \in [Procs -> [Workers -> [Bucket -> Record]]] /\ mine' \in [Procs -> Mine]
    BY <2>1, NothingTyped, Zenon DEF Gone, TypeOK, Mine
  <2>3. /\ hint' \in [Procs -> [Bucket -> BOOLEAN]] /\ hot' \in [Procs -> BOOLEAN]
        /\ skipExt' \in [Procs -> BOOLEAN] /\ locked' \in [Procs -> BOOLEAN]
    BY <2>1, NothingTyped, Zenon DEF Gone, TypeOK
  <2>4. holder' \in SUBSET Procs
    BY <2>1, Zenon DEF Gone, TypeOK
  <2>5. pc' \in [Procs -> Points]
    BY <2>1 DEF Gone, TypeOK, Points
  <2> QED
    BY <2>1, <2>2, <2>3, <2>4, <2>5, ZenonT(40) DEF Gone, TypeOK, Points, Mine
<1> QED
  BY <1>1, <1>2, <1>3, <1>4, <1>5, <1>6, <1>7, Zenon DEF Save

\* The types, at every step.
LEMMA TypeStep ==
  ASSUME Sized, TypeOK, Next PROVE TypeOK'
BY TypeRun, TypeSave, Zenon DEF Next

\* The types hold, whatever fails: a loaded record is one, a count stays in
\* its window, and a short file is one the next load can read
\* (loadProfileFile, saveProfileFile).
THEOREM ProfileTyped ==
  ASSUME Sized PROVE Spec => []TypeOK
<1>1. Init => TypeOK
  BY TypeInit
<1>2. TypeOK /\ [Next]_vars => TypeOK'
  <2>1. ASSUME TypeOK, UNCHANGED vars PROVE TypeOK'
    BY <2>1, Zenon DEF TypeOK, vars
  <2> QED
    BY <2>1, TypeStep, Zenon
<1> QED
  BY <1>1, <1>2, PTL DEF Spec

-----------------------------------------------------------------------------
(* Saves accumulate.                                                       *)

\* The flock, at every step.
LEMMA LockStep ==
  ASSUME Reliable, TypeOK, LockInv, Next PROVE LockInv'
<1> SUFFICES ASSUME NEW p \in Procs,
                    \/ Start(p)
                    \/ \E w \in Workers, b \in Bucket, poor \in BOOLEAN : Observe(p, w, b, poor)
                    \/ ExternalThrash(p) \/ Save(p) \/ Crash(p)
             PROVE  LockInv'
  BY Zenon DEF Next
<1>1. CASE \/ Start(p) \/ Collect(p) \/ Merge(p) \/ Write(p) \/ WriteFails(p) \/ Rename(p)
           \/ \E w \in Workers, b \in Bucket, poor \in BOOLEAN : Observe(p, w, b, poor)
           \/ ExternalThrash(p)
  <2>1. holder' = holder /\ locked' = locked
    BY <1>1, ZenonT(40) DEF Start, Collect, Merge, Write, WriteFails, Rename, Observe, ExternalThrash
  <2>2. \/ pc' = pc
        \/ pc[p] \in {"off", "run"} /\ \E x \in {"run", "lock"} : pc' = [pc EXCEPT ![p] = x]
        \/ Inside(p) /\ \E x \in {"write", "rename", "unlock"} : pc' = [pc EXCEPT ![p] = x]
    BY <1>1 DEF Start, Collect, Merge, Write, WriteFails, Rename, Observe, ExternalThrash, Inside
  <2>3. \A q \in Procs : Inside(q)' <=> Inside(q)
    BY <2>2 DEF TypeOK, Inside
  <2> QED
    BY <2>1, <2>3, Zenon DEF LockInv
<1>2. CASE Lock(p)
  BY <1>2 DEF Lock, LockInv, Inside, Reliable, TypeOK
<1>3. CASE Unlock(p) \/ Crash(p)
  <2>1. Gone(p)
    BY <1>3, Zenon DEF Unlock, Crash
  <2> QED
    BY <2>1 DEF Gone, LockInv, Inside, TypeOK
<1> QED
  BY <1>1, <1>2, <1>3, Zenon DEF Save

\* Collected depends on the process's own statistics only.
CollectedOf(s) ==
    [b \in Bucket |->
        s[CHOOSE w \in Workers :
            \A v \in Workers : /\ ~Better(s[v][b], s[w][b])
                               /\ (v < w => Better(s[w][b], s[v][b]))][b]]

LEMMA CollectedStays ==
  ASSUME NEW p \in Procs, stats'[p] = stats[p]
  PROVE  Collected(p)' = Collected(p)
<1>1. Collected(p) = CollectedOf(stats[p]) /\ Collected(p)' = CollectedOf(stats'[p])
  BY ZenonT(40) DEF Collected, CollectedOf
<1> QED
  BY <1>1, Zenon

\* A process that a step leaves alone keeps what its save carries.
LEMMA MineStays ==
  ASSUME NEW q \in Procs, MineOf(q),
         pc'[q] = pc[q], hot'[q] = hot[q], mine'[q] = mine[q], tmp'[q] = tmp[q],
         stats'[q] = stats[q],
         best' = best \/ pc[q] \notin {"write", "rename"}
  PROVE  MineOf(q)'
<1>1. Collected(q)' = Collected(q)
  BY CollectedStays
<1> QED
  BY <1>1 DEF MineOf

\* Steps that leave the file and the ghost of the finished saves alone keep
\* what is said of them.
LEMMA PathStays ==
  ASSUME PathInv, SavesAccumulate, path' = path, best' = best
  PROVE  PathInv' /\ SavesAccumulate'
BY Zenon DEF PathInv, SavesAccumulate, Readable

\* The steps of a process that is not saving, and the end of a save.
LEMMA QuietStep ==
  ASSUME Sized, TypeOK, MineInv, NEW p \in Procs,
         \/ Start(p)
         \/ \E w \in Workers, b \in Bucket, poor \in BOOLEAN : Observe(p, w, b, poor)
         \/ ExternalThrash(p) \/ WriteFails(p) \/ Unlock(p) \/ Crash(p)
  PROVE  MineInv' /\ path' = path /\ best' = best
<1>1. path' = path /\ best' = best
  BY ZenonT(40) DEF Start, Observe, ExternalThrash, WriteFails, Unlock, Crash, Gone
<1>2. pc'[p] \in {"off", "run", "unlock"}
  BY SMT, SMTT(30) DEF Start, Observe, ExternalThrash, WriteFails, Unlock, Crash, Gone, TypeOK
<1>3. ASSUME NEW q \in Procs, q # p
      PROVE  /\ pc'[q] = pc[q] /\ hot'[q] = hot[q] /\ mine'[q] = mine[q]
             /\ tmp'[q] = tmp[q] /\ stats'[q] = stats[q]
  <2>1. \E x : pc' = [pc EXCEPT ![p] = x] \/ pc' = pc
    BY SMT, SMTT(30) DEF Start, Observe, ExternalThrash, WriteFails, Unlock, Crash, Gone
  <2>2. (\E x : hot' = [hot EXCEPT ![p] = x]) \/ hot' = hot
    BY SMT, SMTT(30) DEF Start, Observe, ExternalThrash, WriteFails, Unlock, Crash, Gone
  <2>3. (\E x : mine' = [mine EXCEPT ![p] = x]) \/ mine' = mine
    BY SMT, SMTT(30) DEF Start, Observe, ExternalThrash, WriteFails, Unlock, Crash, Gone
  <2>4. (\E x : stats' = [stats EXCEPT ![p] = x]) \/ stats' = stats
    BY DEF Start, Observe, ExternalThrash, WriteFails, Unlock, Crash, Gone
  <2>5. tmp' = tmp
    BY Zenon DEF Start, Observe, ExternalThrash, WriteFails, Unlock, Crash, Gone
  <2> QED
    BY <1>3, <2>1, <2>2, <2>3, <2>4, <2>5, SMT, SMTT(30) DEF TypeOK
<1>4. ASSUME NEW q \in Procs PROVE MineOf(q)'
  <2>1. CASE q = p
    BY <1>2, <2>1 DEF MineOf
  <2>2. CASE q # p
    BY <1>1, <1>3, <2>2, MineStays, Zenon DEF MineInv
  <2> QED
    BY <2>1, <2>2, SMT, SMTT(30)
<1> QED
  BY <1>1, <1>4, Zenon DEF MineInv

\* The steps of a save up to the written temporary file.
LEMMA SaveStep ==
  ASSUME Sized, Reliable, ProfileInv, NEW p \in Procs,
         Collect(p) \/ Lock(p) \/ Merge(p) \/ Write(p)
  PROVE  MineInv' /\ path' = path /\ best' = best
<1> USE DEF ProfileInv
<1>1. path' = path /\ best' = best
  BY Zenon DEF Collect, Lock, Merge, Write
<1>2. stats' = stats /\ hot' = hot
  BY Zenon DEF Collect, Lock, Merge, Write
<1>3. Collected(p)' = Collected(p) /\ Collected(p) \in [Bucket -> Record]
  BY <1>2, CollectedStays, CollectedType, SMT, SMTT(30)
<1>4. ASSUME NEW q \in Procs, q # p
      PROVE  pc'[q] = pc[q] /\ mine'[q] = mine[q] /\ tmp'[q] = tmp[q]
  BY <1>4 DEF Collect, Lock, Merge, Write, TypeOK
<1>5. MineOf(p)
  BY Zenon DEF MineInv
<1>6. MineOf(p)'
  <2>1. CASE Collect(p)
    <3>1. pc'[p] = "lock" /\ mine'[p].hot = hot[p] /\ mine'[p].recs = Collected(p)
      BY <2>1 DEF Collect, TypeOK
    <3>2. \A b \in Bucket : Collected(p)[b].count >= Collected(p)[b].count
      BY <1>3, SMT, SMTT(30) DEF Record, Sized
    <3> QED
      BY <1>2, <1>3, <3>1, <3>2, SMT, SMTT(30) DEF MineOf
  <2>2. CASE Lock(p)
    <3>1. pc[p] = "lock" /\ pc'[p] = "merge" /\ mine' = mine
      BY <2>2 DEF Lock, TypeOK
    <3> QED
      BY <1>2, <1>3, <1>5, <3>1, SMT, SMTT(30) DEF MineOf
  <2>3. CASE Merge(p)
    <3>1. pc[p] = "merge" /\ pc'[p] = "write"
          /\ mine'[p] = IF Readable(path) THEN MergeWith(mine[p], path) ELSE mine[p]
      BY <2>3, SMT, SMTT(30) DEF Merge, TypeOK
    <3>2. mine[p] \in [hot : BOOLEAN, recs : [Bucket -> Record]]
      BY SMT, SMTT(30) DEF TypeOK
    <3>3. /\ hot[p] => mine[p].hot
          /\ \A b \in Bucket : mine[p].recs[b].count >= Collected(p)[b].count
      BY <1>5, <3>1, SMT, SMTT(30) DEF MineOf
    <3>4. best.hot \in BOOLEAN /\ \A b \in Bucket : best.count[b] \in Nat
      BY SMT, SMTT(30) DEF TypeOK, Sized
    <3>5. CASE Readable(path)
      <4>1. path \in File /\ Len(path.recs) = Buckets
        BY <3>5, SMT, SMTT(30) DEF TypeOK, Readable, PathInv
      <4>2. \A b \in Bucket : b <= Len(path.recs) /\ path.recs[b] \in Record
        BY <4>1, FileRecords, SMT, SMTT(30) DEF Bucket, Sized
      <4>3. /\ mine'[p] \in [hot : BOOLEAN, recs : [Bucket -> Record]]
            /\ mine[p].hot \/ path.hot => mine'[p].hot
            /\ \A b \in Bucket : mine'[p].recs[b].count >= mine[p].recs[b].count
            /\ \A b \in Bucket : mine'[p].recs[b].count >= path.recs[b].count
        BY <3>1, <3>2, <3>5, <4>1, <4>2, MergeDominates, SMT, SMTT(30)
      <4>4. \A b \in Bucket : best.count[b] = 0 \/ path.recs[b].count >= best.count[b]
        BY <3>4, SMT, SMTT(30) DEF SavesAccumulate
      <4>5. \A b \in Bucket : mine'[p].recs[b].count >= Collected(p)[b].count
        BY <1>3, <3>2, <3>3, <4>3, SMT, SMTT(30) DEF Record, Sized
      <4>6. \A b \in Bucket : mine'[p].recs[b].count >= best.count[b]
        BY <3>4, <4>2, <4>3, <4>4, SMT, SMTT(30) DEF Record, Sized
      <4>7. (hot[p] => mine'[p].hot) /\ (best.hot => mine'[p].hot)
        BY <3>3, <4>3, SMT, SMTT(30) DEF SavesAccumulate
      <4> QED
        BY <1>1, <1>2, <1>3, <3>1, <4>5, <4>6, <4>7, SMT, SMTT(30) DEF MineOf
    <3>6. CASE ~Readable(path)
      <4>1. ~best.hot /\ \A b \in Bucket : best.count[b] = 0
        BY <3>4, <3>6, SMT, SMTT(30) DEF SavesAccumulate
      <4>2. \A b \in Bucket : mine[p].recs[b].count >= best.count[b]
        BY <3>2, <4>1, SMT, SMTT(30) DEF Record, Sized
      <4> QED
        BY <1>1, <1>2, <1>3, <3>1, <3>3, <3>6, <4>1, <4>2, SMT, SMTT(30) DEF MineOf
    <3> QED
      BY <3>5, <3>6, SMT, SMTT(30)
  <2>4. CASE Write(p)
    <3> DEFINE new == [ours |-> TRUE, hot |-> mine[p].hot,
                       recs |-> SubSeq(mine[p].recs, 1, Buckets), whole |-> Buckets = Buckets]
    <3>1. pc[p] = "write" /\ pc'[p] = "rename" /\ mine' = mine
      BY <2>4, Zenon DEF Write, TypeOK
    <3>2. tmp'[p] = new
      <4>1. (IF DiskFull THEN 0 .. Buckets ELSE {Buckets}) = {Buckets}
        BY Zenon DEF Reliable
      <4>2. tmp' = [tmp EXCEPT ![p] = new]
        BY <2>4, <4>1, Zenon DEF Write
      <4>3. tmp \in [Procs -> File \cup {None}]
        BY Zenon DEF TypeOK
      <4> HIDE DEF new
      <4> QED
        BY <4>2, <4>3, Zenon
    <3>3. mine[p].hot \in BOOLEAN /\ mine[p].recs \in [Bucket -> Record]
      BY DEF TypeOK
    <3>4. Buckets \in 0 .. Buckets
      BY DEF Sized
    <3>5. SubSeq(mine[p].recs, 1, Buckets) = mine[p].recs
      BY <3>3, <3>4, WrittenRecords, Zenon
    <3>6. mine[p].recs \in UNION {[1 .. k -> Record] : k \in 0 .. Buckets}
      BY <3>3, <3>4, Zenon DEF Bucket
    <3>7. new \in File
      BY <3>3, <3>5, <3>6, Zenon DEF File
    <3>8. new # None /\ new.ours /\ new.whole /\ new.hot = mine[p].hot /\ new.recs = mine[p].recs
      BY <3>5, <3>7, Zenon DEF Sized
    <3>9. /\ tmp'[p] # None /\ tmp'[p].ours /\ tmp'[p].whole
          /\ tmp'[p].hot = mine[p].hot /\ tmp'[p].recs = mine[p].recs
      BY <3>2, <3>8, Zenon
    <3> HIDE DEF new
    <3> QED
      BY <1>1, <1>2, <1>3, <1>5, <3>1, <3>9, SMT, SMTT(30) DEF MineOf
  <2> QED
    BY <2>1, <2>2, <2>3, <2>4, SMT, SMTT(30)
<1>7. ASSUME NEW q \in Procs PROVE MineOf(q)'
  <2>1. CASE q = p
    BY <1>6, <2>1
  <2>2. CASE q # p
    BY <1>1, <1>2, <1>4, <2>2, MineStays, Zenon DEF MineInv
  <2> QED
    BY <2>1, <2>2, SMT, SMTT(30)
<1> QED
  BY <1>1, <1>7, Zenon DEF MineInv

\* The rename publishes what the save carries, and that is at least what it
\* and every finished save brought.
LEMMA RenameStep ==
  ASSUME Sized, ProfileInv, NEW p \in Procs, Rename(p)
  PROVE  MineInv' /\ PathInv' /\ SavesAccumulate'
<1> USE DEF ProfileInv
<1>1. /\ pc[p] = "rename" /\ path' = tmp[p]
      /\ best'.hot = (best.hot \/ hot[p])
      /\ \A b \in Bucket : best'.count[b] = IF best.count[b] > Collected(p)[b].count
                                            THEN best.count[b] ELSE Collected(p)[b].count
  BY DEF Rename
<1>2. MineOf(p) /\ Inside(p)
  BY <1>1, Zenon DEF MineInv, Inside
<1>3. /\ path' # None /\ path'.ours /\ path'.whole
      /\ path'.hot = mine[p].hot /\ path'.recs = mine[p].recs
  BY <1>1, <1>2, Zenon DEF MineOf
<1>4. /\ (hot[p] => mine[p].hot) /\ (best.hot => mine[p].hot)
      /\ \A b \in Bucket : mine[p].recs[b].count >= Collected(p)[b].count
      /\ \A b \in Bucket : mine[p].recs[b].count >= best.count[b]
  BY <1>1, <1>2, Zenon DEF MineOf
<1>5. ASSUME NEW q \in Procs PROVE MineOf(q)'
  <2>1. CASE q = p
    <3>1. pc'[p] = "unlock"
      BY DEF Rename, TypeOK
    <3> QED
      BY <2>1, <3>1, SMT, SMTT(30) DEF MineOf
  <2>2. CASE q # p
    <3>1. pc'[q] = pc[q] /\ tmp'[q] = tmp[q]
      BY <2>2 DEF Rename, TypeOK
    <3>2. hot' = hot /\ mine' = mine /\ stats' = stats
      BY Zenon DEF Rename
    <3>3. ~Inside(q)
      BY <1>2, <2>2, Zenon DEF LockInv
    <3>4. pc[q] \notin {"write", "rename"}
      BY <3>3, Zenon DEF Inside
    <3> QED
      BY <3>1, <3>2, <3>4, MineStays, ZenonT(40) DEF MineInv
  <2> QED
    BY <2>1, <2>2, SMT, SMTT(30)
<1>6. mine[p].recs \in [Bucket -> Record]
  BY SMT, SMTT(30) DEF TypeOK
<1>7. Len(mine[p].recs) = Buckets
  BY <1>6 DEF Bucket, Sized
<1>8. PathInv'
  BY <1>3, <1>7, Zenon DEF PathInv
<1>9. \A b \in Bucket : mine[p].recs[b].count >= best'.count[b]
  BY <1>1, <1>4, Zenon
<1>10. best'.hot => mine[p].hot
  BY <1>1, <1>4, Zenon
<1>11. SavesAccumulate'
  BY <1>3, <1>9, <1>10, ZenonT(40) DEF SavesAccumulate, Readable
<1> QED
  BY <1>5, <1>8, <1>11, ZenonT(40) DEF MineInv

\* At the start nobody saves and the file, if there is one, is another's.
LEMMA ProfileInit ==
  ASSUME Sized, Init
  PROVE  LockInv /\ MineInv /\ PathInv /\ SavesAccumulate
<1>1. \A p \in Procs : pc[p] = "off" /\ ~locked[p]
  BY DEF Init
<1>2. holder = {} /\ ~best.hot /\ \A b \in Bucket : best.count[b] = 0
  BY DEF Init
<1>3. ~Readable(path)
  BY DEF Init, Readable, Foreign
<1>4. LockInv
  BY <1>1, <1>2, SMT, SMTT(30) DEF LockInv, Inside
<1>5. MineInv
  BY <1>1 DEF MineInv, MineOf
<1> QED
  BY <1>2, <1>3, <1>4, <1>5, SMT, SMTT(30) DEF PathInv, SavesAccumulate

\* "Concurrent subprocess exits now accumulate instead of overwrite"
\* (saveProfileFile): for any processes, workers, buckets and window, with a
\* crash possible at every step of a save, the profile under its name is
\* complete and never rests on fewer samples than some finished save brought,
\* as long as the lock file opens and the disk has room.
THEOREM SavesKept == ASSUME Sized, Reliable PROVE Spec => []SavesAccumulate
<1>1. Init => ProfileInv
  BY ProfileInit, TypeInit, Zenon DEF ProfileInv
<1>2. ProfileInv /\ [Next]_vars => ProfileInv'
  <2> SUFFICES ASSUME ProfileInv, [Next]_vars PROVE ProfileInv'
    BY Zenon
  <2>1. CASE Next
    <3>1. TypeOK' /\ LockInv'
      BY <2>1, TypeStep, LockStep, Zenon DEF ProfileInv
    <3>2. PICK p \in Procs :
             \/ Start(p)
             \/ \E w \in Workers, b \in Bucket, poor \in BOOLEAN : Observe(p, w, b, poor)
             \/ ExternalThrash(p) \/ Save(p) \/ Crash(p)
      BY <2>1, Zenon DEF Next
    <3>3. CASE \/ Start(p)
               \/ \E w \in Workers, b \in Bucket, poor \in BOOLEAN : Observe(p, w, b, poor)
               \/ ExternalThrash(p) \/ WriteFails(p) \/ Unlock(p) \/ Crash(p)
      BY <3>1, <3>3, QuietStep, PathStays, Zenon DEF ProfileInv
    <3>4. CASE Collect(p) \/ Lock(p) \/ Merge(p) \/ Write(p)
      BY <3>1, <3>4, SaveStep, PathStays, Zenon DEF ProfileInv
    <3>5. CASE Rename(p)
      BY <3>1, <3>5, RenameStep, Zenon DEF ProfileInv
    <3> QED
      BY <3>2, <3>3, <3>4, <3>5, Zenon DEF Save
  <2>2. CASE UNCHANGED vars
    <3>1. path' = path /\ best' = best
      BY <2>2, Zenon DEF vars
    <3>2. TypeOK' /\ LockInv'
      BY <2>2, Zenon DEF vars, ProfileInv, TypeOK, LockInv, Inside
    <3>3. MineInv'
      <4>1. stats' = stats /\ pc' = pc /\ hot' = hot /\ mine' = mine /\ tmp' = tmp
        BY <2>2, Zenon DEF vars
      <4> QED
        BY <3>1, <4>1, MineStays, Zenon DEF ProfileInv, MineInv
    <3> QED
      BY <3>1, <3>2, <3>3, PathStays, Zenon DEF ProfileInv
  <2> QED
    BY <2>1, <2>2, Zenon
<1>3. ProfileInv => SavesAccumulate
  BY Zenon DEF ProfileInv
<1> QED
  BY <1>1, <1>2, <1>3, PTL DEF Spec

=============================================================================
