---------------------------- MODULE ProfileFile ----------------------------
(***************************************************************************)
(* The profile that smash keeps across runs (compressor_thread.h,          *)
(* loadProfileFile and saveProfileFile).  Several processes share one      *)
(* file: each loads it when its compressor starts and, when it stops,      *)
(* merges its own bucket statistics into it under an flock, writes a       *)
(* temporary file and renames it over the profile.  A process may be       *)
(* killed at any point; the kernel then drops its lock and its temporary   *)
(* file stays behind.                                                      *)
(*                                                                         *)
(* A bucket's record keeps its sample count and whether the mean saving is *)
(* under the 5% that marks the bucket always-skip; the other statistics    *)
(* travel with the record and no property tells them apart.  A file is     *)
(* read as of its fopen: nobody writes a file once it carries the          *)
(* profile's name, and a rename leaves the file being read in place.       *)
(***************************************************************************)
EXTENDS Naturals, Sequences, FiniteSets

CONSTANTS Procs,      \* the processes that share the profile
          Workers,    \* the compressor workers of each (kMaxCompressorWorkers)
          Buckets,    \* number of statistics buckets, 1..Buckets
          Window,     \* kWindow, the sample count's ceiling
          HintMin,    \* samples a record needs before it may say always-skip
          LockFails,  \* may the sidecar lock file fail to open
          DiskFull,   \* may the temporary file come out short
          MaxRuns,    \* bound: program runs, over all processes
          None        \* no file

VARIABLES path,     \* the profile: None or a file
          tmp,      \* each process's temporary file
          holder,   \* who holds the flock: a set of at most one process
          pc,       \* where each process is
          stats,    \* its workers' bucket statistics
          hint,     \* persist_hint of each bucket, as loaded
          hot,      \* external_pages_hot_
          skipExt,  \* external_pages_hot_from_profile_
          mine,     \* the records and flags of the save under way
          locked,   \* did this save get a lock file
          best,     \* history: the most samples a finished save brought, and the flag
          runs

vars == <<path, tmp, holder, pc, stats, hint, hot, skipExt, mine, locked, best, runs>>

Bucket == 1 .. Buckets
NoSamples == [count |-> 0, poor |-> FALSE]
Record == [count : 0 .. Window, poor : BOOLEAN]
Fresh == [w \in Workers |-> [b \in Bucket |-> NoSamples]]

\* A file whose header has another magic, version or dimensions is not ours.
File == [ours : BOOLEAN, hot : BOOLEAN, recs : UNION {[1 .. n -> Record] : n \in 0 .. Buckets},
         whole : BOOLEAN]

TypeOK ==
    /\ path \in File \cup {None}
    /\ tmp \in [Procs -> File \cup {None}]
    /\ holder \in SUBSET Procs
    /\ pc \in [Procs -> {"off", "run", "lock", "merge", "write", "rename", "unlock"}]
    /\ stats \in [Procs -> [Workers -> [Bucket -> Record]]]
    /\ hint \in [Procs -> [Bucket -> BOOLEAN]]
    /\ hot \in [Procs -> BOOLEAN] /\ skipExt \in [Procs -> BOOLEAN]
    /\ mine \in [Procs -> [hot : BOOLEAN, recs : [Bucket -> Record]]]
    /\ locked \in [Procs -> BOOLEAN]
    /\ best \in [hot : BOOLEAN, count : [Bucket -> 0 .. Window]]

Foreign == [ours |-> FALSE, hot |-> FALSE, recs |-> <<>>, whole |-> TRUE]
NothingMine == [hot |-> FALSE, recs |-> [b \in Bucket |-> NoSamples]]

Init ==
    /\ path \in {None, Foreign}
    /\ tmp = [p \in Procs |-> None]
    /\ holder = {}
    /\ pc = [p \in Procs |-> "off"]
    /\ stats = [p \in Procs |-> Fresh]
    /\ hint = [p \in Procs |-> [b \in Bucket |-> FALSE]]
    /\ hot = [p \in Procs |-> FALSE]
    /\ skipExt = [p \in Procs |-> FALSE]
    /\ mine = [p \in Procs |-> NothingMine]
    /\ locked = [p \in Procs |-> FALSE]
    /\ best = [hot |-> FALSE, count |-> [b \in Bucket |-> 0]]
    /\ runs = 0

(***************************************************************************)
(* Records                                                                 *)
(***************************************************************************)
\* The decision hint is computed when the record is written, from at least
\* HintMin samples.
AlwaysSkip(r) == r.count >= HintMin /\ r.poor

\* deserialize: half the samples, so that old data fades; with none left the
\* mean is lost too.
Deserialize(r) ==
    LET n == IF r.count > Window THEN Window ELSE r.count \div 2
    IN  [count |-> n, poor |-> r.poor /\ n > 0]

Better(r, s) == r.count > s.count

\* The worker with the most samples speaks for the bucket; the first of
\* several does.
Collected(p) ==
    [b \in Bucket |->
        stats[p][CHOOSE w \in Workers :
            \A v \in Workers : /\ ~Better(stats[p][v][b], stats[p][w][b])
                               /\ (v < w => Better(stats[p][w][b], stats[p][v][b]))][b]]

Readable(f) == f # None /\ f.ours

(***************************************************************************)
(* loadProfileFile, at start(): a short file is used as far as it goes,    *)
(* and every worker gets the record.                                       *)
(***************************************************************************)
Loaded ==
    [b \in Bucket |-> IF Readable(path) /\ b <= Len(path.recs)
                      THEN path.recs[b] ELSE NoSamples]

Start(p) ==
    /\ pc[p] = "off" /\ runs < MaxRuns
    /\ runs' = runs + 1
    /\ pc' = [pc EXCEPT ![p] = "run"]
    /\ stats' = [stats EXCEPT ![p] = [w \in Workers |-> [b \in Bucket |-> Deserialize(Loaded[b])]]]
    /\ hint' = [hint EXCEPT ![p] = [b \in Bucket |-> AlwaysSkip(Loaded[b])]]
    /\ skipExt' = [skipExt EXCEPT ![p] = Readable(path) /\ path.hot]
    /\ hot' = [hot EXCEPT ![p] = FALSE]
    /\ UNCHANGED <<path, tmp, holder, mine, locked, best>>

(***************************************************************************)
(* A run.  Phase 2 leaves a bucket alone whose loaded hint is always-skip, *)
(* and every external page once the profile says they are hot.             *)
(***************************************************************************)
Observe(p, w, b, poor) ==
    /\ pc[p] = "run" /\ ~hint[p][b]
    /\ stats' = [stats EXCEPT ![p][w][b] =
                    [count |-> IF @.count = Window THEN Window ELSE @.count + 1, poor |-> poor]]
    /\ UNCHANGED <<path, tmp, holder, pc, hint, hot, skipExt, mine, locked, best, runs>>

ExternalThrash(p) ==
    /\ pc[p] = "run" /\ ~skipExt[p] /\ ~hot[p]
    /\ hot' = [hot EXCEPT ![p] = TRUE]
    /\ UNCHANGED <<path, tmp, holder, pc, stats, hint, skipExt, mine, locked, best, runs>>

(***************************************************************************)
(* saveProfileFile, at stop().                                             *)
(***************************************************************************)
Collect(p) ==
    /\ pc[p] = "run"
    /\ mine' = [mine EXCEPT ![p] = [hot |-> hot[p], recs |-> Collected(p)]]
    /\ pc' = [pc EXCEPT ![p] = "lock"]
    /\ UNCHANGED <<path, tmp, holder, stats, hint, hot, skipExt, locked, best, runs>>

\* Mutant: the flock is dropped.
LockMutant(p) ==
    /\ pc[p] = "lock"
    /\ locked' = [locked EXCEPT ![p] = FALSE]
    /\ pc' = [pc EXCEPT ![p] = "merge"]
    /\ UNCHANGED <<path, tmp, holder, stats, hint, hot, skipExt, mine, best, runs>>

\* A lock file that cannot be opened is passed over: the save goes on.
Lock(p) ==
    /\ pc[p] = "lock"
    /\ \/ holder = {} /\ holder' = {p} /\ locked' = [locked EXCEPT ![p] = TRUE]
       \/ LockFails /\ locked' = [locked EXCEPT ![p] = FALSE] /\ UNCHANGED holder
    /\ pc' = [pc EXCEPT ![p] = "merge"]
    /\ UNCHANGED <<path, tmp, stats, hint, hot, skipExt, mine, best, runs>>

MergeWith(m, f) ==
    [hot  |-> m.hot \/ f.hot,
     recs |-> [b \in Bucket |-> IF b <= Len(f.recs) /\ Better(f.recs[b], m.recs[b])
                                THEN f.recs[b] ELSE m.recs[b]]]

Merge(p) ==
    /\ pc[p] = "merge"
    /\ mine' = [mine EXCEPT ![p] = IF Readable(path) THEN MergeWith(@, path) ELSE @]
    /\ pc' = [pc EXCEPT ![p] = "write"]
    /\ UNCHANGED <<path, tmp, holder, stats, hint, hot, skipExt, locked, best, runs>>

\* The results of fwrite and fclose are not looked at: on a full disk the
\* file ends after some record.
Write(p) ==
    /\ pc[p] = "write"
    /\ \E n \in IF DiskFull THEN 0 .. Buckets ELSE {Buckets} :
          tmp' = [tmp EXCEPT ![p] = [ours |-> TRUE, hot |-> mine[p].hot,
                                     recs |-> SubSeq(mine[p].recs, 1, n), whole |-> n = Buckets]]
    /\ pc' = [pc EXCEPT ![p] = "rename"]
    /\ UNCHANGED <<path, holder, stats, hint, hot, skipExt, mine, locked, best, runs>>

\* fopen of the temporary file fails: the save gives up.
WriteFails(p) ==
    /\ pc[p] = "write"
    /\ pc' = [pc EXCEPT ![p] = "unlock"]
    /\ UNCHANGED <<path, tmp, holder, stats, hint, hot, skipExt, mine, locked, best, runs>>

Rename(p) ==
    /\ pc[p] = "rename"
    /\ path' = tmp[p]
    /\ tmp' = [tmp EXCEPT ![p] = None]
    /\ best' = [hot   |-> best.hot \/ hot[p],
                count |-> [b \in Bucket |-> IF best.count[b] > Collected(p)[b].count
                                            THEN best.count[b] ELSE Collected(p)[b].count]]
    /\ pc' = [pc EXCEPT ![p] = "unlock"]
    /\ UNCHANGED <<holder, stats, hint, hot, skipExt, mine, locked, runs>>

Gone(p) ==
    /\ pc' = [pc EXCEPT ![p] = "off"]
    /\ holder' = IF locked[p] THEN holder \ {p} ELSE holder
    /\ locked' = [locked EXCEPT ![p] = FALSE]
    /\ stats' = [stats EXCEPT ![p] = Fresh]
    /\ hint' = [hint EXCEPT ![p] = [b \in Bucket |-> FALSE]]
    /\ hot' = [hot EXCEPT ![p] = FALSE]
    /\ skipExt' = [skipExt EXCEPT ![p] = FALSE]
    /\ mine' = [mine EXCEPT ![p] = NothingMine]
    /\ UNCHANGED <<path, tmp, best, runs>>

Unlock(p) == pc[p] = "unlock" /\ Gone(p)

\* SIGKILL, _exit or a power loss of one container: nothing of the save runs.
Crash(p) == pc[p] # "off" /\ Gone(p)

Save(p) == Collect(p) \/ Lock(p) \/ Merge(p) \/ Write(p) \/ WriteFails(p) \/ Rename(p) \/ Unlock(p)

Next ==
    \E p \in Procs :
        \/ Start(p)
        \/ \E w \in Workers, b \in Bucket, poor \in BOOLEAN : Observe(p, w, b, poor)
        \/ ExternalThrash(p)
        \/ Save(p)
        \/ Crash(p)

Spec == Init /\ [][Next]_vars

FairSpec == Spec /\ \A p \in Procs : WF_vars(Save(p))

(***************************************************************************)
(* Properties                                                              *)
(***************************************************************************)
\* "Concurrent subprocess exits now accumulate instead of overwrite, and the
\* empty-heap parent can never wipe real data" (saveProfileFile): whatever
\* processes save, crash or start in between, the profile under its name is
\* complete and no bucket of it rests on fewer samples than some finished
\* save brought for that bucket; nor is the external-hot flag taken back.
SavesAccumulate ==
    /\ Readable(path) => path.whole
    /\ \A b \in Bucket : best.count[b] > 0 => Readable(path) /\ path.recs[b].count >= best.count[b]
    /\ best.hot => Readable(path) /\ path.hot

Saving(p) == pc[p] \notin {"off", "run"}

\* A process that has come to save its profile gets through, however many
\* others save or die meanwhile.
SaveEnds == \A p \in Procs : Saving(p) ~> ~Saving(p)
=============================================================================
