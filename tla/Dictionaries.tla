---------------------------- MODULE Dictionaries ----------------------------
(***************************************************************************)
(* The zstd dictionaries (compress_engine.h; collectDictSample and         *)
(* trainDictionaries in compressor_thread.h).  In phase 2 the workers, in  *)
(* parallel, copy samples of the pages they compress into the sample       *)
(* buffer of the page's size class; after the workers have been joined the *)
(* coordinator trains a dictionary for each class whose buffer is full.  A *)
(* blob compressed with a dictionary records only that it was: the         *)
(* dictionary is found again from the size class that the page map gives   *)
(* for the page when the blob is read, while spans come and go without     *)
(* the page's lock.                                                        *)
(***************************************************************************)
EXTENDS Naturals, FiniteSets

CONSTANTS Workers, Pages,
          Classes,      \* slab size classes with a dictionary slot; contains 0
          Target,       \* getDictTrainSamples()
          MaxDicts,     \* kMaxDictClasses
          CountMod,     \* num_samples wraps at this value (2^16)
          MaxTicks, MaxSpans,   \* bounds: ticks; spans the heap makes
          None          \* no page, no dictionary, no blob, no span

\* Span::size_class of a large block is kNumClasses, above every slab class.
\* The page map knows a large block by its first page only (Large); its other
\* pages, and external pages, have no entry (Inner).
Large == 99
Inner == 98
Plain == [sc |-> 0, id |-> "plain"]

VARIABLES dict,      \* CompressEngine::dicts_: which dictionary, per class
          num,       \* dict_train_[c].num_samples
          filled,    \* sample slots whose copy is complete
          trained,   \* dict_train_[c].trained
          span,      \* the page map: each page's size class, Large, Inner or None
          need,      \* has the application stored to the page since its span was made
          blob,      \* compressed_[page]: the dictionary it needs, or Plain, or None
          lock,      \* page locks
          job,       \* each worker's page, class and sample slot
          phase, ticks, spans,
          lost       \* was stored data ever restored from an unreadable blob

vars == <<dict, num, filled, trained, span, need, blob, lock, job, phase, ticks, spans, lost>>

Idle == [at |-> "idle", page |-> None, sc |-> None, slot |-> None, dict |-> FALSE]

TypeOK ==
    /\ dict \in [Classes -> {None, "warm", "trained"}]
    /\ num \in [Classes -> 0 .. CountMod - 1]
    /\ filled \in [Classes -> SUBSET Nat]
    /\ trained \in [Classes -> BOOLEAN]
    /\ span \in [Pages -> Classes \cup {Large, Inner, None}]
    /\ need \in [Pages -> BOOLEAN]
    /\ blob \in [Pages -> {None, Plain} \cup [sc : Classes, id : {"warm", "trained"}]]
    /\ lock \in [Pages -> BOOLEAN]
    /\ \A w \in Workers : job[w].at \in {"idle", "sample", "copy", "compress"}
    /\ phase \in {"phase2", "train"}
    /\ lost \in BOOLEAN

\* A profile may bring dictionaries: loadProfileFile installs each and marks
\* its class trained.
Init ==
    /\ \E W \in SUBSET Classes :
          /\ dict = [c \in Classes |-> IF c \in W THEN "warm" ELSE None]
          /\ trained = [c \in Classes |-> c \in W]
    /\ num = [c \in Classes |-> 0]
    /\ filled = [c \in Classes |-> {}]
    /\ span = [p \in Pages |-> None]
    /\ need = [p \in Pages |-> FALSE]
    /\ blob = [p \in Pages |-> None]
    /\ lock = [p \in Pages |-> FALSE]
    /\ job = [w \in Workers |-> Idle]
    /\ phase = "phase2" /\ ticks = 0 /\ spans = 0 /\ lost = FALSE

(***************************************************************************)
(* The engine                                                              *)
(***************************************************************************)
HasDictionary(sc) == sc \in Classes /\ dict[sc] # None

TrainedDictCount == Cardinality({c \in Classes : HasDictionary(c)})

\* A page outside every span counts as class 0, for reading and writing alike.
LookupSizeClass(p) == IF span[p] \in {None, Inner} THEN 0 ELSE span[p]

\* decompressWithDCtx: a dictionary blob needs the class's dictionary, and
\* without one falls back to plain zstd, which fails on such a frame.
CanRead(p, sc) == blob[p] = Plain \/ (HasDictionary(sc) /\ blob[p] = [sc |-> sc, id |-> dict[sc]])

Compressed(sc, useDict) == IF useDict /\ HasDictionary(sc) THEN [sc |-> sc, id |-> dict[sc]] ELSE Plain

(***************************************************************************)
(* Workers, phase 2                                                        *)
(***************************************************************************)
\* compressPage up to the snapshot: the class is looked up under the page
\* lock, and the deep tier takes the dictionary when there is one.
Begin(w, p, deep) ==
    /\ phase = "phase2" /\ job[w].at = "idle"
    /\ ~lock[p] /\ blob[p] = None
    /\ lock' = [lock EXCEPT ![p] = TRUE]
    /\ LET sc == LookupSizeClass(p)
       IN  job' = [job EXCEPT ![w] = [at |-> "sample", page |-> p, sc |-> sc, slot |-> None,
                                      dict |-> deep /\ HasDictionary(sc)]]
    /\ UNCHANGED <<dict, num, filled, trained, span, need, blob, phase, ticks, spans, lost>>

\* The early returns of collectDictSample; a zero page is not sampled at all.
WantsSample(sc) ==
    /\ sc \in Classes /\ ~trained[sc]
    /\ ~HasDictionary(sc)
    /\ TrainedDictCount < MaxDicts

SkipSample(w) ==
    /\ job[w].at = "sample"
    /\ job' = [job EXCEPT ![w].at = "compress"]
    /\ trained' = IF HasDictionary(job[w].sc) THEN [trained EXCEPT ![job[w].sc] = TRUE] ELSE trained
    /\ UNCHANGED <<dict, num, filled, span, need, blob, lock, phase, ticks, spans, lost>>

\* The sample buffers cannot be allocated: no retries.
NoBuffer(w) ==
    /\ job[w].at = "sample" /\ WantsSample(job[w].sc) /\ num[job[w].sc] = 0
    /\ trained' = [trained EXCEPT ![job[w].sc] = TRUE]
    /\ job' = [job EXCEPT ![w].at = "compress"]
    /\ UNCHANGED <<dict, num, filled, span, need, blob, lock, phase, ticks, spans, lost>>

Claim(w) ==
    LET sc == job[w].sc
    IN  /\ job[w].at = "sample" /\ WantsSample(sc)
        /\ num' = [num EXCEPT ![sc] = (@ + 1) % CountMod]
        /\ job' = [job EXCEPT ![w] = IF num[sc] < Target
                                     THEN [@ EXCEPT !.at = "copy", !.slot = num[sc]]
                                     ELSE [@ EXCEPT !.at = "compress"]]
        /\ UNCHANGED <<dict, filled, trained, span, need, blob, lock, phase, ticks, spans, lost>>

Copy(w) ==
    /\ job[w].at = "copy"
    /\ filled' = [filled EXCEPT ![job[w].sc] = @ \cup {job[w].slot}]
    /\ job' = [job EXCEPT ![w].at = "compress"]
    /\ UNCHANGED <<dict, num, trained, span, need, blob, lock, phase, ticks, spans, lost>>

\* The blob is stored, or the ratio gate leaves the page uncompressed.
Finish(w) ==
    /\ job[w].at = "compress"
    /\ \/ blob' = [blob EXCEPT ![job[w].page] = Compressed(job[w].sc, job[w].dict)]
       \/ UNCHANGED blob
    /\ lock' = [lock EXCEPT ![job[w].page] = FALSE]
    /\ job' = [job EXCEPT ![w] = Idle]
    /\ UNCHANGED <<dict, num, filled, trained, span, need, phase, ticks, spans, lost>>

\* recompressPage: the deep upgrade of a page found very cold.
Upgrade(w, p) ==
    LET sc == LookupSizeClass(p)
    IN  /\ phase = "phase2" /\ job[w].at = "idle"
        /\ ~lock[p] /\ blob[p] # None /\ CanRead(p, sc)
        /\ blob' = [blob EXCEPT ![p] = Compressed(sc, HasDictionary(sc))]
        /\ UNCHANGED <<dict, num, filled, trained, span, need, lock, job, phase, ticks, spans, lost>>

(***************************************************************************)
(* The tick: the workers are joined, then the coordinator trains.          *)
(***************************************************************************)
\* Mutant: the coordinator does not wait for the workers.
JoinMutant ==
    /\ phase = "phase2" /\ ticks < MaxTicks
    /\ phase' = "train" /\ ticks' = ticks + 1
    /\ UNCHANGED <<dict, num, filled, trained, span, need, blob, lock, job, spans, lost>>

Join ==
    /\ phase = "phase2" /\ ticks < MaxTicks
    /\ \A w \in Workers : job[w].at = "idle"
    /\ phase' = "train" /\ ticks' = ticks + 1
    /\ UNCHANGED <<dict, num, filled, trained, span, need, blob, lock, job, spans, lost>>

Trainable(c) == ~trained[c] /\ num[c] >= Target /\ TrainedDictCount < MaxDicts

\* Training may fail; the class is marked trained all the same.
Train(c) ==
    /\ phase = "train" /\ Trainable(c)
    /\ \/ dict' = [dict EXCEPT ![c] = "trained"]
       \/ UNCHANGED dict
    /\ trained' = [trained EXCEPT ![c] = TRUE]
    /\ UNCHANGED <<num, filled, span, need, blob, lock, job, phase, ticks, spans, lost>>

EndTick ==
    /\ phase = "train" /\ \A c \in Classes : ~Trainable(c)
    /\ phase' = "phase2"
    /\ UNCHANGED <<dict, num, filled, trained, span, need, blob, lock, job, ticks, spans, lost>>

(***************************************************************************)
(* The heap.  Spans change in the page map without any page lock.  A slab  *)
(* span gets pages whose blobs were dropped when they were released; the   *)
(* large-block cache hands a block out again as it is.                     *)
(***************************************************************************)
MakeSpan(p, sc) ==
    /\ spans < MaxSpans /\ span[p] = None
    /\ sc \in Classes => blob[p] = None /\ ~lock[p]
    /\ span' = [span EXCEPT ![p] = sc]
    /\ spans' = spans + 1
    /\ UNCHANGED <<dict, num, filled, trained, need, blob, lock, job, phase, ticks, lost>>

RetireSpan(p) ==
    /\ span[p] # None
    /\ span' = [span EXCEPT ![p] = None]
    /\ need' = [need EXCEPT ![p] = FALSE]
    /\ UNCHANGED <<dict, num, filled, trained, blob, lock, job, phase, ticks, spans, lost>>

\* releasePages and its drain: the blob of a page without a span goes.
ReleasePage(p) ==
    /\ span[p] = None /\ blob[p] # None /\ ~lock[p]
    /\ blob' = [blob EXCEPT ![p] = None]
    /\ UNCHANGED <<dict, num, filled, trained, span, need, lock, job, phase, ticks, spans, lost>>

\* The application stores to a page of a live span: a fault restores the
\* page first, whatever decompression returned.
Store(p) ==
    /\ span[p] # None /\ ~lock[p]
    /\ blob[p] # None \/ ~need[p]
    /\ lost' = (lost \/ (need[p] /\ blob[p] # None /\ ~CanRead(p, LookupSizeClass(p))))
    /\ blob' = [blob EXCEPT ![p] = None]
    /\ need' = [need EXCEPT ![p] = TRUE]
    /\ UNCHANGED <<dict, num, filled, trained, span, lock, job, phase, ticks, spans>>

Next ==
    \/ \E w \in Workers :
          \/ \E p \in Pages : \E deep \in BOOLEAN : Begin(w, p, deep)
          \/ \E p \in Pages : Upgrade(w, p)
          \/ SkipSample(w) \/ NoBuffer(w) \/ Claim(w) \/ Copy(w) \/ Finish(w)
    \/ Join \/ (\E c \in Classes : Train(c)) \/ EndTick
    \/ \E p \in Pages :
          \/ \E sc \in Classes \cup {Large, Inner} : MakeSpan(p, sc)
          \/ RetireSpan(p) \/ ReleasePage(p) \/ Store(p)

Spec == Init /\ [][Next]_vars

(***************************************************************************)
(* Properties                                                              *)
(***************************************************************************)
\* Dictionaries never cost the application its data: a page it has stored to
\* is only ever restored from a blob that the dictionary found for it now can
\* read, although span and dictionary are looked up anew; no sample is copied
\* past its buffer (the slot bound of collectDictSample); and a dictionary is
\* trained from complete samples only (trainDictionaries after the join).
DictionariesSound ==
    /\ ~lost
    /\ \A w \in Workers : job[w].at = "copy" => job[w].slot < Target
    /\ phase = "train" => \A c \in Classes : Trainable(c) => 0 .. Target - 1 \subseteq filled[c]
=============================================================================
