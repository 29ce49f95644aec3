------------------------------ MODULE VmRegion ------------------------------
(***************************************************************************)
(* The contiguous arena: who owns which page.  allocatePages takes a run   *)
(* from the caller's shard of the free lists, else from another shard that *)
(* is not contended, else bumps next_page_ and commits up to it.           *)
(* releasePages queues the run; the decommit thread opens it, gives its    *)
(* memory back and only then puts it on a free list.                       *)
(*                                                                         *)
(* The thread that releases a run is the name of its shard.  The           *)
(* descriptors of runs and queue entries are recycled through stacks that  *)
(* only their lock's holder touches, and are left out.                     *)
(***************************************************************************)
EXTENDS Integers, Sequences, FiniteSets, SequencesExt

CONSTANTS
  Threads,
  Contig,       \* contig_pages_
  Sizes,        \* the page counts that are asked for
  Chunk,        \* commitChunkPages(), 0 by default
  CreateFails,  \* pthread_create may fail
  CommitFails,  \* mprotect may refuse to open a page (the limit on mappings)
  MayFork,
  MaxAllocs,    \* bound: calls of allocatePages
  None

VARIABLES
  next,         \* next_page_
  committed,    \* committed_pages_
  committer,    \* commit_lock_: the holder, or None
  free,         \* shards_: per shard its free_list
  queue,        \* decommit_head_
  running,      \* decommit_running_
  drainer,      \* the decommit thread: "none", "loop", "open", "drop", "push"
  batch,        \* the entries it took from the queue
  pc, n, start, \* per thread: where it is, the pages it asks for, its run
  left,         \* per thread: the other shards it has yet to try
  page,         \* per page: what an access finds
  owned,        \* the runs handed out
  lost,         \* the pages that fork left to threads that are gone
  refused,      \* history: closed pages that a commitPages failed to open
  allocs        \* calls of allocatePages so far

arena == <<next, committed, committer, free>>
drain == <<queue, running, drainer, batch>>
app == <<pc, n, start, left>>
vars == <<arena, drain, app, page, owned, lost, refused, allocs>>

Pages == 0..Contig - 1
Run(first, count) == [first |-> first, count |-> count]
PagesOf(r) == r.first..r.first + r.count - 1
PagesOfAll(runs) == UNION {PagesOf(r) : r \in runs}

\* "shut": closed, no memory behind it, as the reservation makes it; "zero":
\* open, no memory behind it; "data": written; "closed": compressed.
PageKinds == {"shut", "zero", "data", "closed"}
IsClosed(p) == page[p] \in {"shut", "closed"}

Runs == [first : Pages, count : 1..Contig]
Entries == [first : Pages, count : 1..Contig, shard : Threads]
Highest == Contig + Cardinality(Threads) * Contig

TypeOK ==
  /\ next \in 0..Highest /\ committed \in 0..Contig
  /\ committer \in Threads \cup {None}
  /\ \A t \in Threads : \A i \in DOMAIN free[t] : free[t][i] \in Runs
  /\ \A s \in {queue, batch} : \A i \in DOMAIN s : s[i] \in Entries
  /\ running \in BOOLEAN
  /\ drainer \in {"none", "loop", "open", "drop", "push"}
  /\ pc \in [Threads -> {"idle", "own", "others", "bump", "undo", "commit",
                         "mprotect", "create", "inline", "enqueue", "gone"}]
  /\ n \in [Threads -> 0..Contig] /\ start \in [Threads -> 0..Highest]
  /\ left \in [Threads -> SUBSET Threads]
  /\ page \in [Pages -> PageKinds]
  /\ owned \subseteq Runs /\ lost \subseteq Pages /\ refused \subseteq Pages
  /\ allocs \in 0..MaxAllocs

Init ==
  /\ next = 0 /\ committed = 0 /\ committer = None
  /\ free = [t \in Threads |-> << >>]
  /\ queue = << >> /\ running = FALSE /\ drainer = "none" /\ batch = << >>
  /\ pc = [t \in Threads |-> "idle"] /\ n = [t \in Threads |-> 0]
  /\ start = [t \in Threads |-> 0] /\ left = [t \in Threads |-> {}]
  /\ page = [p \in Pages |-> "shut"]
  /\ owned = {} /\ lost = {} /\ refused = {} /\ allocs = 0

Goto(t, place) == pc' = [pc EXCEPT ![t] = place]
Done(t) ==
  /\ Goto(t, "idle")
  /\ n' = [n EXCEPT ![t] = 0] /\ start' = [start EXCEPT ![t] = 0]
  /\ left' = [left EXCEPT ![t] = {}]

\* commitPages of the pages S: no caller looks at the result, and the pages that
\* mprotect refuses to open (still) stay closed.
Refusable(S) ==
  IF CommitFails THEN SUBSET {p \in S : IsClosed(p)} ELSE {{}}
Opened(S, still) ==
  [p \in Pages |-> IF p \in S \ still /\ IsClosed(p) THEN "zero" ELSE page[p]]
CommitPages(S) ==
  \E still \in Refusable(S) :
    /\ page' = Opened(S, still)
    /\ refused' = (refused \ S) \cup still

\* decommitPages (MADV_DONTNEED) takes the memory and leaves the protection.
Emptied(k) ==
  CASE k = "data" -> "zero" [] k = "closed" -> "shut" [] OTHER -> k

-----------------------------------------------------------------------------
(* allocatePages                                                           *)

AllocatePages(t, count) ==
  /\ pc[t] = "idle" /\ allocs < MaxAllocs
  /\ allocs' = allocs + 1
  /\ n' = [n EXCEPT ![t] = count]
  /\ left' = [left EXCEPT ![t] = Threads \ {t}]
  /\ Goto(t, "own")
  /\ UNCHANGED <<arena, drain, start, page, owned, lost, refused>>

\* First fit under the shard's lock: the run goes whole, or its front is cut.
Fits(s, count) == {i \in DOMAIN free[s] : free[s][i].count >= count}

\* The run that is cut keeps its front.
TakeFromMutant(t, s) ==
  LET i == CHOOSE j \in Fits(s, n[t]) : \A k \in Fits(s, n[t]) : j <= k
      r == free[s][i]
  IN /\ owned' = owned \cup {Run(r.first, n[t])}
     /\ free' = [free EXCEPT ![s] =
          IF r.count = n[t] THEN RemoveAt(@, i)
          ELSE [@ EXCEPT ![i] = Run(r.first, r.count - n[t])]]

TakeFrom(t, s) ==
  LET i == CHOOSE j \in Fits(s, n[t]) : \A k \in Fits(s, n[t]) : j <= k
      r == free[s][i]
  IN /\ owned' = owned \cup {Run(r.first, n[t])}
     /\ free' = [free EXCEPT ![s] =
          IF r.count = n[t] THEN RemoveAt(@, i)
          ELSE [@ EXCEPT ![i] = Run(r.first + n[t], r.count - n[t])]]

OwnShard(t) ==
  /\ pc[t] = "own"
  /\ IF Fits(t, n[t]) # {}
     THEN TakeFrom(t, t) /\ Done(t)
     ELSE Goto(t, "others") /\ UNCHANGED <<free, owned, n, start, left>>
  /\ UNCHANGED <<next, committed, committer, drain, page, lost, refused, allocs>>

\* A shard whose lock is taken is skipped.
OtherShard(t, s) ==
  /\ pc[t] = "others" /\ s \in left[t]
  /\ \/ /\ Fits(s, n[t]) # {}
        /\ TakeFrom(t, s) /\ Done(t)
     \/ /\ left' = [left EXCEPT ![t] = @ \ {s}]
        /\ UNCHANGED <<free, owned, pc, n, start>>
  /\ UNCHANGED <<next, committed, committer, drain, page, lost, refused, allocs>>

Bump(t) ==
  /\ pc[t] = "others" /\ left[t] = {}
  /\ next' = next + n[t]
  /\ start' = [start EXCEPT ![t] = next]
  /\ Goto(t, IF next + n[t] > Contig THEN "undo" ELSE "commit")
  /\ UNCHANGED <<committed, committer, free, drain, n, left, page, owned, lost,
                 refused, allocs>>

\* The arena is full: fetch_sub, and allocatePages returns null.
UndoBump(t) ==
  /\ pc[t] = "undo"
  /\ next' = next - n[t]
  /\ Done(t)
  /\ UNCHANGED <<committed, committer, free, drain, page, owned, lost, refused,
                 allocs>>

-----------------------------------------------------------------------------
(* ensureCommitted(start + num_pages)                                      *)

Return(t) ==
  /\ owned' = owned \cup {Run(start[t], n[t])}
  /\ Done(t)

AlreadyCommitted(t) ==
  /\ pc[t] = "commit"
  /\ start[t] + n[t] <= committed
  /\ Return(t)
  /\ UNCHANGED <<arena, drain, page, lost, refused, allocs>>

CommitTarget(end) ==
  LET target == IF Chunk = 0 THEN end ELSE committed + Chunk
      rounded == IF target < end
                 THEN ((end + Chunk - 1) \div Chunk) * Chunk ELSE target
  IN IF rounded > Contig THEN Contig ELSE rounded

\* commit_lock_, the second look at the watermark, mprotect.
Commit(t) ==
  /\ pc[t] = "commit" /\ committer = None
  /\ start[t] + n[t] > committed
  /\ committer' = t
  /\ CommitPages(committed..CommitTarget(start[t] + n[t]) - 1)
  /\ Goto(t, "mprotect")
  /\ UNCHANGED <<next, committed, free, drain, n, start, left, owned, lost, allocs>>

Publish(t) ==
  /\ pc[t] = "mprotect"
  /\ committed' = CommitTarget(start[t] + n[t])
  /\ committer' = None
  /\ Return(t)
  /\ UNCHANGED <<next, free, drain, page, lost, refused, allocs>>

-----------------------------------------------------------------------------
(* releasePages                                                            *)

ReleasePages(t, r) ==
  /\ pc[t] = "idle" /\ r \in owned
  /\ owned' = owned \ {r}
  /\ start' = [start EXCEPT ![t] = r.first] /\ n' = [n EXCEPT ![t] = r.count]
  /\ Goto(t, IF running THEN "enqueue" ELSE "create")
  /\ UNCHANGED <<arena, drain, left, page, lost, refused, allocs>>

\* startDecommitThread: the winner of the compare-and-swap creates the thread.
StartDecommitThread(t) ==
  /\ pc[t] = "create"
  /\ \/ /\ running /\ Goto(t, "enqueue")
        /\ UNCHANGED <<running, drainer>>
     \/ /\ ~running /\ running' = TRUE
        /\ drainer' = "loop" /\ Goto(t, "enqueue")
     \/ /\ ~running /\ CreateFails
        /\ running' = TRUE
        /\ Goto(t, "inline")
        /\ UNCHANGED drainer
  /\ UNCHANGED <<arena, queue, batch, n, start, left, page, owned, lost, refused,
                 allocs>>

\* processDecommitEntry of every entry: opened, emptied, on its free list.
ProcessAll(entries) ==
  /\ LET S == PagesOfAll(Range(entries))
     IN \E still \in Refusable(S) :
          /\ page' = [p \in Pages |-> IF p \in S THEN Emptied(Opened(S, still)[p])
                                      ELSE page[p]]
          /\ refused' = (refused \ S) \cup still
  /\ free' = [t \in Threads |->
       Reverse([i \in DOMAIN SelectSeq(entries, LAMBDA e : e.shard = t) |->
          LET e == SelectSeq(entries, LAMBDA x : x.shard = t)[i]
          IN Run(e.first, e.count)]) \o free[t]]

\* Creation failed: the flag is taken back and the queue drained here.
DrainInline(t) ==
  /\ pc[t] = "inline"
  /\ running' = FALSE
  /\ ProcessAll(queue)
  /\ queue' = << >>
  /\ Goto(t, "enqueue")
  /\ UNCHANGED <<next, committed, committer, drainer, batch, n, start, left,
                 owned, lost, allocs>>

QueueForDecommit(t) ==
  /\ pc[t] = "enqueue"
  /\ queue' = <<[first |-> start[t], count |-> n[t], shard |-> t]>> \o queue
  /\ Done(t)
  /\ UNCHANGED <<arena, running, drainer, batch, page, owned, lost, refused,
                 allocs>>

-----------------------------------------------------------------------------
(* decommitThreadEntry; it waits while the queue is empty.                 *)

TakeBatch ==
  /\ drainer = "loop" /\ queue # << >>
  /\ batch' = queue /\ queue' = << >>
  /\ drainer' = "open"
  /\ UNCHANGED <<arena, running, app, page, owned, lost, refused, allocs>>

\* Decommits without opening: a page compressed before the free stays closed.
OpenEntryMutant ==
  /\ drainer = "open"
  /\ drainer' = "drop"
  /\ UNCHANGED <<arena, queue, running, batch, app, page, owned, lost, refused,
                 allocs>>

OpenEntry ==
  /\ drainer = "open"
  /\ CommitPages(PagesOf(Head(batch)))
  /\ drainer' = "drop"
  /\ UNCHANGED <<arena, queue, running, batch, app, owned, lost, allocs>>

DecommitEntry ==
  /\ drainer = "drop"
  /\ page' = [p \in Pages |-> IF p \in PagesOf(Head(batch))
                              THEN Emptied(page[p]) ELSE page[p]]
  /\ drainer' = "push"
  /\ UNCHANGED <<arena, queue, running, batch, app, owned, lost, refused, allocs>>

PushRun ==
  /\ drainer = "push"
  /\ LET e == Head(batch) IN
     free' = [free EXCEPT ![e.shard] = <<Run(e.first, e.count)>> \o @]
  /\ batch' = Tail(batch)
  /\ drainer' = IF Len(batch) = 1 THEN "loop" ELSE "open"
  /\ UNCHANGED <<next, committed, committer, queue, running, app, page, owned,
                 lost, refused, allocs>>

-----------------------------------------------------------------------------
(* The child of fork has the forking thread only.  No other thread is      *)
(* inside a lock (lockForFork), but what it held goes with it; the queue   *)
(* is drained in place (resetDecommitThreadForFork).                       *)

InFlight(t) ==
  IF pc[t] \in {"commit", "mprotect", "enqueue", "create", "inline"}
  THEN PagesOf(Run(start[t], n[t])) ELSE {}

Fork(t) ==
  /\ MayFork /\ pc[t] = "idle" /\ committer = None
  /\ \A u \in Threads : pc[u] # "gone"
  /\ pc' = [u \in Threads |-> IF u = t THEN "idle" ELSE "gone"]
  /\ lost' = PagesOfAll(Range(batch)) \cup UNION {InFlight(u) : u \in Threads}
  /\ running' = FALSE /\ drainer' = "none" /\ batch' = << >>
  /\ ProcessAll(queue)
  /\ queue' = << >>
  /\ UNCHANGED <<next, committed, committer, n, start, left, owned, allocs>>

-----------------------------------------------------------------------------
(* The application stores, the compressor closes, a fault restores.  The   *)
(* callers of allocatePages mark the pages ACTIVE before they are used, and *)
(* the handler opens an ACTIVE page that is closed.                        *)

Use(r, p) ==
  /\ r \in owned /\ p \in PagesOf(r)
  /\ \/ /\ page[p] # "data" /\ page' = [page EXCEPT ![p] = "data"]
        /\ refused' = refused \ {p}
     \/ /\ page[p] = "data" /\ page' = [page EXCEPT ![p] = "closed"]
        /\ UNCHANGED refused
  /\ UNCHANGED <<arena, drain, app, owned, lost, allocs>>

DrainerStep == TakeBatch \/ OpenEntry \/ DecommitEntry \/ PushRun
CallStep(t) ==
  \/ OwnShard(t) \/ (\E s \in Threads : OtherShard(t, s))
  \/ Bump(t) \/ UndoBump(t)
  \/ AlreadyCommitted(t) \/ Commit(t) \/ Publish(t)
  \/ StartDecommitThread(t) \/ DrainInline(t) \/ QueueForDecommit(t)

Next ==
  \/ \E t \in Threads : \/ \E count \in Sizes : AllocatePages(t, count)
                        \/ \E r \in owned : ReleasePages(t, r)
                        \/ CallStep(t) \/ Fork(t)
  \/ DrainerStep
  \/ \E r \in owned : \E p \in PagesOf(r) : Use(r, p)

Spec == Init /\ [][Next]_vars

\* The decommit thread and a thread inside a call keep running.
FairSpec == Spec /\ WF_vars(DrainerStep) /\ \A t \in Threads : WF_vars(CallStep(t))

-----------------------------------------------------------------------------

\* Every run there is: handed out, being handed out or released, queued, free.
Holdings ==
  {<<"owned", r>> : r \in owned}
    \cup {<<"flight", t, Run(start[t], n[t])>> : t \in {u \in Threads : InFlight(u) # {}}}
    \cup {<<"queue", i, Run(queue[i].first, queue[i].count)>> : i \in DOMAIN queue}
    \cup {<<"batch", i, Run(batch[i].first, batch[i].count)>> : i \in DOMAIN batch}
    \cup UNION {{<<"free", t, i, free[t][i]>> : i \in DOMAIN free[t]} : t \in Threads}

\* Runs do not overlap: no two that are handed out, in flight, queued, being
\* decommitted or free share a page.  allocatePages keeps this up to the first
\* bump that it takes back while another one that failed is still to be taken
\* back: fetch_sub then leaves next_page_ above the pages in use, a request in
\* between may succeed there, and the second fetch_sub goes below its run.
NoOverlap ==
  \A h, k \in Holdings :
    h # k => PagesOf(h[Len(h)]) \cap PagesOf(k[Len(k)]) = {}

\* A page is in exactly one place.  Runs do not overlap, and no page below the
\* bump pointer is forgotten: once no thread has a bump to take back, every page
\* is held somewhere or is one that fork lost (allocatePages, releasePages,
\* processDecommitEntry), where no request is longer than two others together.
PagesInOnePlace ==
  /\ NoOverlap
  /\ (\A t \in Threads : pc[t] \notin {"undo", "gone"}) =>
       Pages \cap 0..next - 1 =
         lost \cup UNION {PagesOf(h[Len(h)]) : h \in Holdings}

\* A run on a free list has no memory behind it, whatever its last owner left
\* there, and it is open except for pages that commitPages was asked to open and
\* could not; the same of what has been handed out.  Both callers ignore that
\* result, so at the limit on mappings a closed run can be reused, against the
\* comment "safe - pages are decommitted and PROT_RW" (vm_region.h:191); it is
\* never one whose opening was forgotten or is still to come.  And while a page is
\* handed out only the application, the compressor and the fault handler change
\* it: no commit of the watermark and no decommit of an earlier owner reaches it
\* (ensureCommitted, processDecommitEntry).
RunsClean ==
  /\ \A t \in Threads : \A r \in Range(free[t]) : \A p \in PagesOf(r) :
       page[p] = "zero" \/ (page[p] = "shut" /\ p \in refused)
  /\ \A r \in owned : \A p \in PagesOf(r) : page[p] = "shut" => p \in refused

CleanStep ==
  \A p \in PagesOfAll(owned) \cap PagesOfAll(owned') :
    page'[p] # page[p] =>
      <<page[p], page'[p]>> \in {<<"zero", "data">>, <<"shut", "data">>,
                                 <<"data", "closed">>, <<"closed", "data">>}

RunsStayClean == []RunsClean /\ [][CleanStep]_vars

Draining == running
Queued(p) == p \in PagesOfAll(Range(queue \o batch))

\* A released run reaches a free list, if from some time on there is a
\* decommit thread (one that could not be created is tried again only at
\* the next release).
ReleasedComesBack ==
  <>[]Draining => \A p \in Pages : Queued(p) ~> ~Queued(p)

=============================================================================
