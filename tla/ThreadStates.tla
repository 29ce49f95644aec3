---------------------------- MODULE ThreadStates ----------------------------
(***************************************************************************)
(* What smash keeps per thread.  A ThreadCache holds freed objects and     *)
(* comes from a pool; two pointers to it, g_thread_cache and the lean      *)
(* entries' g_fast_tc, live in thread_locals, or (the TSD build) in a      *)
(* ThreadState that a reserved slot of the thread points to and that a     *)
(* free list recycles.  Both must come back when the thread ends, although *)
(* destructors of the application may still allocate after the hook that   *)
(* gives them back, and although some threads never pass the hooks.  The   *)
(* first hook to run also starts the compressor, and a fork leaves one     *)
(* thread and none of the compressor's.  The lean entries are allowed, as  *)
(* by default: otherwise g_fast_tc stays null.                             *)
(***************************************************************************)
EXTENDS Naturals, Sequences, FiniteSets, SequencesExt

CONSTANTS
  Threads,     \* bound: the application's threads
  States,      \* bound: ThreadStates BootstrapAlloc can supply
  Caches,      \* bound: ThreadCaches it can supply
  Tsd,         \* SMASH_USE_TSD
  Rounds,      \* PTHREAD_DESTRUCTOR_ITERATIONS
  MayFork,
  Null

VARIABLES
  pc,          \* per thread: where it is
  ret,         \* per thread: where to go once it has a state
  hooked,      \* per thread: created through the interposed pthread_create
  slot,        \* per thread: the ThreadState its slot points to
  key,         \* per thread: the value of the destructor key
  round,       \* per thread: rounds of destructors run
  ts,          \* per thread: the ThreadState it is taking or giving back
  tsFree,      \* g_ts_free
  tsMade,      \* ThreadStates ever supplied
  cache,       \* per ThreadState: its thread_cache
  fast,        \* per ThreadState: its fast_tc
  pool,        \* ThreadCachePool::freelist_
  tcMade,      \* ThreadCaches ever supplied
  full,        \* the ThreadCaches that hold objects
  inits,       \* g_thread_init_count > 0
  started,     \* compression_started_
  running,     \* compressors running in this process
  forked       \* this is a child

vars == <<pc, ret, hooked, slot, key, round, ts, tsFree, tsMade, cache, fast,
          pool, tcMade, full, inits, started, running, forked>>

Points ==
  {"new", "run", "pop", "install", "create", "use", "init", "start", "cleanup",
   "drain", "return", "unset", "exit", "release", "clear", "push", "next",
   "dead"}

\* A thread's own storage stands for its thread_locals: all of them without
\* Tsd, g_tsd_fallback_state with it.
Stores == States \cup Threads

TypeOK ==
  /\ pc \in [Threads -> Points] /\ ret \in [Threads -> Points]
  /\ hooked \in [Threads -> BOOLEAN]
  /\ slot \in [Threads -> Stores \cup {Null}]
  /\ key \in [Threads -> States \cup {Null}]
  /\ round \in [Threads -> 0..Rounds]
  /\ ts \in [Threads -> States \cup {Null}]
  /\ Range(tsFree) \subseteq States /\ tsMade \subseteq States
  /\ cache \in [Stores -> Caches \cup {Null}]
  /\ fast \in [Stores -> Caches \cup {Null}]
  /\ Range(pool) \subseteq Caches /\ tcMade \subseteq Caches
  /\ full \subseteq Caches
  /\ inits \in BOOLEAN /\ started \in BOOLEAN /\ running \in Nat /\ forked \in BOOLEAN

Init ==
  /\ pc = [t \in Threads |-> "new"] /\ ret = [t \in Threads |-> "run"]
  /\ hooked \in [Threads -> BOOLEAN]
  /\ slot = [t \in Threads |-> IF Tsd THEN Null ELSE t]
  /\ key = [t \in Threads |-> Null]
  /\ round = [t \in Threads |-> 0]
  /\ ts = [t \in Threads |-> Null]
  /\ tsFree = <<>> /\ tsMade = {}
  /\ cache = [s \in Stores |-> Null] /\ fast = [s \in Stores |-> Null]
  /\ pool = <<>> /\ tcMade = {} /\ full = {}
  /\ inits = FALSE /\ started = FALSE /\ running = 0 /\ forked = FALSE

\* threadState(): what the names of the thread's fields stand for.
Store(t) == IF slot[t] = Null THEN t ELSE slot[t]
Goto(t, p) == pc' = [pc EXCEPT ![t] = p]

\* Code that uses the fields first makes sure of the state, then goes to p.
WithState(t, p) ==
  IF slot[t] = Null THEN Goto(t, "pop") /\ ret' = [ret EXCEPT ![t] = p]
  ELSE Goto(t, p) /\ UNCHANGED ret

States_ == <<slot, key, ts, tsFree, tsMade>>
Caches_ == <<cache, fast, pool, tcMade, full>>
Process == <<inits, started, running, forked>>

-----------------------------------------------------------------------------
(* threadStateSlow.                                                        *)

\* A recycled one, else a new one, else the thread's fallback, for this access.
PopState(t) ==
  /\ pc[t] = "pop"
  /\ \/ /\ tsFree # <<>>
        /\ ts' = [ts EXCEPT ![t] = Head(tsFree)]
        /\ tsFree' = Tail(tsFree)
        /\ Goto(t, "install")
        /\ UNCHANGED tsMade
     \/ /\ tsFree = <<>> /\ tsMade # States
        /\ LET s == CHOOSE s \in States : s \notin tsMade IN
           ts' = [ts EXCEPT ![t] = s] /\ tsMade' = tsMade \cup {s}
        /\ Goto(t, "install")
        /\ UNCHANGED tsFree
     \/ /\ tsFree = <<>> /\ tsMade = States
        /\ Goto(t, ret[t])
        /\ UNCHANGED <<ts, tsFree, tsMade>>
  /\ UNCHANGED <<ret, hooked, slot, key, round, Caches_, Process>>

\* new (ts) ThreadState(), tsdSet, pthread_setspecific.
InstallState(t) ==
  /\ pc[t] = "install"
  /\ cache' = [cache EXCEPT ![ts[t]] = Null]
  /\ fast' = [fast EXCEPT ![ts[t]] = Null]
  /\ slot' = [slot EXCEPT ![t] = ts[t]]
  /\ key' = [key EXCEPT ![t] = ts[t]]
  /\ ts' = [ts EXCEPT ![t] = Null]
  /\ Goto(t, ret[t])
  /\ UNCHANGED <<ret, hooked, round, tsFree, tsMade, pool, tcMade, full, Process>>

-----------------------------------------------------------------------------
(* A thread begins, allocates, and ends.                                   *)

\* alloc8's trampoline calls xxthread_init; a workqueue thread has none.
Begin(t) ==
  /\ pc[t] = "new"
  /\ IF hooked[t] THEN WithState(t, "init") ELSE Goto(t, "run") /\ UNCHANGED ret
  /\ UNCHANGED <<hooked, round, States_, Caches_, Process>>

\* The lean malloc and free go straight to g_fast_tc; all else goes through
\* getOrCreateThreadCache: a cache from the pool, else new, published twice.
CreateCache(t) ==
  /\ pc[t] \in {"init", "create"}
  /\ LET s == Store(t)
         Have(c) == /\ cache' = [cache EXCEPT ![s] = c]
                    /\ fast' = [fast EXCEPT ![s] = c]
     IN IF cache[s] # Null \/ (pc[t] = "create" /\ fast[s] # Null)
        THEN UNCHANGED <<cache, fast, pool, tcMade>>
        ELSE \/ /\ pool # <<>>
                /\ Have(Head(pool))
                /\ pool' = Tail(pool)
                /\ UNCHANGED tcMade
             \/ /\ pool = <<>> /\ tcMade # Caches
                /\ LET c == CHOOSE c \in Caches : c \notin tcMade IN
                   Have(c) /\ tcMade' = tcMade \cup {c}
                /\ UNCHANGED pool
  /\ Goto(t, IF pc[t] = "init" THEN "start" ELSE "use")
  /\ UNCHANGED <<ret, hooked, round, States_, full, Process>>

\* threadInit goes on to startCompression, on macOS from the second call on.
StartCompression(t) ==
  /\ pc[t] = "start"
  /\ IF started \/ (Tsd /\ ~inits) THEN UNCHANGED <<started, running>>
     ELSE started' = TRUE /\ running' = running + 1
  /\ inits' = TRUE
  /\ Goto(t, "run")
  /\ UNCHANGED <<ret, hooked, round, States_, Caches_, forked>>

\* The application, or one of its destructors, calls malloc and free.
Allocate(t) ==
  /\ pc[t] = "run" \/ (pc[t] = "next" /\ round[t] < Rounds)
  /\ WithState(t, "create")
  /\ UNCHANGED <<hooked, round, States_, Caches_, Process>>

Use(t) ==
  /\ pc[t] = "use"
  /\ LET s == Store(t) IN
     full' = full \cup {IF fast[s] # Null THEN fast[s] ELSE cache[s]}
  /\ Goto(t, IF round[t] = 0 THEN "run" ELSE "next")
  /\ UNCHANGED <<ret, hooked, round, States_, cache, fast, pool, tcMade, Process>>

\* xxthread_cleanup, then the destructors.
End(t) ==
  /\ pc[t] = "run"
  /\ IF hooked[t] THEN WithState(t, "cleanup") ELSE Goto(t, "exit") /\ UNCHANGED ret
  /\ UNCHANGED <<hooked, round, States_, Caches_, Process>>

-----------------------------------------------------------------------------
(* threadCleanup: from the trampoline ("exit" follows) or from the         *)
(* destructor (ts[t] is set and "clear" follows).                          *)

\* g_fast_tc = nullptr left out.
CleanupMutant(t) ==
  /\ pc[t] = "cleanup"
  /\ Goto(t, IF cache[Store(t)] = Null THEN "exit" ELSE "drain")
  /\ UNCHANGED <<ret, hooked, round, States_, Caches_, Process>>

Cleanup(t) ==
  /\ pc[t] = "cleanup"
  /\ fast' = [fast EXCEPT ![Store(t)] = Null]
  /\ Goto(t, IF cache[Store(t)] = Null THEN "exit" ELSE "drain")
  /\ UNCHANGED <<ret, hooked, round, States_, cache, pool, tcMade, full, Process>>

Drain(t) ==
  /\ pc[t] = "drain"
  /\ full' = full \ {cache[Store(t)]}
  /\ Goto(t, "return")
  /\ UNCHANGED <<ret, hooked, round, States_, cache, fast, pool, tcMade, Process>>

\* returnThreadCache; another thread may take it before tc = nullptr.
ReturnCache(t) ==
  /\ pc[t] = "return"
  /\ pool' = <<cache[Store(t)]>> \o pool
  /\ Goto(t, "unset")
  /\ UNCHANGED <<ret, hooked, round, States_, cache, fast, tcMade, full, Process>>

Unset(t) ==
  /\ pc[t] = "unset"
  /\ cache' = [cache EXCEPT ![Store(t)] = Null]
  /\ Goto(t, IF ts[t] = Null THEN "exit" ELSE "clear")
  /\ UNCHANGED <<ret, hooked, round, States_, fast, pool, tcMade, full, Process>>

-----------------------------------------------------------------------------
(* The thread's destructors, in rounds while keys have values.             *)

Exit(t) ==
  /\ pc[t] = "exit"
  /\ IF key[t] = Null
     THEN /\ Goto(t, "next")
          /\ UNCHANGED <<ts, key>>
     ELSE /\ ts' = [ts EXCEPT ![t] = key[t]]
          /\ key' = [key EXCEPT ![t] = Null]
          /\ Goto(t, "release")
  /\ round' = [round EXCEPT ![t] = @ + 1]
  /\ UNCHANGED <<ret, hooked, slot, tsFree, tsMade, Caches_, Process>>

\* threadStateRelease: the cache first, while the slot still leads to it.
Release(t) ==
  /\ pc[t] = "release"
  /\ Goto(t, IF cache[ts[t]] # Null THEN "cleanup" ELSE "clear")
  /\ UNCHANGED <<ret, hooked, round, States_, Caches_, Process>>

ClearSlot(t) ==
  /\ pc[t] = "clear"
  /\ slot' = [slot EXCEPT ![t] = Null]
  /\ Goto(t, "push")
  /\ UNCHANGED <<ret, hooked, round, key, ts, tsFree, tsMade, Caches_, Process>>

PushState(t) ==
  /\ pc[t] = "push"
  /\ tsFree' = <<ts[t]>> \o tsFree
  /\ ts' = [ts EXCEPT ![t] = Null]
  /\ Goto(t, "next")
  /\ UNCHANGED <<ret, hooked, round, slot, key, tsMade, Caches_, Process>>

\* Another round if a destructor gave a key a value again.
NextRound(t) ==
  /\ pc[t] = "next"
  /\ Goto(t, IF key[t] # Null /\ round[t] < Rounds THEN "exit" ELSE "dead")
  /\ UNCHANGED <<ret, hooked, round, States_, Caches_, Process>>

\* The other threads are gone in the child (their states and caches with
\* them), the locks of both lists were held, and resetForFork marks compression
\* not started.
Fork(t) ==
  /\ MayFork /\ ~forked
  /\ pc[t] = "run"
  /\ pc' = [u \in Threads |-> IF u = t \/ pc[u] = "new" THEN pc[u] ELSE "dead"]
  /\ forked' = TRUE
  /\ started' = FALSE /\ running' = 0
  /\ UNCHANGED <<ret, hooked, round, States_, Caches_, inits>>

Step(t) ==
  \/ Begin(t) \/ PopState(t) \/ InstallState(t) \/ CreateCache(t)
  \/ StartCompression(t) \/ Allocate(t) \/ Use(t) \/ End(t) \/ Cleanup(t) \/ Drain(t)
  \/ ReturnCache(t) \/ Unset(t) \/ Exit(t) \/ Release(t) \/ ClearSlot(t)
  \/ PushState(t) \/ NextRound(t)

Next == \E t \in Threads : Step(t) \/ Fork(t)
Spec == Init /\ [][Next]_vars

-----------------------------------------------------------------------------

Live == {t \in Threads : pc[t] \notin {"new", "dead"}}
\* The thread is done with its cache, which it has just given back.
Given(t) == pc[t] = "unset"

\* No two threads share a ThreadState or a ThreadCache, and nothing in a free
\* list is in use or in the list twice: threadStateRelease clears the slot and
\* threadCleanup both pointers, so that a destructor that allocates later starts
\* over.  A pooled cache is empty and no lean entry leads to it, and there is one
\* compressor at most.
ThreadsApart ==
  /\ IsInjective(tsFree) /\ IsInjective(pool)
  /\ \A t, u \in Live : t # u =>
       /\ slot[t] # Null => slot[t] # slot[u]
       /\ ~Given(t) /\ ~Given(u) /\ cache[Store(t)] # Null
            => cache[Store(t)] # cache[Store(u)]
  /\ \A t \in Live :
       /\ slot[t] \notin Range(tsFree)
       /\ ts[t] \notin Range(tsFree)
       /\ ~Given(t) => cache[Store(t)] \notin Range(pool)
       /\ fast[Store(t)] \in {Null, cache[Store(t)]} \ Range(pool)
  /\ full \cap Range(pool) = {}
  /\ running <= 1

\* What a thread had is back in the free lists, the cache drained, once it is
\* gone.  With thread-specific data: as long as its destructors stopped allocating
\* before the last round, ThreadStates did not run out and no fork took the thread
\* away.  With thread_locals: as long as it passed the hook and its destructors
\* allocated nothing after it (threadCleanup, threadStateRelease).
AllComesBack ==
  ~forked /\ (\A t \in Threads : cache[t] = Null) =>
    /\ Tsd => \A t \in Threads : pc[t] = "dead" /\ round[t] < Rounds => slot[t] = Null
    /\ (\A t \in Threads : pc[t] \in {"new", "dead"} /\ slot[t] \in {Null, t})
       => /\ Range(tsFree) = tsMade
          /\ Range(pool) = tcMade
          /\ full = {}

=============================================================================
