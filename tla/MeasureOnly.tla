----------------------------- MODULE MeasureOnly -----------------------------
(***************************************************************************)
(* libsmash_compress_only (compress_only/co_interpose_linux.cpp): the      *)
(* allocator stays the system's; the interposed calls record the pages     *)
(* that they return in a lock-free open-addressed table, and the library's *)
(* destructor reads that table to report how well the pages compress.      *)
(* The system's functions are found by dlsym on first use, and calloc,     *)
(* which dlsym itself calls, serves from a static buffer meanwhile.        *)
(*                                                                         *)
(* A block is the page it lies on, or a range of the static buffer; a page *)
(* p probes from slot p % Cap.  The table is the same on macOS.            *)
(***************************************************************************)
EXTENDS Naturals, FiniteSets

CONSTANTS Threads,
          Pages,         \* pages the system allocator returns, positive numbers
          Cap, Probes,   \* kTrackCap; the probe limit (128)
          Buf,           \* sizeof(g_calloc_buf)
          MaxSpurious,   \* bound: compare_exchange_weak's failures on an empty slot
          MaxCalls,      \* bound: calls of the application
          None

VARIABLES slots, count,  \* PageTracker
          inited,        \* g_inited
          inDlsym,       \* g_in_dlsym
          real,          \* which of the system's functions are resolved
          off,           \* g_calloc_off
          job,           \* where each thread is in its call
          blocks,        \* the application's blocks
          calls,
          scan, seen,    \* report_ratios: next slot, the pages it took in order
          skips,         \* history, per page: empty slots passed by for such a failure
          aborted        \* the system found a block that is not its own, and aborts

vars == <<slots, count, inited, inDlsym, real, off, job, blocks, calls, scan, seen, skips, aborted>>

Slot == 0 .. Cap - 1
Resolved == <<"malloc", "free", "calloc", "realloc">>
\* A block of the system lies on page at; one of the static buffer in at .. at + n - 1.
OnPage(p) == [static |-> FALSE, at |-> p, n |-> 0]
InBuf(i, n) == [static |-> TRUE, at |-> i, n |-> n]
Static == {b \in blocks : b.static}
Idle == [at |-> "idle", op |-> None, k |-> 0, page |-> 0]

TypeOK ==
    /\ slots \in [Slot -> Pages \cup {0}]
    /\ count \in 0 .. Cap
    /\ inited \in BOOLEAN /\ inDlsym \in BOOLEAN /\ aborted \in BOOLEAN
    /\ real \subseteq {"malloc", "free", "calloc", "realloc", "memalign"}
    /\ \A t \in Threads : job[t].at \in {"idle", "resolve", "call", "load", "cas", "add"}
    /\ \A b \in blocks : b.static \/ b.at \in Pages
    /\ scan \in 0 .. Cap + 1 /\ skips \in [Pages -> 0 .. MaxSpurious]

Init ==
    /\ slots = [i \in Slot |-> 0] /\ count = 0
    /\ inited = FALSE /\ inDlsym = FALSE /\ real = {} /\ off = 0
    /\ job = [t \in Threads |-> Idle]
    /\ blocks = {} /\ calls = 0
    /\ scan = Cap + 1 /\ seen = [p \in Pages |-> 0]
    /\ skips = [p \in Pages |-> 0] /\ aborted = FALSE

(***************************************************************************)
(* Calls and dlsym.  The constructor is a call that only resolves.         *)
(***************************************************************************)
Ops == {"malloc", "free", "calloc", "realloc", "memalign", "co_init"}

\* calloc never resolves; the others do while their own pointer is null.
Enter(t, op) ==
    /\ job[t] = Idle /\ calls < MaxCalls
    /\ op = "co_init" => ~inited /\ \A u \in Threads : job[u].op # "co_init"
    /\ calls' = calls + 1
    /\ job' = [job EXCEPT ![t] =
                 [Idle EXCEPT !.op = op,
                              !.at = IF op = "calloc" \/ op \in real THEN "call" ELSE "resolve"]]
    /\ UNCHANGED <<slots, count, inited, inDlsym, real, off, blocks, scan, seen,
                   skips, aborted>>

FlagUp(t) ==
    /\ job[t].at = "resolve" /\ job[t].k = 0
    /\ inDlsym' = TRUE
    /\ job' = [job EXCEPT ![t].k = 1]
    /\ UNCHANGED <<slots, count, inited, real, off, blocks, calls, scan, seen,
                   skips, aborted>>

\* resolve() looks up four functions, the memalign family one each.  dlsym
\* may call calloc, which finds the flag up or its own pointer still null.
Last(t) == IF job[t].op = "memalign" THEN 1 ELSE 4

Dlsym(t) ==
    /\ job[t].at = "resolve" /\ job[t].k \in 1 .. Last(t)
    /\ real' = real \cup {IF job[t].op = "memalign" THEN "memalign" ELSE Resolved[job[t].k]}
    /\ \E n \in IF inDlsym \/ "calloc" \notin real THEN {0, 1} ELSE {0} :
          off' = IF off > Buf THEN off ELSE off + n
    /\ job' = [job EXCEPT ![t].k = @ + 1]
    /\ UNCHANGED <<slots, count, inited, inDlsym, blocks, calls, scan, seen,
                   skips, aborted>>

FlagDown(t) ==
    /\ job[t].at = "resolve" /\ job[t].k = Last(t) + 1
    /\ inDlsym' = FALSE
    /\ job' = [job EXCEPT ![t].at = "call"]
    /\ UNCHANGED <<slots, count, inited, real, off, blocks, calls, scan, seen,
                   skips, aborted>>

\* co_init goes on only when the table could be mapped.
CoInit(t) ==
    /\ job[t].at = "call" /\ job[t].op = "co_init"
    /\ inited' \in BOOLEAN
    /\ job' = [job EXCEPT ![t] = Idle]
    /\ UNCHANGED <<slots, count, inDlsym, real, off, blocks, calls, scan, seen,
                   skips, aborted>>

\* track_pages: nothing before the constructor has run.
Tracking(t, p) ==
    job' = [job EXCEPT ![t] = IF inited THEN [Idle EXCEPT !.at = "load", !.page = p] ELSE Idle]

\* malloc, and calloc and the memalign family once resolved; blocks may share
\* a page, so an allocation may return a page already in use.
Allocate(t, p) ==
    /\ job[t].at = "call"
    /\ \/ job[t].op \in {"malloc", "memalign"}
       \/ job[t].op = "calloc" /\ ~inDlsym /\ "calloc" \in real
    /\ blocks' = blocks \cup {OnPage(p)}
    /\ Tracking(t, p)
    /\ UNCHANGED <<slots, count, inited, inDlsym, real, off, calls, scan, seen,
                   skips, aborted>>

\* calloc during a dlsym of any thread.  The offset is never given back.
CallocStatic(t, n) ==
    /\ job[t].at = "call" /\ job[t].op = "calloc"
    /\ inDlsym \/ "calloc" \notin real
    /\ off' = IF off > Buf THEN off ELSE off + n
    /\ blocks' = IF off + n <= Buf THEN blocks \cup {InBuf(off, n)} ELSE blocks
    /\ job' = [job EXCEPT ![t] = Idle]
    /\ UNCHANGED <<slots, count, inited, inDlsym, real, calls, scan, seen, skips,
                   aborted>>

\* A block of the static buffer is left alone; the page of a system block may
\* hold others still.
Free(t) ==
    /\ job[t].at = "call" /\ job[t].op = "free"
    /\ \E b \in blocks : blocks' \in {blocks \ {b}} \cup (IF b.static THEN {} ELSE {blocks})
    /\ job' = [job EXCEPT ![t] = Idle]
    /\ UNCHANGED <<slots, count, inited, inDlsym, real, off, calls, scan, seen,
                   skips, aborted>>

\* realloc asks nothing about its argument: a block of the static buffer, too,
\* goes to the system, which does not know it.
Realloc(t, p) ==
    /\ job[t].at = "call" /\ job[t].op = "realloc"
    /\ \E b \in blocks :
          /\ aborted' = b.static
          /\ blocks' \in {(blocks \ {b}) \cup {OnPage(p)}, blocks \cup {OnPage(p)}}
    /\ Tracking(t, p)
    /\ UNCHANGED <<slots, count, inited, inDlsym, real, off, calls, scan, seen,
                   skips>>

\* free or realloc of a null pointer: nothing of ours changes.
NullArgument(t) ==
    /\ job[t].at = "call" /\ job[t].op \in {"free", "realloc"}
    /\ job' = [job EXCEPT ![t] = Idle]
    /\ UNCHANGED <<slots, count, inited, inDlsym, real, off, blocks, calls, scan,
                   seen, skips, aborted>>

(***************************************************************************)
(* PageTracker::track                                                      *)
(***************************************************************************)
Here(t) == (job[t].page + job[t].k) % Cap

\* On to the next probe; a page that finds no slot is not tracked.
Onward(j) == IF j.k + 1 < Probes THEN [j EXCEPT !.at = "load", !.k = @ + 1] ELSE Idle

Load(t) ==
    /\ job[t].at = "load"
    /\ job' = [job EXCEPT ![t] = IF slots[Here(t)] = @.page THEN Idle
                                 ELSE IF slots[Here(t)] = 0 THEN [@ EXCEPT !.at = "cas"] ELSE Onward(@)]
    /\ UNCHANGED <<slots, count, inited, inDlsym, real, off, blocks, calls, scan,
                   seen, skips, aborted>>

\* The value that beat the exchange is not looked at.
CasMutant(t) ==
    /\ job[t].at = "cas"
    /\ \/ /\ slots[Here(t)] = 0
          /\ slots' = [slots EXCEPT ![Here(t)] = job[t].page]
          /\ job' = [job EXCEPT ![t].at = "add"]
          /\ UNCHANGED skips
       \/ /\ slots[Here(t)] # 0
          /\ job' = [job EXCEPT ![t] = Onward(@)]
          /\ UNCHANGED <<slots, skips>>
    /\ UNCHANGED <<count, inited, inDlsym, real, off, blocks, calls, scan, seen,
                   aborted>>

\* The exchange, which may also fail for no reason: the slot is then passed by.
Cas(t) ==
    /\ job[t].at = "cas"
    /\ \/ /\ slots[Here(t)] = 0
          /\ slots' = [slots EXCEPT ![Here(t)] = job[t].page]
          /\ job' = [job EXCEPT ![t].at = "add"]
          /\ UNCHANGED skips
       \/ /\ slots[Here(t)] # 0
          /\ job' = [job EXCEPT ![t] = IF slots[Here(t)] = @.page THEN Idle ELSE Onward(@)]
          /\ UNCHANGED <<slots, skips>>
       \/ /\ slots[Here(t)] = 0 /\ skips[job[t].page] < MaxSpurious
          /\ skips' = [skips EXCEPT ![job[t].page] = @ + 1]
          /\ job' = [job EXCEPT ![t] = Onward(@)]
          /\ UNCHANGED slots
    /\ UNCHANGED <<count, inited, inDlsym, real, off, blocks, calls, scan, seen,
                   aborted>>

Add(t) ==
    /\ job[t].at = "add"
    /\ count' = count + 1
    /\ job' = [job EXCEPT ![t] = Idle]
    /\ UNCHANGED <<slots, inited, inDlsym, real, off, blocks, calls, scan, seen,
                   skips, aborted>>

(***************************************************************************)
(* co_fini: the report reads the table while other threads may still run.  *)
(* A page that is gone, or all zero, is passed over.                       *)
(***************************************************************************)
Report ==
    /\ scan = Cap + 1 /\ inited /\ count > 0
    /\ scan' = 0
    /\ UNCHANGED <<slots, count, inited, inDlsym, real, off, job, blocks, calls,
                   seen, skips, aborted>>

Measure ==
    /\ scan < Cap
    /\ LET p == slots[scan]
       IN  \/ OnPage(p) \in blocks /\ seen' = [seen EXCEPT ![p] = @ + 1]
           \/ UNCHANGED seen
    /\ scan' = scan + 1
    /\ UNCHANGED <<slots, count, inited, inDlsym, real, off, job, blocks, calls,
                   skips, aborted>>

Step ==
    \/ \E t \in Threads :
          \/ \E op \in Ops : Enter(t, op)
          \/ FlagUp(t) \/ Dlsym(t) \/ FlagDown(t) \/ CoInit(t)
          \/ \E p \in Pages : Allocate(t, p) \/ Realloc(t, p)
          \/ \E n \in {1, 2} : CallocStatic(t, n)
          \/ Free(t) \/ NullArgument(t)
          \/ Load(t) \/ Cas(t) \/ Add(t)
    \/ Report \/ Measure

Next == ~aborted /\ Step

Spec == Init /\ [][Next]_vars

(***************************************************************************)
(* Properties                                                              *)
(***************************************************************************)
\* However calls race, the table counts what it should.  Blocks of the static
\* buffer lie apart and inside it.  The tracked count is the number of occupied
\* slots but for threads that are about to add theirs.  And no page is in two
\* slots, or enters the report twice, except once more for every time that
\* compare_exchange_weak failed on an empty slot for it: track then goes on to
\* the next slot instead of trying again (co_interpose_linux.cpp:58), and a later
\* call finds the first slot empty.
MeasureSound ==
    /\ \A b, c \in Static : b # c => b.at + b.n <= c.at \/ c.at + c.n <= b.at
    /\ \A b \in Static : b.at + b.n <= Buf
    /\ count + Cardinality({t \in Threads : job[t].at = "add"}) = Cardinality({i \in Slot : slots[i] # 0})
    /\ \A p \in Pages :
          /\ Cardinality({i \in Slot : slots[i] = p}) <= 1 + skips[p]
          /\ seen[p] <= 1 + skips[p]
=============================================================================
