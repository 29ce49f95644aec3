--------------------------- MODULE ExternalPages ----------------------------
(***************************************************************************)
(* Pages the application maps itself (SMASH_TRACK_EXTERNAL=1).  The mmap   *)
(* wrapper enters a new page in VmRegion's hash and gives it an index, by  *)
(* which the compressor finds it; munmap takes it out under the page's     *)
(* lock before it unmaps; mremap moves the mapping first.  An index is     *)
(* never used twice.                                                       *)
(*                                                                         *)
(* A mapping is one page here (the wrappers loop over the pages of a       *)
(* range, and skip one larger than the table).  Of the page's life only    *)
(* what the address and the index matter for is kept, in the default       *)
(* (deferred) mode, where a worker holds the lock from its check of the    *)
(* state to its end: compressing, reclaiming the memory of a compressed    *)
(* page, restoring it at a fault.  What stores during the compression do   *)
(* to the data is PageLifecycle's subject; the page is closed here while   *)
(* it is compressed.                                                       *)
(***************************************************************************)
EXTENDS Naturals

CONSTANTS
  Addrs,      \* page addresses outside the arena
  Threads,
  MaxSlots,   \* kTrackMaxPages
  MayRemap,   \* mremap, or mmap(MAP_FIXED) over a mapping, is called
  MaxMaps,    \* bound: mappings made in all
  NoAddr      \* a null address, and no page

VARIABLES
  mapped,     \* the addresses that are mapped
  open,       \* the mapped pages the application can access
  mem,        \* what is in memory at an address: a stamp, or 0 (fresh)
  written,    \* history: the stamp the application last wrote there
  refused,    \* history: the mapped pages whose munmap failed
  key,        \* track_hash_: the addresses whose key is in the table
  idx,        \* track_hash_: the index published for a key, 0 before
  slotNext,   \* external_slot_next_
  count,      \* external_count_
  reverse,    \* track_reverse_
  state,      \* page_states, by index
  lock,       \* page_locks, by index: the holder, or NoAddr
  blob,       \* the compressed contents, by index
  pc, arg, to, slot,  \* per thread: where it is, and its arguments
  wpc, wi, waddr, wbuf, \* the worker: where it is, its page, its snapshot
  maps,       \* mappings made so far
  bad         \* history: the worker touched an unmapped page

kernel == <<mapped, open, mem, written, refused>>
table == <<key, idx, slotNext, count, reverse>>
pages == <<state, lock, blob>>
app == <<pc, arg, to, slot>>
worker == <<wpc, wi, waddr, wbuf>>
vars == <<kernel, table, pages, app, worker, maps, bad>>

Indices == 1..MaxSlots
Stamps == 0..MaxMaps

TypeOK ==
  /\ mapped \subseteq Addrs /\ open \subseteq mapped /\ refused \subseteq mapped
  /\ mem \in [Addrs -> Stamps] /\ written \in [Addrs -> Stamps]
  /\ key \subseteq Addrs /\ idx \in [Addrs -> 0..MaxSlots]
  /\ slotNext \in 0..MaxSlots + MaxMaps /\ count \in 0..MaxSlots
  /\ reverse \in [Indices -> Addrs \cup {NoAddr}]
  /\ state \in [Indices -> {"EMPTY", "ACTIVE", "COMPRESSING", "COMPRESSED"}]
  /\ lock \in [Indices -> Threads \cup {"worker", NoAddr}]
  /\ blob \in [Indices -> Stamps]
  /\ pc \in [Threads -> {"idle", "track", "claimed", "reserved", "reversed",
                         "published", "counted", "lookup", "locked", "unmap",
                         "remapped"}]
  /\ arg \in [Threads -> Addrs \cup {NoAddr}]
  /\ to \in [Threads -> Addrs \cup {NoAddr}]
  /\ slot \in [Threads -> 0..MaxSlots]
  /\ wpc \in {"idle", "locked", "snapshot", "finish", "reclaim"}
  /\ wi \in 0..MaxSlots /\ waddr \in Addrs \cup {NoAddr} /\ wbuf \in Stamps
  /\ maps \in 0..MaxMaps /\ bad \in BOOLEAN

Init ==
  /\ mapped = {} /\ open = {} /\ refused = {}
  /\ mem = [a \in Addrs |-> 0] /\ written = [a \in Addrs |-> 0]
  /\ key = {} /\ idx = [a \in Addrs |-> 0]
  /\ slotNext = 0 /\ count = 0
  /\ reverse = [i \in Indices |-> NoAddr]
  /\ state = [i \in Indices |-> "EMPTY"]
  /\ lock = [i \in Indices |-> NoAddr]
  /\ blob = [i \in Indices |-> 0]
  /\ pc = [t \in Threads |-> "idle"] /\ arg = [t \in Threads |-> NoAddr]
  /\ to = [t \in Threads |-> NoAddr] /\ slot = [t \in Threads |-> 0]
  /\ wpc = "idle" /\ wi = 0 /\ waddr = NoAddr /\ wbuf = 0
  /\ maps = 0 /\ bad = FALSE

Goto(t, place) == pc' = [pc EXCEPT ![t] = place]
Done(t) ==
  /\ Goto(t, "idle")
  /\ arg' = [arg EXCEPT ![t] = NoAddr]
  /\ to' = [to EXCEPT ![t] = NoAddr]
  /\ slot' = [slot EXCEPT ![t] = 0]

\* No other thread is at work on an address (the application owns it).
Free(t, a) == \A u \in Threads \ {t} : a \notin {arg[u], to[u]}

-----------------------------------------------------------------------------
(* mmap, mach_vm_allocate: the kernel first, then trackExternalPage.       *)

Mmap(t, a) ==
  /\ pc[t] = "idle" /\ maps < MaxMaps
  /\ (a \in mapped => MayRemap) /\ Free(t, a)
  /\ maps' = maps + 1
  /\ mapped' = mapped \cup {a} /\ open' = open \cup {a} /\ refused' = refused \ {a}
  /\ mem' = [mem EXCEPT ![a] = 0] /\ written' = [written EXCEPT ![a] = 0]
  /\ arg' = [arg EXCEPT ![t] = a]
  /\ Goto(t, "track")
  /\ UNCHANGED <<table, pages, to, slot, worker, bad>>

\* No slot left, or the key is there and has its index (0: it never got one).
TrackEnd(t) ==
  /\ pc[t] = "track"
  /\ \/ /\ slotNext >= MaxSlots
        /\ UNCHANGED state
     \/ /\ slotNext < MaxSlots /\ arg[t] \in key
        /\ state' = IF idx[arg[t]] = 0 THEN state
                    ELSE [state EXCEPT ![idx[arg[t]]] = "ACTIVE"]
  /\ Done(t)
  /\ UNCHANGED <<kernel, table, lock, blob, worker, maps, bad>>

ClaimKey(t) ==
  /\ pc[t] = "track"
  /\ slotNext < MaxSlots /\ arg[t] \notin key
  /\ key' = key \cup {arg[t]}
  /\ idx' = [idx EXCEPT ![arg[t]] = 0]
  /\ Goto(t, "claimed")
  /\ UNCHANGED <<kernel, slotNext, count, reverse, pages, arg, to, slot, worker,
                 maps, bad>>

ReserveSlot(t) ==
  /\ pc[t] = "claimed"
  /\ slotNext' = slotNext + 1
  /\ IF slotNext >= MaxSlots THEN Done(t)
     ELSE /\ slot' = [slot EXCEPT ![t] = slotNext + 1]
          /\ Goto(t, "reserved")
          /\ UNCHANGED <<arg, to>>
  /\ UNCHANGED <<kernel, key, idx, count, reverse, pages, worker, maps, bad>>

WriteReverse(t) ==
  /\ pc[t] = "reserved"
  /\ reverse' = [reverse EXCEPT ![slot[t]] = arg[t]]
  /\ Goto(t, "reversed")
  /\ UNCHANGED <<kernel, key, idx, slotNext, count, pages, arg, to, slot, worker,
                 maps, bad>>

PublishIdx(t) ==
  /\ pc[t] = "reversed"
  /\ idx' = [idx EXCEPT ![arg[t]] = slot[t]]
  /\ Goto(t, "published")
  /\ UNCHANGED <<kernel, key, slotNext, count, reverse, pages, arg, to, slot,
                 worker, maps, bad>>

CountSlot(t) ==
  /\ pc[t] = "published"
  /\ count' = count + 1
  /\ Goto(t, "counted")
  /\ UNCHANGED <<kernel, key, idx, slotNext, reverse, pages, arg, to, slot,
                 worker, maps, bad>>

\* registerExternalRange: page_states->set(idx, ACTIVE).
SetActive(t) ==
  /\ pc[t] = "counted"
  /\ state' = [state EXCEPT ![slot[t]] = "ACTIVE"]
  /\ Done(t)
  /\ UNCHANGED <<kernel, table, lock, blob, worker, maps, bad>>

-----------------------------------------------------------------------------
(* munmap, mach_vm_deallocate: untrackExternalPageLocked, then the kernel. *)

Munmap(t, a) ==
  /\ pc[t] = "idle" /\ a \in mapped /\ Free(t, a)
  /\ arg' = [arg EXCEPT ![t] = a]
  /\ Goto(t, "lookup")
  /\ UNCHANGED <<kernel, table, pages, to, slot, worker, maps, bad>>

\* untrackExternalPage: as below, without waiting for the page's lock.
LockPageMutant(t) ==
  /\ pc[t] = "lookup"
  /\ LET i == IF arg[t] \in key THEN idx[arg[t]] ELSE 0 IN
     IF i = 0
     THEN Goto(t, "unmap") /\ UNCHANGED slot
     ELSE Goto(t, "locked") /\ slot' = [slot EXCEPT ![t] = i]
  /\ UNCHANGED <<kernel, table, pages, arg, to, worker, maps, bad>>

\* pageIndex, then the page's lock.
LockPage(t) ==
  /\ pc[t] = "lookup"
  /\ LET i == IF arg[t] \in key THEN idx[arg[t]] ELSE 0 IN
     IF i = 0
     THEN Goto(t, "unmap") /\ UNCHANGED <<lock, slot>>
     ELSE /\ lock[i] = NoAddr
          /\ lock' = [lock EXCEPT ![i] = t]
          /\ slot' = [slot EXCEPT ![t] = i]
          /\ Goto(t, "locked")
  /\ UNCHANGED <<kernel, table, state, blob, arg, to, worker, maps, bad>>

\* The state, the tombstone (which a later key never replaces) and the reverse
\* entry, then the lock.  The blob stays behind.
Untrack(t) ==
  /\ pc[t] = "locked"
  /\ state' = [state EXCEPT ![slot[t]] = "EMPTY"]
  /\ key' = key \ {arg[t]}
  /\ reverse' = [reverse EXCEPT ![slot[t]] = NoAddr]
  /\ lock' = [lock EXCEPT ![slot[t]] = NoAddr]
  /\ Goto(t, "unmap")
  /\ UNCHANGED <<kernel, idx, slotNext, count, blob, arg, to, slot, worker, maps,
                 bad>>

\* The kernel's munmap; after mremap the page is gone already and the new
\* address is tracked in its turn.
Unmap(t) ==
  /\ pc[t] = "unmap"
  /\ IF to[t] = NoAddr
     THEN /\ mapped' = mapped \ {arg[t]} /\ open' = open \ {arg[t]}
          /\ refused' = refused \ {arg[t]}
          /\ Done(t)
     ELSE /\ Goto(t, "track")
          /\ arg' = [arg EXCEPT ![t] = to[t]]
          /\ to' = [to EXCEPT ![t] = NoAddr]
          /\ slot' = [slot EXCEPT ![t] = 0]
          /\ UNCHANGED <<mapped, open, refused>>
  /\ UNCHANGED <<mem, written, table, pages, worker, maps, bad>>

\* The kernel refuses: the page stays as it is, and is no longer tracked.
UnmapRefused(t) ==
  /\ pc[t] = "unmap" /\ to[t] = NoAddr
  /\ refused' = refused \cup {arg[t]}
  /\ Done(t)
  /\ UNCHANGED <<mapped, open, mem, written, table, pages, worker, maps, bad>>

\* mremap that moves: the kernel takes the pages, protections and all, to the
\* new address before anything is untracked.
Mremap(t, a, b) ==
  /\ MayRemap
  /\ pc[t] = "idle" /\ maps < MaxMaps
  /\ a \in mapped /\ b \notin mapped /\ Free(t, a) /\ Free(t, b)
  /\ maps' = maps + 1
  /\ mapped' = (mapped \ {a}) \cup {b}
  /\ open' = (open \ {a}) \cup (IF a \in open THEN {b} ELSE {})
  /\ refused' = (refused \ {a}) \cup (IF a \in refused THEN {b} ELSE {})
  /\ mem' = [mem EXCEPT ![b] = mem[a]]
  /\ written' = [written EXCEPT ![b] = written[a]]
  /\ arg' = [arg EXCEPT ![t] = a] /\ to' = [to EXCEPT ![t] = b]
  /\ Goto(t, "lookup")
  /\ UNCHANGED <<table, pages, slot, worker, bad>>

-----------------------------------------------------------------------------
(* The application's accesses.                                             *)

Store(t, a) ==
  /\ pc[t] = "idle" /\ a \in open /\ Free(t, a)
  /\ written[a] < maps
  /\ written' = [written EXCEPT ![a] = maps]
  /\ mem' = [mem EXCEPT ![a] = maps]
  /\ UNCHANGED <<mapped, open, refused, table, pages, app, worker, maps, bad>>

\* A fault on a closed page: restored under the page's lock, or found open.
Fault(t, a) ==
  /\ pc[t] = "idle" /\ a \in mapped \ open /\ Free(t, a)
  /\ a \in key /\ idx[a] # 0
  /\ lock[idx[a]] = NoAddr
  /\ open' = open \cup {a}
  /\ IF state[idx[a]] = "COMPRESSED"
     THEN /\ mem' = [mem EXCEPT ![a] = blob[idx[a]]]
          /\ state' = [state EXCEPT ![idx[a]] = "ACTIVE"]
     ELSE UNCHANGED <<mem, state>>
  /\ UNCHANGED <<mapped, written, refused, table, lock, blob, app, worker, maps, bad>>

-----------------------------------------------------------------------------
(* The compressor's worker, for an index below committedPages().           *)

WorkerLock(i) ==
  /\ wpc = "idle" /\ i <= count
  /\ lock[i] = NoAddr
  /\ \/ /\ state[i] = "ACTIVE"
        /\ state' = [state EXCEPT ![i] = "COMPRESSING"]
        /\ wpc' = "locked"
        /\ UNCHANGED waddr
     \/ /\ state[i] = "COMPRESSED"
        /\ wpc' = "reclaim"
        /\ waddr' = reverse[i]
        /\ UNCHANGED state
  /\ lock' = [lock EXCEPT ![i] = "worker"]
  /\ wi' = i
  /\ UNCHANGED <<kernel, table, blob, app, wbuf, maps, bad>>

WorkerEnd ==
  /\ wpc' = "idle" /\ wi' = 0 /\ waddr' = NoAddr /\ wbuf' = 0
  /\ lock' = [lock EXCEPT ![wi] = NoAddr]

\* pageAddress(page_idx), null once untracked.
WorkerAddress ==
  /\ wpc = "locked"
  /\ LET gone == reverse[wi] = NoAddr IN
     /\ state' = IF gone THEN [state EXCEPT ![wi] = "EMPTY"] ELSE state
     /\ lock' = IF gone THEN [lock EXCEPT ![wi] = NoAddr] ELSE lock
     /\ wi' = IF gone THEN 0 ELSE wi
     /\ wpc' = IF gone THEN "idle" ELSE "snapshot"
  /\ waddr' = reverse[wi]
  /\ open' = open \ {reverse[wi]}
  /\ UNCHANGED <<mapped, mem, written, refused, table, blob, app, wbuf, maps, bad>>

Snapshot ==
  /\ wpc = "snapshot"
  /\ bad' = (bad \/ waddr \notin mapped)
  /\ wbuf' = mem[waddr]
  /\ wpc' = "finish"
  /\ UNCHANGED <<kernel, table, pages, app, wi, waddr, maps>>

\* Stored, or given up and opened again.
WorkerFinish ==
  /\ wpc = "finish"
  /\ \/ /\ state' = [state EXCEPT ![wi] = "COMPRESSED"]
        /\ blob' = [blob EXCEPT ![wi] = wbuf]
        /\ UNCHANGED open
     \/ /\ state' = [state EXCEPT ![wi] = "ACTIVE"]
        /\ open' = open \cup ({waddr} \cap mapped)
        /\ UNCHANGED blob
  /\ WorkerEnd
  /\ UNCHANGED <<mapped, mem, written, refused, table, app, maps, bad>>

\* sweepDeferredMadvise: the memory of a compressed page goes back.
Reclaim ==
  /\ wpc = "reclaim"
  /\ bad' = (bad \/ waddr \notin mapped)
  /\ mem' = [mem EXCEPT ![waddr] = 0]
  /\ open' = open \ {waddr}
  /\ WorkerEnd
  /\ UNCHANGED <<mapped, written, refused, table, state, blob, app, maps>>

-----------------------------------------------------------------------------

Next ==
  \/ \E t \in Threads :
       \/ TrackEnd(t) \/ ClaimKey(t) \/ ReserveSlot(t) \/ WriteReverse(t)
       \/ PublishIdx(t) \/ CountSlot(t) \/ SetActive(t)
       \/ LockPage(t) \/ Untrack(t) \/ Unmap(t) \/ UnmapRefused(t)
       \/ \E a \in Addrs : \/ Mmap(t, a) \/ Munmap(t, a)
                           \/ Store(t, a) \/ Fault(t, a)
                           \/ \E b \in Addrs : Mremap(t, a, b)
  \/ \E i \in Indices : WorkerLock(i)
  \/ WorkerAddress \/ Snapshot \/ WorkerFinish \/ Reclaim

Spec == Init /\ [][Next]_vars

-----------------------------------------------------------------------------

\* A mapping keeps its data and the compressor stays inside it.  A worker never
\* reads or gives back a page the application has unmapped: munmap untracks under
\* the lock the worker holds, before the kernel's munmap.  And a mapped page the
\* application may touch holds what it last wrote there, in memory if it is open,
\* and if not under the index its address now has, never in what an earlier
\* mapping of the address left behind (untrackExternalPageLocked).  The exception
\* is a page the kernel refused to unmap: the wrapper has untracked it by then,
\* so if it was compressed its contents are out of reach.
MappingsIntact ==
  /\ ~bad
  /\ \A a \in mapped :
       (\A t \in Threads : a # arg[t]) =>
         IF a \in open THEN mem[a] = written[a]
         ELSE a \notin refused =>
              /\ a \in key /\ idx[a] # 0
              /\ (lock[idx[a]] = NoAddr /\ state[idx[a]] = "COMPRESSED"
                    => blob[idx[a]] = written[a])
              /\ (state[idx[a]] = "ACTIVE" => mem[a] = written[a])

\* An address and an index name each other: the reverse entry of a slot leads to
\* a key that leads back to the slot, but for the page a thread is entering or
\* taking out; and an index in use by the compressor has an address
\* (trackExternalPage, untrackExternalPageLocked).
IndexAndAddressAgree ==
  \A i \in Indices :
    /\ (reverse[i] # NoAddr /\ \A t \in Threads : arg[t] # reverse[i])
         => reverse[i] \in key /\ idx[reverse[i]] = i
    /\ state[i] # "EMPTY" => reverse[i] # NoAddr

=============================================================================
