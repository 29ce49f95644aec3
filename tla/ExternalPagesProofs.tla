------------------------- MODULE ExternalPagesProofs ------------------------
(***************************************************************************)
(* Pages the application maps itself, for any number of addresses, threads *)
(* and slots.                                                              *)
(***************************************************************************)
EXTENDS ExternalPages, TLAPS

\* The names the constants stand for are told apart.
Named ==
  /\ MaxSlots \in Nat /\ MaxMaps \in Nat
  /\ NoAddr \notin Addrs /\ NoAddr \notin Threads
  /\ "worker" \notin Threads /\ NoAddr # "worker"

\* The types a step relies on.  The counters are only natural numbers here:
\* their bounds count mappings, which no step needs to know.
TypeInv ==
  /\ mapped \subseteq Addrs /\ open \subseteq mapped
  /\ mem \in [Addrs -> Nat] /\ written \in [Addrs -> Nat]
  /\ key \subseteq Addrs /\ idx \in [Addrs -> 0..MaxSlots]
  /\ slotNext \in Nat /\ count \in Nat
  /\ reverse \in [Indices -> Addrs \cup {NoAddr}]
  /\ state \in [Indices -> {"EMPTY", "ACTIVE", "COMPRESSING", "COMPRESSED"}]
  /\ lock \in [Indices -> Threads \cup {"worker", NoAddr}]
  /\ blob \in [Indices -> Nat]
  /\ pc \in [Threads -> {"idle", "track", "claimed", "reserved", "reversed",
                         "published", "counted", "lookup", "locked", "unmap",
                         "remapped"}]
  /\ arg \in [Threads -> Addrs \cup {NoAddr}]
  /\ to \in [Threads -> Addrs \cup {NoAddr}]
  /\ slot \in [Threads -> 0..MaxSlots]
  /\ wpc \in {"idle", "locked", "snapshot", "finish", "reclaim"}
  /\ wi \in 0..MaxSlots /\ waddr \in Addrs \cup {NoAddr} /\ wbuf \in Nat
  /\ maps \in Nat /\ bad \in BOOLEAN

\* Where a thread owns a slot that nobody else can know of yet.
Entering == {"reserved", "reversed", "published", "counted"}

\* An address is one thread's business at a time.
ThreadInv ==
  \A t \in Threads :
    /\ pc[t] # "idle" => arg[t] \in Addrs
    /\ pc[t] = "idle" => arg[t] = NoAddr
    /\ to[t] # NoAddr => pc[t] \in {"lookup", "locked", "unmap"} /\ to[t] # arg[t]
    /\ \A u \in Threads \ {t} :
         /\ arg[t] # NoAddr => arg[t] # arg[u] /\ arg[t] # to[u]
         /\ to[t] # NoAddr => to[t] # to[u]

\* A slot has one user: the thread that enters its page, the thread that holds
\* its lock to take the page out, or the worker.
SlotInv ==
  /\ \A t \in Threads :
       /\ pc[t] \in Entering \cup {"locked"} => slot[t] \in Indices
       /\ pc[t] \in Entering => slot[t] <= slotNext
       /\ \A u \in Threads \ {t} :
            pc[t] \in Entering /\ pc[u] \in Entering => slot[t] # slot[u]
       /\ pc[t] = "locked" => lock[slot[t]] = t
  /\ wpc # "idle" => wi \in Indices /\ lock[wi] = "worker"
  /\ \A i \in Indices :
       i > slotNext => /\ reverse[i] = NoAddr /\ state[i] = "EMPTY" /\ lock[i] = NoAddr
                       /\ \A a \in key : idx[a] # i

\* The table of addresses and the table of indices.
TableInv ==
  /\ \A a \in key : idx[a] # 0 => reverse[idx[a]] = a
  /\ \A i \in Indices :
       reverse[i] # NoAddr =>
         \/ reverse[i] \in key /\ idx[reverse[i]] = i
         \/ \E t \in Threads : pc[t] = "reversed" /\ slot[t] = i /\ arg[t] = reverse[i]
  /\ \A t \in Threads :
       /\ pc[t] \in {"claimed", "reserved", "reversed"} => arg[t] \in key /\ idx[arg[t]] = 0
       /\ pc[t] \in {"published", "counted", "locked"} => arg[t] \in key /\ idx[arg[t]] = slot[t]
       /\ pc[t] = "reserved" => reverse[slot[t]] = NoAddr
       /\ pc[t] = "reversed" => reverse[slot[t]] = arg[t]
       /\ pc[t] = "unmap" => arg[t] \notin key \/ idx[arg[t]] = 0

\* The states of slots, and the page the worker is at.
StateInv ==
  /\ \A i \in Indices : state[i] # "EMPTY" => reverse[i] # NoAddr
  /\ wpc \in {"locked", "snapshot", "finish"} => state[wi] # "EMPTY"
  /\ wpc = "reclaim" => state[wi] # "EMPTY"
  /\ wpc \in {"snapshot", "finish", "reclaim"} => waddr = reverse[wi]

IndexInv == TypeInv /\ ThreadInv /\ SlotInv /\ TableInv /\ StateInv

-----------------------------------------------------------------------------
(* The steps, one branch of the code at a time.                            *)

\* trackExternalPage returns: no slot left, or the key never got its index.
TrackNothing(t) ==
  /\ pc[t] = "track"
  /\ Done(t)
  /\ UNCHANGED <<kernel, table, pages, worker, maps, bad>>

\* trackExternalPage finds the page tracked already.
TrackAgain(t) ==
  /\ pc[t] = "track" /\ arg[t] \in key /\ idx[arg[t]] # 0
  /\ state' = [state EXCEPT ![idx[arg[t]]] = "ACTIVE"]
  /\ Done(t)
  /\ UNCHANGED <<kernel, table, lock, blob, worker, maps, bad>>

\* The last slot went to another thread, or this thread gets one.
SlotsGone(t) ==
  /\ pc[t] = "claimed"
  /\ slotNext' = slotNext + 1
  /\ Done(t)
  /\ UNCHANGED <<kernel, key, idx, count, reverse, pages, worker, maps, bad>>

SlotTaken(t) ==
  /\ pc[t] = "claimed" /\ slotNext < MaxSlots
  /\ slotNext' = slotNext + 1
  /\ slot' = [slot EXCEPT ![t] = slotNext + 1]
  /\ Goto(t, "reserved")
  /\ UNCHANGED <<kernel, key, idx, count, reverse, pages, arg, to, worker, maps,
                 bad>>

\* The address to untrack has no index, or its lock is taken.
NotTracked(t) ==
  /\ pc[t] = "lookup" /\ (arg[t] \notin key \/ idx[arg[t]] = 0)
  /\ Goto(t, "unmap")
  /\ UNCHANGED <<kernel, table, pages, arg, to, slot, worker, maps, bad>>

Locked(t) ==
  /\ pc[t] = "lookup" /\ arg[t] \in key /\ idx[arg[t]] # 0
  /\ lock[idx[arg[t]]] = NoAddr
  /\ lock' = [lock EXCEPT ![idx[arg[t]]] = t]
  /\ slot' = [slot EXCEPT ![t] = idx[arg[t]]]
  /\ Goto(t, "locked")
  /\ UNCHANGED <<kernel, table, state, blob, arg, to, worker, maps, bad>>

\* munmap ends, or mremap goes on to track the new address.
Unmapped(t) ==
  /\ pc[t] = "unmap" /\ to[t] = NoAddr
  /\ mapped' = mapped \ {arg[t]} /\ open' = open \ {arg[t]}
  /\ refused' = refused \ {arg[t]}
  /\ Done(t)
  /\ UNCHANGED <<mem, written, table, pages, worker, maps, bad>>

Moved(t) ==
  /\ pc[t] = "unmap" /\ to[t] # NoAddr
  /\ Goto(t, "track")
  /\ arg' = [arg EXCEPT ![t] = to[t]]
  /\ to' = [to EXCEPT ![t] = NoAddr]
  /\ slot' = [slot EXCEPT ![t] = 0]
  /\ UNCHANGED <<kernel, table, pages, worker, maps, bad>>

\* A fault restores the page, or finds it restored.
Restored(t, a) ==
  /\ pc[t] = "idle" /\ a \in mapped /\ Free(t, a) /\ a \in key /\ idx[a] # 0
  /\ lock[idx[a]] = NoAddr /\ state[idx[a]] = "COMPRESSED"
  /\ open' = open \cup {a}
  /\ mem' = [mem EXCEPT ![a] = blob[idx[a]]]
  /\ state' = [state EXCEPT ![idx[a]] = "ACTIVE"]
  /\ UNCHANGED <<mapped, written, refused, table, lock, blob, app, worker, maps, bad>>

FoundOpen(t, a) ==
  /\ pc[t] = "idle" /\ a \in mapped \ open /\ Free(t, a) /\ a \in key /\ idx[a] # 0
  /\ lock[idx[a]] = NoAddr /\ state[idx[a]] # "COMPRESSED"
  /\ open' = open \cup {a}
  /\ UNCHANGED <<mapped, mem, written, refused, table, pages, app, worker, maps, bad>>

\* The worker begins with a page it compresses, or one it reclaims.
BeginCompress(i) ==
  /\ wpc = "idle" /\ lock[i] = NoAddr /\ state[i] = "ACTIVE"
  /\ state' = [state EXCEPT ![i] = "COMPRESSING"]
  /\ lock' = [lock EXCEPT ![i] = "worker"]
  /\ wpc' = "locked" /\ wi' = i
  /\ UNCHANGED <<kernel, table, blob, app, waddr, wbuf, maps, bad>>

BeginReclaim(i) ==
  /\ wpc = "idle" /\ lock[i] = NoAddr /\ state[i] = "COMPRESSED"
  /\ lock' = [lock EXCEPT ![i] = "worker"]
  /\ wpc' = "reclaim" /\ wi' = i /\ waddr' = reverse[i]
  /\ UNCHANGED <<kernel, table, state, blob, app, wbuf, maps, bad>>

\* The page is stored, or opened again.
Stored ==
  /\ wpc = "finish"
  /\ state' = [state EXCEPT ![wi] = "COMPRESSED"]
  /\ blob' = [blob EXCEPT ![wi] = wbuf]
  /\ WorkerEnd
  /\ UNCHANGED <<kernel, table, app, maps, bad>>

GivenUp ==
  /\ wpc = "finish"
  /\ state' = [state EXCEPT ![wi] = "ACTIVE"]
  /\ open' = open \cup ({waddr} \cap mapped)
  /\ WorkerEnd
  /\ UNCHANGED <<mapped, mem, written, refused, table, blob, app, maps, bad>>

\* mmap enters a page, munmap and mremap take one out, the application uses
\* its pages and the worker compresses them.
TrackStep ==
  \E t \in Threads :
    \/ TrackNothing(t) \/ TrackAgain(t) \/ ClaimKey(t)
    \/ SlotsGone(t) \/ SlotTaken(t) \/ WriteReverse(t)
    \/ PublishIdx(t) \/ CountSlot(t) \/ SetActive(t)
    \/ \E a \in Addrs : Mmap(t, a)

UntrackStep ==
  \E t \in Threads :
    \/ NotTracked(t) \/ Locked(t) \/ Untrack(t)
    \/ Unmapped(t) \/ UnmapRefused(t) \/ Moved(t)
    \/ \E a \in Addrs : Munmap(t, a) \/ \E b \in Addrs : Mremap(t, a, b)

UseStep ==
  \/ \E t \in Threads, a \in Addrs : Store(t, a) \/ Restored(t, a) \/ FoundOpen(t, a)
  \/ \E i \in Indices : BeginCompress(i) \/ BeginReclaim(i)
  \/ WorkerAddress \/ Snapshot \/ Stored \/ GivenUp \/ Reclaim

\* Every step takes one of the branches.
LEMMA Branches == ASSUME Named, TypeInv, Next PROVE TrackStep \/ UntrackStep \/ UseStep
<1> USE DEF kernel, table, pages, app, worker
<1>1. ASSUME NEW t \in Threads, TrackEnd(t) PROVE TrackNothing(t) \/ TrackAgain(t)
  BY <1>1, Zenon DEF TrackEnd, TrackNothing, TrackAgain
<1>2. ASSUME NEW t \in Threads, ReserveSlot(t) PROVE SlotsGone(t) \/ SlotTaken(t)
  BY <1>2 DEF Named, TypeInv, ReserveSlot, SlotsGone, SlotTaken, Done
<1>3. ASSUME NEW t \in Threads, LockPage(t) PROVE NotTracked(t) \/ Locked(t)
  BY <1>3, Zenon DEF LockPage, NotTracked, Locked
<1>4. ASSUME NEW t \in Threads, Unmap(t) PROVE Unmapped(t) \/ Moved(t)
  BY <1>4, Zenon DEF Unmap, Unmapped, Moved
<1>5. ASSUME NEW t \in Threads, NEW a \in Addrs, Fault(t, a)
      PROVE  Restored(t, a) \/ FoundOpen(t, a)
  BY <1>5, Zenon DEF Fault, Restored, FoundOpen
<1>6. ASSUME NEW i \in Indices, WorkerLock(i) PROVE BeginCompress(i) \/ BeginReclaim(i)
  BY <1>6, Zenon DEF WorkerLock, BeginCompress, BeginReclaim
<1>7. ASSUME WorkerFinish PROVE Stored \/ GivenUp
  BY <1>7, Zenon DEF WorkerFinish, Stored, GivenUp
<1> QED
  BY <1>1, <1>2, <1>3, <1>4, <1>5, <1>6, <1>7, Zenon
     DEF Next, TrackStep, UntrackStep, UseStep

\* The index of an address is one of the table's, and its own.
LEMMA IndexRange ==
  ASSUME Named, TypeInv
  PROVE  0 \notin Indices /\ \A a \in key : idx[a] # 0 => idx[a] \in Indices
BY DEF Named, TypeInv, Indices

LEMMA OwnIndex ==
  ASSUME Named, TypeInv, TableInv, NEW a \in key, idx[a] # 0
  PROVE  \A b \in key : idx[b] # 0 /\ b # a => idx[b] # idx[a]
BY ZenonT(40) DEF TableInv

\* The next slot is one of the table's as long as there is one.
LEMMA NextSlot ==
  ASSUME Named, TypeInv, slotNext < MaxSlots
  PROVE  slotNext + 1 \in Indices /\ slotNext + 1 > slotNext
BY DEF Named, TypeInv, Indices

\* The page the worker is at.
LEMMA WorkerAt ==
  ASSUME Named, IndexInv, wpc \in {"snapshot", "finish", "reclaim"}
  PROVE  /\ wi \in Indices /\ lock[wi] = "worker" /\ state[wi] # "EMPTY"
         /\ waddr = reverse[wi] /\ waddr \in Addrs
<1>1. wi \in Indices /\ lock[wi] = "worker" /\ state[wi] # "EMPTY" /\ waddr = reverse[wi]
  BY Zenon DEF IndexInv, SlotInv, StateInv
<1>2. reverse[wi] # NoAddr
  BY <1>1, Zenon DEF IndexInv, StateInv
<1> QED
  BY <1>1, <1>2, Zenon DEF IndexInv, TypeInv

-----------------------------------------------------------------------------
(* The tables.                                                             *)

\* The initial states.
LEMMA IndexInit == ASSUME Named, Init PROVE IndexInv
<1>1. TypeInv
  <2>1. 0 \in Nat /\ 0 \in 0..MaxSlots
    BY DEF Named
  <2>2. /\ mapped \subseteq Addrs /\ open \subseteq mapped /\ key \subseteq Addrs
        /\ mem \in [Addrs -> Nat] /\ written \in [Addrs -> Nat]
        /\ idx \in [Addrs -> 0..MaxSlots] /\ blob \in [Indices -> Nat]
        /\ slot \in [Threads -> 0..MaxSlots]
    BY <2>1, Zenon DEF Init
  <2>3. /\ reverse \in [Indices -> Addrs \cup {NoAddr}]
        /\ lock \in [Indices -> Threads \cup {"worker", NoAddr}]
        /\ arg \in [Threads -> Addrs \cup {NoAddr}]
        /\ to \in [Threads -> Addrs \cup {NoAddr}]
    BY Zenon DEF Init
  <2> QED
    BY <2>1, <2>2, <2>3, Zenon DEF Init, TypeInv
<1>2. ThreadInv /\ SlotInv /\ TableInv /\ StateInv
  BY Zenon DEF Named, Init, ThreadInv, SlotInv, TableInv, StateInv, Entering, Indices
<1> QED
  BY <1>1, <1>2, Zenon DEF IndexInv

\* Every step keeps the types, when a page is entered.
LEMMA TypeTrack ==
  ASSUME Named, IndexInv, TrackStep PROVE TypeInv'
<1> USE DEF Named, Indices, kernel, table, pages, app, worker
<1>0. TypeInv /\ ThreadInv /\ SlotInv /\ TableInv /\ StateInv
  BY Zenon DEF IndexInv
<1>1. ASSUME NEW t \in Threads, NEW a \in Addrs, Mmap(t, a) PROVE TypeInv'
  BY <1>0, <1>1, SMT, SMTT(30) DEF TypeInv, Mmap, Goto, Free
<1>2. ASSUME NEW t \in Threads, TrackNothing(t) PROVE TypeInv'
  BY <1>0, <1>2, SMT, SMTT(30) DEF TypeInv, TrackNothing, Done, Goto
<1>3. ASSUME NEW t \in Threads, TrackAgain(t) PROVE TypeInv'
  BY <1>0, <1>3, SMT, SMTT(30) DEF TypeInv, TrackAgain, Done, Goto
<1>4. ASSUME NEW t \in Threads, ClaimKey(t) PROVE TypeInv'
  BY <1>0, <1>4, SMT, SMTT(30) DEF TypeInv, ThreadInv, ClaimKey, Goto
<1>5. ASSUME NEW t \in Threads, SlotsGone(t) PROVE TypeInv'
  BY <1>0, <1>5, SMT, SMTT(30) DEF TypeInv, SlotInv, Entering, SlotsGone, Goto, Done
<1>6. ASSUME NEW t \in Threads, SlotTaken(t) PROVE TypeInv'
  BY <1>0, <1>6, SMT, SMTT(30) DEF TypeInv, SlotInv, Entering, SlotTaken, Goto
<1>7. ASSUME NEW t \in Threads, WriteReverse(t) PROVE TypeInv'
  BY <1>0, <1>7, ZenonT(40) DEF TypeInv, SlotInv, Entering, ThreadInv, WriteReverse, Goto
<1>8. ASSUME NEW t \in Threads, PublishIdx(t) PROVE TypeInv'
  BY <1>0, <1>8, Zenon DEF TypeInv, SlotInv, Entering, ThreadInv, PublishIdx, Goto
<1>9. ASSUME NEW t \in Threads, CountSlot(t) PROVE TypeInv'
  BY <1>0, <1>9, SMT, SMTT(30) DEF TypeInv, CountSlot, Goto
<1>10. ASSUME NEW t \in Threads, SetActive(t) PROVE TypeInv'
  BY <1>0, <1>10, SMT, SMTT(30) DEF TypeInv, SlotInv, Entering, SetActive, Done, Goto
<1> QED
  BY <1>1, <1>2, <1>3, <1>4, <1>5, <1>6, <1>7, <1>8, <1>9, <1>10, Zenon DEF TrackStep

\* Every step keeps the types, when one is taken out.
LEMMA TypeUntrack ==
  ASSUME Named, IndexInv, UntrackStep PROVE TypeInv'
<1> USE DEF Named, Indices, kernel, table, pages, app, worker
<1>0. TypeInv /\ ThreadInv /\ SlotInv /\ TableInv /\ StateInv
  BY Zenon DEF IndexInv
<1>1. ASSUME NEW t \in Threads, NEW a \in Addrs, Munmap(t, a) PROVE TypeInv'
  BY <1>0, <1>1, ZenonT(40) DEF TypeInv, Munmap, Goto, Free
<1>2. ASSUME NEW t \in Threads, NotTracked(t) PROVE TypeInv'
  BY <1>0, <1>2, Zenon DEF TypeInv, NotTracked, Goto
<1>3. ASSUME NEW t \in Threads, Locked(t) PROVE TypeInv'
  BY <1>0, <1>3, Zenon DEF TypeInv, Locked, Goto
<1>4. ASSUME NEW t \in Threads, Untrack(t) PROVE TypeInv'
  BY <1>0, <1>4, Zenon DEF TypeInv, SlotInv, Entering, Untrack, Goto
<1>5. ASSUME NEW t \in Threads, Unmapped(t) PROVE TypeInv'
  BY <1>0, <1>5, SMT, SMTT(30) DEF TypeInv, ThreadInv, Unmapped, Goto, Done
<1>6. ASSUME NEW t \in Threads, Moved(t) PROVE TypeInv'
  <2>1. to[t] \in Addrs /\ 0 \in 0..MaxSlots
    BY <1>0, <1>6 DEF Moved, TypeInv
  <2>2. /\ arg' \in [Threads -> Addrs \cup {NoAddr}]
        /\ to' \in [Threads -> Addrs \cup {NoAddr}]
        /\ slot' \in [Threads -> 0..MaxSlots]
    BY <1>0, <1>6, <2>1, Zenon DEF Moved, TypeInv
  <2>3. /\ pc' = [pc EXCEPT ![t] = "track"]
        /\ UNCHANGED <<kernel, table, pages, worker, maps, bad>>
    BY <1>6, Zenon DEF Moved, Goto
  <2> QED
    BY <1>0, <2>2, <2>3, Zenon DEF TypeInv
<1>7. ASSUME NEW t \in Threads, NEW a \in Addrs, NEW b \in Addrs, Mremap(t, a, b) PROVE TypeInv'
  <2>1. mapped' \subseteq Addrs /\ open' \subseteq mapped'
    BY <1>0, <1>7, Zenon DEF Mremap, TypeInv
  <2>2. mem' \in [Addrs -> Nat] /\ written' \in [Addrs -> Nat] /\ maps' \in Nat
    BY <1>0, <1>7, SMT, SMTT(30) DEF Mremap, TypeInv
  <2>3. /\ arg' \in [Threads -> Addrs \cup {NoAddr}]
        /\ to' \in [Threads -> Addrs \cup {NoAddr}]
    BY <1>0, <1>7, Zenon DEF Mremap, TypeInv
  <2>4. pc' = [pc EXCEPT ![t] = "lookup"] /\ UNCHANGED <<table, pages, slot, worker, bad>>
    BY <1>7, Zenon DEF Mremap, Goto
  <2> QED
    BY <1>0, <2>1, <2>2, <2>3, <2>4, Zenon DEF TypeInv
<1>8. ASSUME NEW t \in Threads, UnmapRefused(t) PROVE TypeInv'
  BY <1>0, <1>8, SMT, SMTT(30) DEF TypeInv, ThreadInv, UnmapRefused, Goto, Done
<1> QED
  BY <1>1, <1>2, <1>3, <1>4, <1>5, <1>6, <1>7, <1>8, Zenon DEF UntrackStep

\* Every step keeps the types, when pages are used and compressed.
LEMMA TypeUse ==
  ASSUME Named, IndexInv, UseStep PROVE TypeInv'
<1> USE DEF Named, Indices, kernel, table, pages, app, worker
<1>0. TypeInv /\ ThreadInv /\ SlotInv /\ TableInv /\ StateInv
  BY Zenon DEF IndexInv
<1>1. ASSUME NEW t \in Threads, NEW a \in Addrs, Store(t, a) PROVE TypeInv'
  BY <1>0, <1>1, Zenon DEF TypeInv, Store, Free
<1>2. ASSUME NEW t \in Threads, NEW a \in Addrs, Restored(t, a) PROVE TypeInv'
  BY <1>0, <1>2, SMT, SMTT(30) DEF TypeInv, Restored, Free
<1>3. ASSUME NEW t \in Threads, NEW a \in Addrs, FoundOpen(t, a) PROVE TypeInv'
  BY <1>0, <1>3, Zenon DEF TypeInv, FoundOpen, Free
<1>4. ASSUME NEW i \in Indices, BeginCompress(i) PROVE TypeInv'
  BY <1>0, <1>4, SMT, SMTT(30) DEF TypeInv, BeginCompress
<1>5. ASSUME NEW i \in Indices, BeginReclaim(i) PROVE TypeInv'
  BY <1>0, <1>5, SMT, SMTT(30) DEF TypeInv, BeginReclaim
<1>6. ASSUME WorkerAddress PROVE TypeInv'
  BY <1>0, <1>6, ZenonT(40) DEF TypeInv, SlotInv, Entering, StateInv, TableInv, WorkerAddress
<1>7. ASSUME Snapshot PROVE TypeInv'
  <2>1. waddr \in Addrs
    BY <1>7, WorkerAt, Zenon DEF Snapshot
  <2>2. wbuf' \in Nat
    BY <1>0, <1>7, <2>1, Zenon DEF Snapshot, TypeInv
  <2>3. bad' \in BOOLEAN
    BY <1>7, Zenon DEF Snapshot
  <2>4. wpc' = "finish" /\ UNCHANGED <<kernel, table, pages, app, wi, waddr, maps>>
    BY <1>7, Zenon DEF Snapshot
  <2> QED
    BY <1>0, <2>2, <2>3, <2>4, Zenon DEF TypeInv
<1>8. ASSUME Stored PROVE TypeInv'
  BY <1>0, <1>8 DEF TypeInv, SlotInv, Entering, StateInv, TableInv, Stored,
     WorkerEnd
<1>9. ASSUME GivenUp PROVE TypeInv'
  BY <1>0, <1>9, SMT, SMTT(30) DEF TypeInv, SlotInv, Entering, StateInv, TableInv, GivenUp,
     WorkerEnd
<1>10. ASSUME Reclaim PROVE TypeInv'
  BY <1>0, <1>10, SMT, SMTT(30) DEF TypeInv, SlotInv, Entering, StateInv, TableInv, Reclaim,
     WorkerEnd
<1> QED
  BY <1>1, <1>2, <1>3, <1>4, <1>5, <1>6, <1>7, <1>8, <1>9, <1>10, Zenon DEF UseStep

\* Every step keeps the types.
LEMMA TypeInvStep ==
  ASSUME Named, IndexInv, [Next]_vars PROVE TypeInv'
<1>1. CASE UNCHANGED vars
  BY <1>1, Zenon DEF vars, kernel, table, pages, app, worker, IndexInv, TypeInv
<1> QED
  BY <1>1, TypeTrack, TypeUntrack, TypeUse, Branches, Zenon
     DEF IndexInv

\* Every step keeps an address one thread's business, when a page is entered.
LEMMA ThreadTrack ==
  ASSUME Named, IndexInv, TrackStep PROVE ThreadInv'
<1> USE DEF Named, Indices, kernel, table, pages, app, worker
<1>0. TypeInv /\ ThreadInv /\ SlotInv /\ TableInv /\ StateInv
  BY Zenon DEF IndexInv
<1>1. ASSUME NEW t \in Threads, NEW a \in Addrs, Mmap(t, a) PROVE ThreadInv'
  BY <1>0, <1>1, SMT, SMTT(30) DEF ThreadInv, TypeInv, Mmap, Goto, Free
<1>2. ASSUME NEW t \in Threads, TrackNothing(t) PROVE ThreadInv'
  BY <1>0, <1>2 DEF ThreadInv, TypeInv, TrackNothing, Done, Goto
<1>3. ASSUME NEW t \in Threads, TrackAgain(t) PROVE ThreadInv'
  BY <1>0, <1>3, SMT, SMTT(30) DEF ThreadInv, TypeInv, TrackAgain, Done, Goto
<1>4. ASSUME NEW t \in Threads, ClaimKey(t) PROVE ThreadInv'
  BY <1>0, <1>4, Zenon DEF ThreadInv, TypeInv, ClaimKey, Goto
<1>5. ASSUME NEW t \in Threads, SlotsGone(t) PROVE ThreadInv'
  BY <1>0, <1>5 DEF ThreadInv, TypeInv, SlotsGone, Goto, Done
<1>6. ASSUME NEW t \in Threads, SlotTaken(t) PROVE ThreadInv'
  BY <1>0, <1>6, Zenon DEF ThreadInv, TypeInv, SlotTaken, Goto
<1>7. ASSUME NEW t \in Threads, WriteReverse(t) PROVE ThreadInv'
  BY <1>0, <1>7, Zenon DEF ThreadInv, TypeInv, WriteReverse, Goto
<1>8. ASSUME NEW t \in Threads, PublishIdx(t) PROVE ThreadInv'
  BY <1>0, <1>8, Zenon DEF ThreadInv, TypeInv, PublishIdx, Goto
<1>9. ASSUME NEW t \in Threads, CountSlot(t) PROVE ThreadInv'
  BY <1>0, <1>9, Zenon DEF ThreadInv, TypeInv, CountSlot, Goto
<1>10. ASSUME NEW t \in Threads, SetActive(t) PROVE ThreadInv'
  BY <1>0, <1>10, SMT, SMTT(30) DEF ThreadInv, TypeInv, SetActive, Done, Goto
<1> QED
  BY <1>1, <1>2, <1>3, <1>4, <1>5, <1>6, <1>7, <1>8, <1>9, <1>10, Zenon DEF TrackStep

\* Every step keeps an address one thread's business, when one is taken out.
LEMMA ThreadUntrack ==
  ASSUME Named, IndexInv, UntrackStep PROVE ThreadInv'
<1> USE DEF Named, Indices, kernel, table, pages, app, worker
<1>0. TypeInv /\ ThreadInv /\ SlotInv /\ TableInv /\ StateInv
  BY Zenon DEF IndexInv
<1>1. ASSUME NEW t \in Threads, NEW a \in Addrs, Munmap(t, a) PROVE ThreadInv'
  BY <1>0, <1>1, SMT, SMTT(30) DEF ThreadInv, TypeInv, Munmap, Goto, Free
<1>2. ASSUME NEW t \in Threads, NotTracked(t) PROVE ThreadInv'
  BY <1>0, <1>2, Zenon DEF ThreadInv, TypeInv, NotTracked, Goto
<1>3. ASSUME NEW t \in Threads, Locked(t) PROVE ThreadInv'
  BY <1>0, <1>3, ZenonT(40) DEF ThreadInv, TypeInv, Locked, Goto
<1>4. ASSUME NEW t \in Threads, Untrack(t) PROVE ThreadInv'
  BY <1>0, <1>4, Zenon DEF ThreadInv, TypeInv, Untrack, Goto
<1>5. ASSUME NEW t \in Threads, Unmapped(t) PROVE ThreadInv'
  BY <1>0, <1>5 DEF ThreadInv, TypeInv, Unmapped, Goto, Done
<1>6. ASSUME NEW t \in Threads, Moved(t) PROVE ThreadInv'
  BY <1>0, <1>6, SMT, SMTT(30) DEF ThreadInv, TypeInv, Moved, Goto
<1>7. ASSUME NEW t \in Threads, NEW a \in Addrs, NEW b \in Addrs, Mremap(t, a, b) PROVE ThreadInv'
  BY <1>0, <1>7, SMT, SMTT(30) DEF ThreadInv, TypeInv, Mremap, Goto, Free
<1>8. ASSUME NEW t \in Threads, UnmapRefused(t) PROVE ThreadInv'
  BY <1>0, <1>8, Zenon DEF ThreadInv, TypeInv, UnmapRefused, Goto, Done
<1> QED
  BY <1>1, <1>2, <1>3, <1>4, <1>5, <1>6, <1>7, <1>8, Zenon DEF UntrackStep

\* Every step keeps an address one thread's business, when pages are used and compressed.
LEMMA ThreadUse ==
  ASSUME Named, IndexInv, UseStep PROVE ThreadInv'
<1> USE DEF Named, Indices, kernel, table, pages, app, worker
<1>0. TypeInv /\ ThreadInv /\ SlotInv /\ TableInv /\ StateInv
  BY Zenon DEF IndexInv
<1>1. ASSUME NEW t \in Threads, NEW a \in Addrs, Store(t, a) PROVE ThreadInv'
  BY <1>0, <1>1, Zenon DEF ThreadInv, TypeInv, Store, Free
<1>2. ASSUME NEW t \in Threads, NEW a \in Addrs, Restored(t, a) PROVE ThreadInv'
  BY <1>0, <1>2, ZenonT(40) DEF ThreadInv, TypeInv, Restored, Free
<1>3. ASSUME NEW t \in Threads, NEW a \in Addrs, FoundOpen(t, a) PROVE ThreadInv'
  BY <1>0, <1>3 DEF ThreadInv, TypeInv, FoundOpen, Free
<1>4. ASSUME NEW i \in Indices, BeginCompress(i) PROVE ThreadInv'
  BY <1>0, <1>4, ZenonT(40) DEF ThreadInv, TypeInv, BeginCompress
<1>5. ASSUME NEW i \in Indices, BeginReclaim(i) PROVE ThreadInv'
  BY <1>0, <1>5, ZenonT(40) DEF ThreadInv, TypeInv, BeginReclaim
<1>6. ASSUME WorkerAddress PROVE ThreadInv'
  BY <1>0, <1>6, Zenon DEF ThreadInv, TypeInv, WorkerAddress
<1>7. ASSUME Snapshot PROVE ThreadInv'
  BY <1>0, <1>7, Zenon DEF ThreadInv, TypeInv, Snapshot
<1>8. ASSUME Stored PROVE ThreadInv'
  BY <1>0, <1>8, Zenon DEF ThreadInv, TypeInv, Stored, WorkerEnd
<1>9. ASSUME GivenUp PROVE ThreadInv'
  BY <1>0, <1>9, Zenon DEF ThreadInv, TypeInv, GivenUp, WorkerEnd
<1>10. ASSUME Reclaim PROVE ThreadInv'
  BY <1>0, <1>10, Zenon DEF ThreadInv, TypeInv, Reclaim, WorkerEnd
<1> QED
  BY <1>1, <1>2, <1>3, <1>4, <1>5, <1>6, <1>7, <1>8, <1>9, <1>10, Zenon DEF UseStep

\* Every step keeps an address one thread's business.
LEMMA ThreadStep ==
  ASSUME Named, IndexInv, [Next]_vars PROVE ThreadInv'
<1>1. CASE UNCHANGED vars
  BY <1>1, Zenon DEF vars, kernel, table, pages, app, worker, IndexInv, ThreadInv,
     TypeInv
<1> QED
  BY <1>1, ThreadTrack, ThreadUntrack, ThreadUse, Branches, Zenon
     DEF IndexInv

\* Every step keeps a slot one user's, when a page is entered.
LEMMA SlotTrack ==
  ASSUME Named, IndexInv, TrackStep PROVE SlotInv'
<1> USE DEF Named, Indices, kernel, table, pages, app, worker
<1>0. TypeInv /\ ThreadInv /\ SlotInv /\ TableInv /\ StateInv
  BY Zenon DEF IndexInv
<1>1. ASSUME NEW t \in Threads, NEW a \in Addrs, Mmap(t, a) PROVE SlotInv'
  BY <1>0, <1>1, SMT, SMTT(30) DEF SlotInv, TypeInv, Entering, Mmap, Goto, Free
<1>2. ASSUME NEW t \in Threads, TrackNothing(t) PROVE SlotInv'
  BY <1>0, <1>2, SMT, SMTT(30) DEF SlotInv, TypeInv, Entering, TableInv, ThreadInv, TrackNothing,
     Done, Goto
<1>3. ASSUME NEW t \in Threads, TrackAgain(t) PROVE SlotInv'
  BY <1>0, <1>3, SMT, SMTT(30) DEF SlotInv, TypeInv, Entering, TableInv, ThreadInv, TrackAgain,
     Done, Goto
<1>4. ASSUME NEW t \in Threads, ClaimKey(t) PROVE SlotInv'
  BY <1>0, <1>4 DEF SlotInv, TypeInv, Entering, TableInv, ThreadInv, ClaimKey,
     Goto
<1>5. ASSUME NEW t \in Threads, SlotsGone(t) PROVE SlotInv'
  BY <1>0, <1>5, SMT, SMTT(30) DEF SlotInv, TypeInv, Entering, SlotsGone, Goto, Done
<1>6. ASSUME NEW t \in Threads, SlotTaken(t) PROVE SlotInv'
  BY <1>0, <1>6, SMT, SMTT(30) DEF SlotInv, TypeInv, Entering, SlotTaken, Goto
<1>7. ASSUME NEW t \in Threads, WriteReverse(t) PROVE SlotInv'
  BY <1>0, <1>7, SMT, SMTT(30) DEF SlotInv, TypeInv, Entering, WriteReverse, Goto
<1>8. ASSUME NEW t \in Threads, PublishIdx(t) PROVE SlotInv'
  BY <1>0, <1>8, SMT, SMTT(30) DEF SlotInv, TypeInv, Entering, TableInv, ThreadInv, PublishIdx,
     Goto
<1>9. ASSUME NEW t \in Threads, CountSlot(t) PROVE SlotInv'
  BY <1>0, <1>9, SMT, SMTT(30) DEF SlotInv, TypeInv, Entering, CountSlot, Goto
<1>10. ASSUME NEW t \in Threads, SetActive(t) PROVE SlotInv'
  BY <1>0, <1>10, SMT, SMTT(30)
     DEF SlotInv, TypeInv, Entering, TableInv, SetActive, Done, Goto
<1> QED
  BY <1>1, <1>2, <1>3, <1>4, <1>5, <1>6, <1>7, <1>8, <1>9, <1>10, Zenon DEF TrackStep

\* Every step keeps a slot one user's, when one is taken out.
LEMMA SlotUntrack ==
  ASSUME Named, IndexInv, UntrackStep PROVE SlotInv'
<1> USE DEF Named, Indices, kernel, table, pages, app, worker
<1>0. TypeInv /\ ThreadInv /\ SlotInv /\ TableInv /\ StateInv
  BY Zenon DEF IndexInv
<1>1. ASSUME NEW t \in Threads, NEW a \in Addrs, Munmap(t, a) PROVE SlotInv'
  BY <1>0, <1>1, SMT, SMTT(30) DEF SlotInv, TypeInv, Entering, Munmap, Goto, Free
<1>2. ASSUME NEW t \in Threads, NotTracked(t) PROVE SlotInv'
  BY <1>0, <1>2, SMT, SMTT(30) DEF SlotInv, TypeInv, Entering, TableInv, ThreadInv, NotTracked,
     Goto
<1>3. ASSUME NEW t \in Threads, Locked(t) PROVE SlotInv'
  BY <1>0, <1>3, SMT, SMTT(30) DEF SlotInv, TypeInv, Entering, TableInv, ThreadInv, Locked, Goto
<1>4. ASSUME NEW t \in Threads, Untrack(t) PROVE SlotInv'
  BY <1>0, <1>4, SMT, SMTT(30) DEF SlotInv, TypeInv, Entering, TableInv, ThreadInv, Untrack, Goto
<1>5. ASSUME NEW t \in Threads, Unmapped(t) PROVE SlotInv'
  BY <1>0, <1>5 DEF SlotInv, TypeInv, Entering, Unmapped, Goto, Done
<1>6. ASSUME NEW t \in Threads, Moved(t) PROVE SlotInv'
  BY <1>0, <1>6, ZenonT(40) DEF SlotInv, TypeInv, Entering, Moved, Goto
<1>7. ASSUME NEW t \in Threads, NEW a \in Addrs, NEW b \in Addrs, Mremap(t, a, b) PROVE SlotInv'
  BY <1>0, <1>7, SMT, SMTT(30) DEF SlotInv, TypeInv, Entering, Mremap, Goto, Free
<1>8. ASSUME NEW t \in Threads, UnmapRefused(t) PROVE SlotInv'
  BY <1>0, <1>8, ZenonT(40) DEF SlotInv, TypeInv, Entering, UnmapRefused, Goto, Done
<1> QED
  BY <1>1, <1>2, <1>3, <1>4, <1>5, <1>6, <1>7, <1>8, Zenon DEF UntrackStep

\* Every step keeps a slot one user's, when pages are used and compressed.
LEMMA SlotUse ==
  ASSUME Named, IndexInv, UseStep PROVE SlotInv'
<1> USE DEF Named, Indices, kernel, table, pages, app, worker
<1>0. TypeInv /\ ThreadInv /\ SlotInv /\ TableInv /\ StateInv
  BY Zenon DEF IndexInv
<1>1. ASSUME NEW t \in Threads, NEW a \in Addrs, Store(t, a) PROVE SlotInv'
  BY <1>0, <1>1, ZenonT(40) DEF SlotInv, TypeInv, Entering, Store, Free
<1>2. ASSUME NEW t \in Threads, NEW a \in Addrs, Restored(t, a) PROVE SlotInv'
  BY <1>0, <1>2, SMT, SMTT(30) DEF SlotInv, TypeInv, Entering, TableInv, Restored, Free
<1>3. ASSUME NEW t \in Threads, NEW a \in Addrs, FoundOpen(t, a) PROVE SlotInv'
  BY <1>0, <1>3 DEF SlotInv, TypeInv, Entering, TableInv, FoundOpen, Free
<1>4. ASSUME NEW i \in Indices, BeginCompress(i) PROVE SlotInv'
  BY <1>0, <1>4 DEF SlotInv, TypeInv, Entering, BeginCompress
<1>5. ASSUME NEW i \in Indices, BeginReclaim(i) PROVE SlotInv'
  BY <1>0, <1>5 DEF SlotInv, TypeInv, Entering, BeginReclaim
<1>6. ASSUME WorkerAddress PROVE SlotInv'
  BY <1>0, <1>6 DEF SlotInv, TypeInv, Entering, WorkerAddress
<1>7. ASSUME Snapshot PROVE SlotInv'
  BY <1>0, <1>7, Zenon DEF SlotInv, TypeInv, Entering, Snapshot
<1>8. ASSUME Stored PROVE SlotInv'
  <2>1. wi \in Indices /\ lock[wi] = "worker" /\ state[wi] # "EMPTY"
    BY <1>8, WorkerAt, Zenon DEF Stored
  <2>2. \A t \in Threads : pc[t] = "locked" => slot[t] # wi
    BY <1>0, <2>1, ZenonT(40) DEF SlotInv
  <2>3. wi <= slotNext
    BY <1>0, <2>1 DEF SlotInv, TypeInv
  <2>4. /\ lock' = [lock EXCEPT ![wi] = NoAddr] /\ wpc' = "idle"
        /\ \A i \in Indices : i # wi => state'[i] = state[i]
        /\ UNCHANGED <<table, app>>
    BY <1>0, <1>8, Zenon DEF Stored, WorkerEnd, TypeInv
  <2>5. \A i \in Indices : i > slotNext => lock'[i] = lock[i] /\ state'[i] = state[i]
    BY <1>0, <2>1, <2>3, <2>4 DEF TypeInv
  <2>6. \A t \in Threads : pc[t] = "locked" => lock'[slot[t]] = lock[slot[t]]
    BY <1>0, <2>2, <2>4, Zenon DEF TypeInv, SlotInv
  <2> QED
    BY <1>0, <2>4, <2>5, <2>6 DEF SlotInv
<1>9. ASSUME GivenUp PROVE SlotInv'
  <2>1. wi \in Indices /\ lock[wi] = "worker" /\ state[wi] # "EMPTY"
    BY <1>9, WorkerAt, Zenon DEF GivenUp
  <2>2. \A t \in Threads : pc[t] = "locked" => slot[t] # wi
    BY <1>0, <2>1, ZenonT(40) DEF SlotInv
  <2>3. wi <= slotNext
    BY <1>0, <2>1 DEF SlotInv, TypeInv
  <2>4. /\ lock' = [lock EXCEPT ![wi] = NoAddr] /\ wpc' = "idle"
        /\ \A i \in Indices : i # wi => state'[i] = state[i]
        /\ UNCHANGED <<table, app>>
    BY <1>0, <1>9, Zenon DEF GivenUp, WorkerEnd, TypeInv
  <2>5. \A i \in Indices : i > slotNext => lock'[i] = lock[i] /\ state'[i] = state[i]
    BY <1>0, <2>1, <2>3, <2>4 DEF TypeInv
  <2>6. \A t \in Threads : pc[t] = "locked" => lock'[slot[t]] = lock[slot[t]]
    BY <1>0, <2>2, <2>4, ZenonT(40) DEF TypeInv, SlotInv
  <2> QED
    BY <1>0, <2>4, <2>5, <2>6 DEF SlotInv
<1>10. ASSUME Reclaim PROVE SlotInv'
  BY <1>0, <1>10 DEF SlotInv, TypeInv, Entering, Reclaim, WorkerEnd
<1> QED
  BY <1>1, <1>2, <1>3, <1>4, <1>5, <1>6, <1>7, <1>8, <1>9, <1>10, Zenon DEF UseStep

\* Every step keeps a slot one user's.
LEMMA SlotStep ==
  ASSUME Named, IndexInv, [Next]_vars PROVE SlotInv'
<1>1. CASE UNCHANGED vars
  BY <1>1, ZenonT(40) DEF vars, kernel, table, pages, app, worker, IndexInv, SlotInv, TypeInv,
     Entering
<1> QED
  BY <1>1, SlotTrack, SlotUntrack, SlotUse, Branches, Zenon
     DEF IndexInv

\* Every step keeps the two tables in agreement, when a page is entered.
LEMMA TableTrack ==
  ASSUME Named, IndexInv, TrackStep PROVE TableInv'
<1> USE DEF Named, Indices, kernel, table, pages, app, worker
<1>0. TypeInv /\ ThreadInv /\ SlotInv /\ TableInv /\ StateInv
  BY Zenon DEF IndexInv
<1>1. ASSUME NEW t \in Threads, NEW a \in Addrs, Mmap(t, a) PROVE TableInv'
  BY <1>0, <1>1, SMT, SMTT(30) DEF TableInv, TypeInv, ThreadInv, Mmap, Goto, Free
<1>2. ASSUME NEW t \in Threads, TrackNothing(t) PROVE TableInv'
  BY <1>0, <1>2, SMT, SMTT(30) DEF TableInv, TypeInv, ThreadInv, TrackNothing, Done, Goto
<1>3. ASSUME NEW t \in Threads, TrackAgain(t) PROVE TableInv'
  BY <1>0, <1>3, SMT, SMTT(30) DEF TableInv, TypeInv, ThreadInv, TrackAgain, Done, Goto
<1>4. ASSUME NEW t \in Threads, ClaimKey(t) PROVE TableInv'
  BY <1>0, <1>4, SMT, SMTT(30)
     DEF TableInv, TypeInv, ThreadInv, SlotInv, Entering, ClaimKey,
     Goto
<1>5. ASSUME NEW t \in Threads, SlotsGone(t) PROVE TableInv'
  BY <1>0, <1>5, SMT, SMTT(30) DEF TableInv, TypeInv, ThreadInv, SlotInv, Entering, SlotsGone,
     Goto, Done
<1>6. ASSUME NEW t \in Threads, SlotTaken(t) PROVE TableInv'
  BY <1>0, <1>6, SMT, SMTT(30) DEF TableInv, TypeInv, ThreadInv, SlotInv, Entering, SlotTaken,
     Goto
<1>7. ASSUME NEW t \in Threads, WriteReverse(t) PROVE TableInv'
  BY <1>0, <1>7, SMT, SMTT(30) DEF TableInv, TypeInv, ThreadInv, SlotInv, Entering, WriteReverse,
     Goto
<1>8. ASSUME NEW t \in Threads, PublishIdx(t) PROVE TableInv'
  BY <1>0, <1>8, SMT, SMTT(30)
     DEF TableInv, TypeInv, ThreadInv, SlotInv, Entering, PublishIdx,
     Goto
<1>9. ASSUME NEW t \in Threads, CountSlot(t) PROVE TableInv'
  BY <1>0, <1>9, SMT, SMTT(30) DEF TableInv, TypeInv, ThreadInv, CountSlot, Goto
<1>10. ASSUME NEW t \in Threads, SetActive(t) PROVE TableInv'
  BY <1>0, <1>10, SMT, SMTT(30) DEF TableInv, TypeInv, ThreadInv, SetActive, Done, Goto
<1> QED
  BY <1>1, <1>2, <1>3, <1>4, <1>5, <1>6, <1>7, <1>8, <1>9, <1>10, Zenon DEF TrackStep

\* Every step keeps the two tables in agreement, when one is taken out.
LEMMA TableUntrack ==
  ASSUME Named, IndexInv, UntrackStep PROVE TableInv'
<1> USE DEF Named, Indices, kernel, table, pages, app, worker
<1>0. TypeInv /\ ThreadInv /\ SlotInv /\ TableInv /\ StateInv
  BY Zenon DEF IndexInv
<1>1. ASSUME NEW t \in Threads, NEW a \in Addrs, Munmap(t, a) PROVE TableInv'
  BY <1>0, <1>1, SMT, SMTT(30) DEF TableInv, TypeInv, ThreadInv, Munmap, Goto, Free
<1>2. ASSUME NEW t \in Threads, NotTracked(t) PROVE TableInv'
  BY <1>0, <1>2, SMT, SMTT(30) DEF TableInv, TypeInv, ThreadInv, SlotInv, Entering, NotTracked,
     Goto
<1>3. ASSUME NEW t \in Threads, Locked(t) PROVE TableInv'
  BY <1>0, <1>3, SMT, SMTT(30) DEF TableInv, TypeInv, ThreadInv, SlotInv, Entering, Locked, Goto
<1>4. ASSUME NEW t \in Threads, Untrack(t) PROVE TableInv'
  <2> DEFINE s == slot[t]
  <2>1. s \in Indices /\ arg[t] \in key /\ idx[arg[t]] = s /\ s # 0
    BY <1>0, <1>4, SMT, SMTT(30) DEF Untrack, SlotInv, TableInv, Entering
  <2>2. reverse[s] = arg[t] /\ arg[t] \in Addrs
    BY <1>0, <1>4, <2>1 DEF TableInv, TypeInv, Untrack, ThreadInv
  <2>3. /\ key' = key \ {arg[t]} /\ reverse'[s] = NoAddr
        /\ \A i \in Indices : i # s => reverse'[i] = reverse[i]
        /\ UNCHANGED <<idx, arg, slot>>
    BY <1>0, <1>4, <2>1, Zenon DEF Untrack, TypeInv
  <2>4. pc'[t] = "unmap" /\ \A u \in Threads : u # t => pc'[u] = pc[u] /\ arg[u] # arg[t]
    BY <1>0, <1>4, <2>2, Zenon DEF Untrack, Goto, ThreadInv, TypeInv
  <2>5. ASSUME NEW a \in key', idx'[a] # 0 PROVE reverse'[idx'[a]] = a
    <3>1. a \in key /\ a # arg[t] /\ reverse[idx[a]] = a
      BY <1>0, <2>3, <2>5, Zenon DEF TableInv
    <3>2. idx[a] # s /\ idx[a] \in Indices
      BY <1>0, <2>2, <2>3, <2>5, <3>1, SMT, SMTT(30) DEF TypeInv
    <3> QED
      BY <2>3, <3>1, <3>2, Zenon
  <2>6. ASSUME NEW i \in Indices, reverse'[i] # NoAddr
        PROVE  \/ reverse'[i] \in key' /\ idx'[reverse'[i]] = i
               \/ \E u \in Threads : pc'[u] = "reversed" /\ slot'[u] = i /\ arg'[u] = reverse'[i]
    <3>1. i # s /\ reverse'[i] = reverse[i]
      BY <2>3, <2>6, Zenon
    <3>2. CASE reverse[i] \in key /\ idx[reverse[i]] = i
      BY <2>1, <2>3, <3>1, <3>2, Zenon
    <3>3. ASSUME NEW u \in Threads, pc[u] = "reversed", slot[u] = i, arg[u] = reverse[i]
          PROVE  pc'[u] = "reversed"
      BY <1>4, <2>4, <3>3, Zenon DEF Untrack
    <3> QED
      BY <1>0, <2>3, <2>6, <3>1, <3>2, <3>3 DEF TableInv
  <2>7. ASSUME NEW u \in Threads, u # t
        PROVE  /\ pc[u] = "reserved" => reverse'[slot[u]] = NoAddr
               /\ pc[u] = "reversed" => reverse'[slot[u]] = arg[u]
    BY <1>0, <2>2, <2>3, <2>4, <2>7, SMT, SMTT(30) DEF TableInv, SlotInv, Entering
  <2>8. \A u \in Threads :
          /\ pc'[u] \in {"claimed", "reserved", "reversed"} => arg'[u] \in key' /\ idx'[arg'[u]] = 0
          /\ pc'[u] \in {"published", "counted", "locked"} => arg'[u] \in key' /\ idx'[arg'[u]] = slot'[u]
          /\ pc'[u] = "reserved" => reverse'[slot'[u]] = NoAddr
          /\ pc'[u] = "reversed" => reverse'[slot'[u]] = arg'[u]
          /\ pc'[u] = "unmap" => arg'[u] \notin key' \/ idx'[arg'[u]] = 0
    BY <1>0, <2>3, <2>4, <2>7, SMT, SMTT(30) DEF TableInv
  <2> QED
    BY <2>5, <2>6, <2>8, Zenon DEF TableInv
<1>5. ASSUME NEW t \in Threads, Unmapped(t) PROVE TableInv'
  BY <1>0, <1>5, SMT, SMTT(30) DEF TableInv, TypeInv, ThreadInv, Unmapped, Goto, Done
<1>6. ASSUME NEW t \in Threads, Moved(t) PROVE TableInv'
  BY <1>0, <1>6, SMT, SMTT(30) DEF TableInv, TypeInv, ThreadInv, Moved, Goto
<1>7. ASSUME NEW t \in Threads, NEW a \in Addrs, NEW b \in Addrs, Mremap(t, a, b) PROVE TableInv'
  BY <1>0, <1>7, SMT, SMTT(30) DEF TableInv, TypeInv, ThreadInv, Mremap, Goto, Free
<1>8. ASSUME NEW t \in Threads, UnmapRefused(t) PROVE TableInv'
  BY <1>0, <1>8, SMT, SMTT(30) DEF TableInv, TypeInv, ThreadInv, UnmapRefused, Goto, Done
<1> QED
  BY <1>1, <1>2, <1>3, <1>4, <1>5, <1>6, <1>7, <1>8, Zenon DEF UntrackStep

\* Every step keeps the two tables in agreement, when pages are used and compressed.
LEMMA TableUse ==
  ASSUME Named, IndexInv, UseStep PROVE TableInv'
<1> USE DEF Named, Indices, kernel, table, pages, app, worker
<1>0. TypeInv /\ ThreadInv /\ SlotInv /\ TableInv /\ StateInv
  BY Zenon DEF IndexInv
<1>1. ASSUME NEW t \in Threads, NEW a \in Addrs, Store(t, a) PROVE TableInv'
  BY <1>0, <1>1 DEF TableInv, TypeInv, ThreadInv, Store, Free
<1>2. ASSUME NEW t \in Threads, NEW a \in Addrs, Restored(t, a) PROVE TableInv'
  BY <1>0, <1>2, SMT, SMTT(30) DEF TableInv, TypeInv, ThreadInv, Restored, Free
<1>3. ASSUME NEW t \in Threads, NEW a \in Addrs, FoundOpen(t, a) PROVE TableInv'
  BY <1>0, <1>3, SMT, SMTT(30) DEF TableInv, TypeInv, ThreadInv, FoundOpen, Free
<1>4. ASSUME NEW i \in Indices, BeginCompress(i) PROVE TableInv'
  BY <1>0, <1>4, SMT, SMTT(30) DEF TableInv, TypeInv, ThreadInv, BeginCompress
<1>5. ASSUME NEW i \in Indices, BeginReclaim(i) PROVE TableInv'
  BY <1>0, <1>5, SMT, SMTT(30) DEF TableInv, TypeInv, ThreadInv, BeginReclaim
<1>6. ASSUME WorkerAddress PROVE TableInv'
  BY <1>0, <1>6, SMT, SMTT(30) DEF TableInv, TypeInv, ThreadInv, WorkerAddress
<1>7. ASSUME Snapshot PROVE TableInv'
  BY <1>0, <1>7, SMT, SMTT(30) DEF TableInv, TypeInv, ThreadInv, Snapshot
<1>8. ASSUME Stored PROVE TableInv'
  BY <1>0, <1>8, SMT, SMTT(30) DEF TableInv, TypeInv, ThreadInv, Stored, WorkerEnd
<1>9. ASSUME GivenUp PROVE TableInv'
  BY <1>0, <1>9, SMT, SMTT(30) DEF TableInv, TypeInv, ThreadInv, GivenUp, WorkerEnd
<1>10. ASSUME Reclaim PROVE TableInv'
  BY <1>0, <1>10 DEF TableInv, TypeInv, ThreadInv, Reclaim, WorkerEnd
<1> QED
  BY <1>1, <1>2, <1>3, <1>4, <1>5, <1>6, <1>7, <1>8, <1>9, <1>10, Zenon DEF UseStep

\* Every step keeps the two tables in agreement.
LEMMA TableStep ==
  ASSUME Named, IndexInv, [Next]_vars PROVE TableInv'
<1>1. CASE UNCHANGED vars
  BY <1>1 DEF vars, kernel, table, pages, app, worker, IndexInv, TableInv,
     TypeInv, ThreadInv
<1> QED
  BY <1>1, TableTrack, TableUntrack, TableUse, Branches, ZenonT(40)
     DEF IndexInv

\* Every step keeps an address at each slot in use, when a page is entered.
LEMMA StateTrack ==
  ASSUME Named, IndexInv, TrackStep PROVE StateInv'
<1> USE DEF Named, Indices, kernel, table, pages, app, worker
<1>0. TypeInv /\ ThreadInv /\ SlotInv /\ TableInv /\ StateInv
  BY Zenon DEF IndexInv
<1>1. ASSUME NEW t \in Threads, NEW a \in Addrs, Mmap(t, a) PROVE StateInv'
  BY <1>0, <1>1, Zenon DEF StateInv, TypeInv, Mmap, Goto, Free
<1>2. ASSUME NEW t \in Threads, TrackNothing(t) PROVE StateInv'
  BY <1>0, <1>2, ZenonT(40) DEF StateInv, TypeInv, SlotInv, Entering, TableInv, ThreadInv,
     TrackNothing, Done, Goto
<1>3. ASSUME NEW t \in Threads, TrackAgain(t) PROVE StateInv'
  BY <1>0, <1>3, SMT, SMTT(30) DEF StateInv, TypeInv, SlotInv, Entering, TableInv, ThreadInv,
     TrackAgain, Done, Goto
<1>4. ASSUME NEW t \in Threads, ClaimKey(t) PROVE StateInv'
  BY <1>0, <1>4, Zenon DEF StateInv, TypeInv, ClaimKey, Goto
<1>5. ASSUME NEW t \in Threads, SlotsGone(t) PROVE StateInv'
  BY <1>0, <1>5, Zenon DEF StateInv, TypeInv, SlotsGone, Goto, Done
<1>6. ASSUME NEW t \in Threads, SlotTaken(t) PROVE StateInv'
  BY <1>0, <1>6, Zenon DEF StateInv, TypeInv, SlotTaken, Goto
<1>7. ASSUME NEW t \in Threads, WriteReverse(t) PROVE StateInv'
  BY <1>0, <1>7, SMT, SMTT(30) DEF StateInv, TypeInv, SlotInv, Entering, TableInv, WriteReverse,
     Goto
<1>8. ASSUME NEW t \in Threads, PublishIdx(t) PROVE StateInv'
  BY <1>0, <1>8, Zenon DEF StateInv, TypeInv, SlotInv, Entering, TableInv, PublishIdx,
     Goto
<1>9. ASSUME NEW t \in Threads, CountSlot(t) PROVE StateInv'
  BY <1>0, <1>9, Zenon DEF StateInv, TypeInv, CountSlot, Goto
<1>10. ASSUME NEW t \in Threads, SetActive(t) PROVE StateInv'
  <2>1. arg[t] # NoAddr /\ arg[t] \in key /\ idx[arg[t]] = slot[t] /\ slot[t] \in Indices
    BY <1>0, <1>10 DEF SetActive, TypeInv, SlotInv, Entering, TableInv
  <2>2. reverse[slot[t]] # NoAddr
    BY <1>0, <2>1 DEF TableInv
  <2>3. /\ state' = [state EXCEPT ![slot[t]] = "ACTIVE"]
        /\ UNCHANGED <<table, worker>>
    BY <1>10, Zenon DEF SetActive
  <2>4. \A i \in Indices : state'[i] = IF i = slot[t] THEN "ACTIVE" ELSE state[i]
    BY <1>0, <2>3, Zenon DEF TypeInv
  <2>5. \A i \in Indices : state'[i] # "EMPTY" => reverse'[i] # NoAddr
    BY <1>0, <2>2, <2>3, <2>4, Zenon DEF StateInv
  <2>6. \A i \in Indices : state[i] # "EMPTY" => state'[i] # "EMPTY"
    BY <2>4, Zenon
  <2> QED
    BY <1>0, <2>3, <2>5, <2>6, SMT, SMTT(30) DEF StateInv, TypeInv
<1> QED
  BY <1>1, <1>2, <1>3, <1>4, <1>5, <1>6, <1>7, <1>8, <1>9, <1>10, Zenon DEF TrackStep

\* Every step keeps an address at each slot in use, when one is taken out.
LEMMA StateUntrack ==
  ASSUME Named, IndexInv, UntrackStep PROVE StateInv'
<1> USE DEF Named, Indices, kernel, table, pages, app, worker
<1>0. TypeInv /\ ThreadInv /\ SlotInv /\ TableInv /\ StateInv
  BY Zenon DEF IndexInv
<1>1. ASSUME NEW t \in Threads, NEW a \in Addrs, Munmap(t, a) PROVE StateInv'
  BY <1>0, <1>1, Zenon DEF StateInv, TypeInv, Munmap, Goto, Free
<1>2. ASSUME NEW t \in Threads, NotTracked(t) PROVE StateInv'
  BY <1>0, <1>2, Zenon DEF StateInv, TypeInv, SlotInv, Entering, TableInv, NotTracked,
     Goto
<1>3. ASSUME NEW t \in Threads, Locked(t) PROVE StateInv'
  BY <1>0, <1>3, ZenonT(40) DEF StateInv, TypeInv, SlotInv, Entering, TableInv, Locked, Goto
<1>4. ASSUME NEW t \in Threads, Untrack(t) PROVE StateInv'
  BY <1>0, <1>4 DEF StateInv, TypeInv, SlotInv, Entering, TableInv, ThreadInv,
     Untrack, Goto
<1>5. ASSUME NEW t \in Threads, Unmapped(t) PROVE StateInv'
  BY <1>0, <1>5, Zenon DEF StateInv, TypeInv, Unmapped, Goto, Done
<1>6. ASSUME NEW t \in Threads, Moved(t) PROVE StateInv'
  BY <1>0, <1>6, Zenon DEF StateInv, TypeInv, Moved, Goto
<1>7. ASSUME NEW t \in Threads, NEW a \in Addrs, NEW b \in Addrs, Mremap(t, a, b) PROVE StateInv'
  BY <1>0, <1>7, Zenon DEF StateInv, TypeInv, Mremap, Goto, Free
<1>8. ASSUME NEW t \in Threads, UnmapRefused(t) PROVE StateInv'
  BY <1>0, <1>8, Zenon DEF StateInv, TypeInv, UnmapRefused, Goto, Done
<1> QED
  BY <1>1, <1>2, <1>3, <1>4, <1>5, <1>6, <1>7, <1>8, Zenon DEF UntrackStep

\* Every step keeps an address at each slot in use, when pages are used and compressed.
LEMMA StateUse ==
  ASSUME Named, IndexInv, UseStep PROVE StateInv'
<1> USE DEF Named, Indices, kernel, table, pages, app, worker
<1>0. TypeInv /\ ThreadInv /\ SlotInv /\ TableInv /\ StateInv
  BY Zenon DEF IndexInv
<1>1. ASSUME NEW t \in Threads, NEW a \in Addrs, Store(t, a) PROVE StateInv'
  BY <1>0, <1>1, ZenonT(40) DEF StateInv, TypeInv, Store, Free
<1>2. ASSUME NEW t \in Threads, NEW a \in Addrs, Restored(t, a) PROVE StateInv'
  BY <1>0, <1>2, SMT, SMTT(30) DEF StateInv, TypeInv, SlotInv, Entering, TableInv, Restored, Free
<1>3. ASSUME NEW t \in Threads, NEW a \in Addrs, FoundOpen(t, a) PROVE StateInv'
  BY <1>0, <1>3, Zenon DEF StateInv, TypeInv, SlotInv, Entering, TableInv, FoundOpen,
     Free
<1>4. ASSUME NEW i \in Indices, BeginCompress(i) PROVE StateInv'
  BY <1>0, <1>4 DEF StateInv, TypeInv, SlotInv, Entering, TableInv, BeginCompress
<1>5. ASSUME NEW i \in Indices, BeginReclaim(i) PROVE StateInv'
  BY <1>0, <1>5, Zenon DEF StateInv, TypeInv, SlotInv, Entering, TableInv, BeginReclaim
<1>6. ASSUME WorkerAddress PROVE StateInv'
  BY <1>0, <1>6, Zenon DEF StateInv, TypeInv, SlotInv, Entering, TableInv, WorkerAddress
<1>7. ASSUME Snapshot PROVE StateInv'
  BY <1>0, <1>7, ZenonT(40) DEF StateInv, TypeInv, Snapshot
<1>8. ASSUME Stored PROVE StateInv'
  BY <1>0, <1>8, SMT, SMTT(30) DEF StateInv, TypeInv, SlotInv, Entering, TableInv, Stored,
     WorkerEnd
<1>9. ASSUME GivenUp PROVE StateInv'
  BY <1>0, <1>9 DEF StateInv, TypeInv, SlotInv, Entering, TableInv, GivenUp,
     WorkerEnd
<1>10. ASSUME Reclaim PROVE StateInv'
  BY <1>0, <1>10, Zenon DEF StateInv, TypeInv, SlotInv, Entering, TableInv, Reclaim,
     WorkerEnd
<1> QED
  BY <1>1, <1>2, <1>3, <1>4, <1>5, <1>6, <1>7, <1>8, <1>9, <1>10, Zenon DEF UseStep

\* Every step keeps an address at each slot in use.
LEMMA StateStep ==
  ASSUME Named, IndexInv, [Next]_vars PROVE StateInv'
<1>1. CASE UNCHANGED vars
  BY <1>1, Zenon DEF vars, kernel, table, pages, app, worker, IndexInv, StateInv, TypeInv
<1> QED
  BY <1>1, StateTrack, StateUntrack, StateUse, Branches, Zenon
     DEF IndexInv

\* The tables agree, whatever the application maps.
THEOREM TablesAgree == ASSUME Named PROVE Spec => []IndexInv
<1>1. Init => IndexInv
  BY IndexInit, Zenon
<1>2. IndexInv /\ [Next]_vars => IndexInv'
  <2> SUFFICES ASSUME IndexInv, [Next]_vars PROVE IndexInv'
    OBVIOUS
  <2> QED
    BY TypeInvStep, ThreadStep, SlotStep, TableStep, StateStep, Zenon DEF IndexInv
<1> QED
  BY <1>1, <1>2, PTL DEF Spec

\* For any number of addresses, threads and slots, with mremap and MAP_FIXED, an
\* address and an index name each other and an index in use has an address
\* (trackExternalPage, untrackExternalPageLocked).
THEOREM AddressesHaveIndices == ASSUME Named PROVE Spec => []IndexAndAddressAgree
<1>1. IndexInv => IndexAndAddressAgree
  BY Zenon DEF IndexInv, TableInv, StateInv, IndexAndAddressAgree
<1> QED
  BY <1>1, TablesAgree, PTL

-----------------------------------------------------------------------------
(* The data of the pages the application maps itself, as long as it does   *)
(* not use mremap or MAP_FIXED over a mapping.                             *)


\* While a page is entered nobody else can find it.
FreshInv ==
  \A t \in Threads :
    pc[t] \in Entering => state[slot[t]] = "EMPTY" /\ lock[slot[t]] = NoAddr

\* Without mremap and MAP_FIXED: what is tracked is mapped, and so is what a
\* thread works on.
MapInv ==
  /\ \A t \in Threads : to[t] = NoAddr /\ (arg[t] # NoAddr => arg[t] \in mapped)
  /\ \A a \in key : idx[a] # 0 => a \in mapped
  /\ \A t \in Threads : pc[t] = "track" => arg[t] \notin key \/ idx[arg[t]] = 0
  /\ wpc \in {"locked", "snapshot", "finish"} => state[wi] = "COMPRESSING"
  /\ wpc = "reclaim" => state[wi] = "COMPRESSED"
  /\ ~bad

\* Where a thread is about to enter its page.
Tracking == {"track", "claimed", "reserved", "reversed"}

\* Where the data of a mapped page is, unless the kernel refused to unmap it.
DataInv ==
  /\ \A a \in mapped :
       /\ a \in open => mem[a] = written[a]
       /\ a \notin open =>
            \/ a \in key /\ idx[a] # 0 /\ state[idx[a]] \in {"COMPRESSING", "COMPRESSED"}
            \/ \E t \in Threads : pc[t] = "unmap" /\ arg[t] = a
            \/ a \in refused
  /\ \A a \in key : idx[a] # 0 =>
       /\ state[idx[a]] = "COMPRESSING" => mem[a] = written[a]
       /\ state[idx[a]] = "COMPRESSED" => blob[idx[a]] = written[a] /\ a \notin open
  /\ wpc \in {"snapshot", "finish"} => waddr \notin open
  /\ wpc = "finish" => wbuf = written[waddr]
  /\ \A i \in Indices : state[i] = "COMPRESSING" => wpc # "idle" /\ wi = i

\* A page the kernel refused to unmap has no index, and gets none.
RefusedInv ==
  /\ \A a \in refused : a \notin key \/ idx[a] = 0
  /\ \A t \in Threads : pc[t] \in Tracking => arg[t] \notin refused

DataAll == FreshInv /\ MapInv /\ DataInv /\ RefusedInv

-----------------------------------------------------------------------------
\* Without mremap and MAP_FIXED it is mapped, and found under its address.
LEMMA WorkerOn ==
  ASSUME Named, IndexInv, DataAll, wpc \in {"snapshot", "finish", "reclaim"}
  PROVE  waddr \in mapped /\ waddr \in key /\ idx[waddr] = wi /\ wi # 0
<1>1. wi \in Indices /\ state[wi] # "EMPTY" /\ reverse[wi] = waddr /\ waddr \in Addrs
  BY WorkerAt, Zenon
<1>2. waddr # NoAddr
  BY <1>1, Zenon DEF Named
<1>3. ~ \E t \in Threads : pc[t] = "reversed" /\ slot[t] = wi
  BY <1>1, Zenon DEF DataAll, FreshInv, Entering
<1>4. waddr \in key /\ idx[waddr] = wi
  BY <1>1, <1>2, <1>3, Zenon DEF IndexInv, TableInv
<1>5. wi # 0
  BY <1>1, IndexRange, Zenon DEF IndexInv
<1> QED
  BY <1>4, <1>5, Zenon DEF DataAll, MapInv

\* The initial states.
LEMMA DataInit == ASSUME Named, Init PROVE DataAll
BY Zenon DEF Named, Init, DataAll, FreshInv, MapInv, DataInv, RefusedInv, Entering,
   Tracking, Indices

\* A step that enters no page and leaves states and locks alone.
LEMMA FreshFrame ==
  ASSUME FreshInv, UNCHANGED <<state, lock>>,
         \A u \in Threads : pc'[u] \in Entering => pc[u] \in Entering /\ slot'[u] = slot[u]
  PROVE  FreshInv'
BY ZenonT(40) DEF FreshInv

\* A step that touches the state and the lock of one page that is not EMPTY.
LEMMA FreshElsewhere ==
  ASSUME FreshInv, SlotInv, NEW i \in Indices, state[i] # "EMPTY",
         \A j \in Indices : j # i => state'[j] = state[j] /\ lock'[j] = lock[j],
         UNCHANGED <<pc, slot>>
  PROVE  FreshInv'
<1> SUFFICES ASSUME NEW t \in Threads, pc[t] \in Entering
             PROVE  state'[slot[t]] = "EMPTY" /\ lock'[slot[t]] = NoAddr
  BY Zenon DEF FreshInv
<1>1. slot[t] \in Indices
  BY Zenon DEF SlotInv
<1>2. state[slot[t]] = "EMPTY" /\ lock[slot[t]] = NoAddr
  BY Zenon DEF FreshInv
<1> QED
  BY <1>1, <1>2, Zenon

\* A step that leaves what is tracked and mapped alone.
LEMMA MapFrame ==
  ASSUME MapInv, UNCHANGED <<mapped, key, idx, state, wpc, wi, bad>>,
         \A u \in Threads : to'[u] = NoAddr /\ (arg'[u] # NoAddr => arg'[u] \in mapped),
         \A u \in Threads : pc'[u] = "track" => pc[u] = "track" /\ arg'[u] = arg[u]
  PROVE  MapInv'
BY Zenon DEF MapInv

\* A step that leaves what DataInv is about alone.
LEMMA DataFrame ==
  ASSUME DataInv, UNCHANGED <<kernel, key, idx, state, blob, worker>>,
         \A u \in Threads : pc[u] = "unmap" => pc'[u] = "unmap" /\ arg'[u] = arg[u]
  PROVE  DataInv'
<1>1. /\ mapped' = mapped /\ open' = open /\ mem' = mem /\ written' = written
      /\ key' = key /\ idx' = idx /\ state' = state /\ blob' = blob
      /\ wpc' = wpc /\ wi' = wi /\ waddr' = waddr /\ wbuf' = wbuf /\ refused' = refused
  BY Zenon DEF kernel, worker
<1>2. ASSUME NEW a \in mapped, a \notin open
      PROVE  \/ a \in key /\ idx[a] # 0 /\ state[idx[a]] \in {"COMPRESSING", "COMPRESSED"}
             \/ \E t \in Threads : pc'[t] = "unmap" /\ arg'[t] = a
             \/ a \in refused'
  <2>1. \/ a \in key /\ idx[a] # 0 /\ state[idx[a]] \in {"COMPRESSING", "COMPRESSED"}
        \/ \E t \in Threads : pc[t] = "unmap" /\ arg[t] = a
        \/ a \in refused
    BY <1>2, Zenon DEF DataInv
  <2> QED
    BY <1>1, <2>1, Zenon
<1>3. /\ \A a \in mapped : a \in open => mem[a] = written[a]
      /\ \A a \in key : idx[a] # 0 =>
           /\ state[idx[a]] = "COMPRESSING" => mem[a] = written[a]
           /\ state[idx[a]] = "COMPRESSED" => blob[idx[a]] = written[a] /\ a \notin open
      /\ wpc \in {"snapshot", "finish"} => waddr \notin open
      /\ wpc = "finish" => wbuf = written[waddr]
      /\ \A i \in Indices : state[i] = "COMPRESSING" => wpc # "idle" /\ wi = i
  BY Zenon DEF DataInv
<1>4. \A a \in mapped :
        /\ a \in open => mem[a] = written[a]
        /\ a \notin open =>
             \/ a \in key /\ idx[a] # 0 /\ state[idx[a]] \in {"COMPRESSING", "COMPRESSED"}
             \/ \E t \in Threads : pc'[t] = "unmap" /\ arg'[t] = a
             \/ a \in refused'
  BY <1>2, <1>3, Zenon
<1>5. \A a \in mapped' :
        /\ a \in open' => mem'[a] = written'[a]
        /\ a \notin open' =>
             \/ a \in key' /\ idx'[a] # 0 /\ state'[idx'[a]] \in {"COMPRESSING", "COMPRESSED"}
             \/ \E t \in Threads : pc'[t] = "unmap" /\ arg'[t] = a
             \/ a \in refused'
  BY <1>1, <1>4, Zenon
<1>6. \A a \in key' : idx'[a] # 0 =>
        /\ state'[idx'[a]] = "COMPRESSING" => mem'[a] = written'[a]
        /\ state'[idx'[a]] = "COMPRESSED" => blob'[idx'[a]] = written'[a] /\ a \notin open'
  BY <1>1, <1>3, Zenon
<1>7. /\ wpc' \in {"snapshot", "finish"} => waddr' \notin open'
      /\ wpc' = "finish" => wbuf' = written'[waddr']
      /\ \A i \in Indices : state'[i] = "COMPRESSING" => wpc' # "idle" /\ wi' = i
  BY <1>1, <1>3, Zenon
<1> QED
  BY <1>5, <1>6, <1>7, Zenon DEF DataInv

\* Every step keeps a page unknown while it is entered, when a page is entered.
LEMMA FreshTrack ==
  ASSUME Named, ~MayRemap, IndexInv, DataAll, TrackStep PROVE FreshInv'
<1> USE DEF Named, Indices, kernel, table, pages, app, worker
<1>0. /\ TypeInv /\ ThreadInv /\ SlotInv /\ TableInv /\ StateInv
      /\ FreshInv /\ MapInv /\ DataInv
  BY Zenon DEF IndexInv, DataAll
<1>1. ASSUME NEW t \in Threads, NEW a \in Addrs, Mmap(t, a) PROVE FreshInv'
  <2>1. /\ UNCHANGED <<state, lock>>
        /\ \A u \in Threads : pc'[u] \in Entering => pc[u] \in Entering /\ slot'[u] = slot[u]
    BY <1>0, <1>1, Zenon DEF TypeInv, Entering, Mmap, Goto
  <2> QED
    BY <1>0, <2>1, FreshFrame, Zenon
<1>2. ASSUME NEW t \in Threads, TrackNothing(t) PROVE FreshInv'
  <2>1. /\ UNCHANGED <<state, lock>>
        /\ \A u \in Threads : pc'[u] \in Entering => pc[u] \in Entering /\ slot'[u] = slot[u]
    BY <1>0, <1>2, Zenon DEF TypeInv, Entering, TrackNothing, Done, Goto
  <2> QED
    BY <1>0, <2>1, FreshFrame, Zenon
<1>3. ASSUME NEW t \in Threads, TrackAgain(t) PROVE FreshInv'
  BY <1>0, <1>3, Zenon DEF MapInv, TrackAgain
<1>4. ASSUME NEW t \in Threads, ClaimKey(t) PROVE FreshInv'
  <2>1. /\ UNCHANGED <<state, lock>>
        /\ \A u \in Threads : pc'[u] \in Entering => pc[u] \in Entering /\ slot'[u] = slot[u]
    BY <1>0, <1>4, Zenon DEF TypeInv, Entering, ClaimKey, Goto
  <2> QED
    BY <1>0, <2>1, FreshFrame, Zenon
<1>5. ASSUME NEW t \in Threads, SlotsGone(t) PROVE FreshInv'
  <2>1. /\ UNCHANGED <<state, lock>>
        /\ \A u \in Threads : pc'[u] \in Entering => pc[u] \in Entering /\ slot'[u] = slot[u]
    BY <1>0, <1>5, Zenon DEF TypeInv, Entering, SlotsGone, Done, Goto
  <2> QED
    BY <1>0, <2>1, FreshFrame, Zenon
<1>6. ASSUME NEW t \in Threads, SlotTaken(t) PROVE FreshInv'
  <2>1. /\ slotNext + 1 \in Indices /\ state[slotNext + 1] = "EMPTY"
        /\ lock[slotNext + 1] = NoAddr
    BY <1>0, <1>6, NextSlot, Zenon DEF SlotTaken, SlotInv
  <2>2. slot'[t] = slotNext + 1 /\ \A u \in Threads : u # t => slot'[u] = slot[u] /\ pc'[u] = pc[u]
    BY <1>0, <1>6, Zenon DEF SlotTaken, Goto, TypeInv
  <2>3. UNCHANGED <<state, lock>>
    BY <1>6, Zenon DEF SlotTaken
  <2> QED
    BY <1>0, <2>1, <2>2, <2>3, Zenon DEF FreshInv
<1>7. ASSUME NEW t \in Threads, WriteReverse(t) PROVE FreshInv'
  <2>1. /\ UNCHANGED <<state, lock>>
        /\ \A u \in Threads : pc'[u] \in Entering => pc[u] \in Entering /\ slot'[u] = slot[u]
    BY <1>0, <1>7, Zenon DEF TypeInv, Entering, WriteReverse, Goto
  <2> QED
    BY <1>0, <2>1, FreshFrame, Zenon
<1>8. ASSUME NEW t \in Threads, PublishIdx(t) PROVE FreshInv'
  <2>1. /\ UNCHANGED <<state, lock>>
        /\ \A u \in Threads : pc'[u] \in Entering => pc[u] \in Entering /\ slot'[u] = slot[u]
    BY <1>0, <1>8, Zenon DEF TypeInv, Entering, PublishIdx, Goto
  <2> QED
    BY <1>0, <2>1, FreshFrame, Zenon
<1>9. ASSUME NEW t \in Threads, CountSlot(t) PROVE FreshInv'
  <2>1. /\ UNCHANGED <<state, lock>>
        /\ \A u \in Threads : pc'[u] \in Entering => pc[u] \in Entering /\ slot'[u] = slot[u]
    BY <1>0, <1>9, Zenon DEF TypeInv, Entering, CountSlot, Goto
  <2> QED
    BY <1>0, <2>1, FreshFrame, Zenon
<1>10. ASSUME NEW t \in Threads, SetActive(t) PROVE FreshInv'
  <2>1. pc[t] \in Entering
    BY <1>10, Zenon DEF SetActive, Entering
  <2>2. slot[t] \in Indices
    BY <1>0, <2>1, Zenon DEF SlotInv
  <2>3. /\ pc'[t] = "idle" /\ lock' = lock
        /\ \A u \in Threads : u # t => pc'[u] = pc[u] /\ slot'[u] = slot[u]
        /\ \A j \in Indices : j # slot[t] => state'[j] = state[j]
    BY <1>0, <1>10, <2>2, Zenon DEF SetActive, Done, Goto, TypeInv
  <2>4. ASSUME NEW u \in Threads, pc'[u] \in Entering
        PROVE  state'[slot'[u]] = "EMPTY" /\ lock'[slot'[u]] = NoAddr
    <3>1. u # t
      BY <2>3, <2>4, Zenon DEF Entering
    <3>2. pc[u] \in Entering /\ slot'[u] = slot[u]
      BY <2>3, <2>4, <3>1, Zenon
    <3>3. slot[u] \in Indices /\ slot[u] # slot[t]
      BY <1>0, <2>1, <3>1, <3>2, Zenon DEF SlotInv
    <3>4. state[slot[u]] = "EMPTY" /\ lock[slot[u]] = NoAddr
      BY <1>0, <3>2, Zenon DEF FreshInv
    <3> QED
      BY <2>3, <3>2, <3>3, <3>4, Zenon
  <2> QED
    BY <2>4, Zenon DEF FreshInv
<1> QED
  BY <1>1, <1>2, <1>3, <1>4, <1>5, <1>6, <1>7, <1>8, <1>9, <1>10, Zenon DEF TrackStep

\* Every step keeps a page unknown while it is entered, when one is taken out.
LEMMA FreshUntrack ==
  ASSUME Named, ~MayRemap, IndexInv, DataAll, UntrackStep PROVE FreshInv'
<1> USE DEF Named, Indices, kernel, table, pages, app, worker
<1>0. /\ TypeInv /\ ThreadInv /\ SlotInv /\ TableInv /\ StateInv
      /\ FreshInv /\ MapInv /\ DataInv
  BY Zenon DEF IndexInv, DataAll
<1>1. ASSUME NEW t \in Threads, NEW a \in Addrs, Munmap(t, a) PROVE FreshInv'
  <2>1. /\ UNCHANGED <<state, lock>>
        /\ \A u \in Threads : pc'[u] \in Entering => pc[u] \in Entering /\ slot'[u] = slot[u]
    BY <1>0, <1>1, Zenon DEF TypeInv, Entering, Munmap, Goto
  <2> QED
    BY <1>0, <2>1, FreshFrame, Zenon
<1>2. ASSUME NEW t \in Threads, NotTracked(t) PROVE FreshInv'
  <2>1. /\ UNCHANGED <<state, lock>>
        /\ \A u \in Threads : pc'[u] \in Entering => pc[u] \in Entering /\ slot'[u] = slot[u]
    BY <1>0, <1>2, Zenon DEF TypeInv, Entering, NotTracked, Goto
  <2> QED
    BY <1>0, <2>1, FreshFrame, Zenon
<1>3. ASSUME NEW t \in Threads, Locked(t) PROVE FreshInv'
  <2> DEFINE a == arg[t]
  <2>1. a \in key /\ idx[a] # 0 /\ reverse[idx[a]] = a /\ a # NoAddr
    BY <1>0, <1>3, Zenon DEF Locked, TableInv, TypeInv
  <2>2. idx[a] \in Indices
    BY <1>0, <2>1, IndexRange, Zenon
  <2>3. /\ state' = state /\ pc'[t] = "locked"
        /\ \A u \in Threads : u # t => pc'[u] = pc[u] /\ slot'[u] = slot[u]
        /\ \A j \in Indices : j # idx[a] => lock'[j] = lock[j]
    BY <1>0, <1>3, <2>2, Zenon DEF Locked, Goto, TypeInv
  <2>4. ASSUME NEW u \in Threads, pc'[u] \in Entering
        PROVE  state'[slot'[u]] = "EMPTY" /\ lock'[slot'[u]] = NoAddr
    <3>1. u # t
      BY <2>3, <2>4, Zenon DEF Entering
    <3>2. pc[u] \in Entering /\ slot'[u] = slot[u]
      BY <2>3, <2>4, <3>1, Zenon
    <3>3. arg[u] # a
      BY <1>0, <2>1, <3>1, Zenon DEF ThreadInv
    <3>4. slot[u] \in Indices
      BY <1>0, <3>2, Zenon DEF SlotInv
    <3>5. slot[u] # 0
      BY <3>4, IndexRange, <1>0, Zenon
    <3>6. slot[u] # idx[a]
      <4>1. CASE pc[u] = "reserved"
        <5>1. reverse[slot[u]] = NoAddr
          BY <1>0, <4>1, Zenon DEF TableInv
        <5> QED
          BY <2>1, <5>1, Zenon
      <4>2. CASE pc[u] = "reversed"
        <5>1. reverse[slot[u]] = arg[u]
          BY <1>0, <4>2, Zenon DEF TableInv
        <5> QED
          BY <2>1, <3>3, <5>1, Zenon
      <4>3. CASE pc[u] \in {"published", "counted"}
        <5>1. arg[u] \in key /\ idx[arg[u]] = slot[u]
          BY <1>0, <4>3, Zenon DEF TableInv
        <5>2. reverse[idx[arg[u]]] = arg[u]
          BY <1>0, <3>5, <5>1, Zenon DEF TableInv
        <5> QED
          BY <2>1, <3>3, <5>1, <5>2, Zenon
      <4> QED
        BY <3>2, <4>1, <4>2, <4>3, Zenon DEF Entering
    <3>7. state[slot[u]] = "EMPTY" /\ lock[slot[u]] = NoAddr
      BY <1>0, <3>2, Zenon DEF FreshInv
    <3> QED
      BY <2>3, <3>2, <3>4, <3>6, <3>7, Zenon
  <2> QED
    BY <2>4, Zenon DEF FreshInv
<1>4. ASSUME NEW t \in Threads, Untrack(t) PROVE FreshInv'
  <2>1. slot[t] \in Indices
    BY <1>0, <1>4, Zenon DEF Untrack, SlotInv
  <2>2. /\ pc'[t] = "unmap" /\ slot' = slot
        /\ \A u \in Threads : u # t => pc'[u] = pc[u]
        /\ state'[slot[t]] = "EMPTY" /\ lock'[slot[t]] = NoAddr
        /\ \A j \in Indices : j # slot[t] => state'[j] = state[j] /\ lock'[j] = lock[j]
    BY <1>0, <1>4, <2>1, Zenon DEF Untrack, Goto, TypeInv
  <2>3. ASSUME NEW u \in Threads, pc'[u] \in Entering
        PROVE  state'[slot[u]] = "EMPTY" /\ lock'[slot[u]] = NoAddr
    <3>1. u # t
      BY <2>2, <2>3, Zenon DEF Entering
    <3>2. pc[u] \in Entering
      BY <2>2, <2>3, <3>1, Zenon
    <3>3. slot[u] \in Indices
      BY <1>0, <3>2, Zenon DEF SlotInv
    <3>4. state[slot[u]] = "EMPTY" /\ lock[slot[u]] = NoAddr
      BY <1>0, <3>2, Zenon DEF FreshInv
    <3> QED
      BY <2>2, <3>3, <3>4, Zenon
  <2> QED
    BY <2>2, <2>3, Zenon DEF FreshInv
<1>5. ASSUME NEW t \in Threads, Unmapped(t) PROVE FreshInv'
  <2>1. /\ UNCHANGED <<state, lock>>
        /\ \A u \in Threads : pc'[u] \in Entering => pc[u] \in Entering /\ slot'[u] = slot[u]
    BY <1>0, <1>5, Zenon DEF TypeInv, Entering, Unmapped, Done, Goto
  <2> QED
    BY <1>0, <2>1, FreshFrame, Zenon
<1>6. ASSUME NEW t \in Threads, Moved(t) PROVE FreshInv'
  <2>1. /\ UNCHANGED <<state, lock>>
        /\ \A u \in Threads : pc'[u] \in Entering => pc[u] \in Entering /\ slot'[u] = slot[u]
    BY <1>0, <1>6, Zenon DEF TypeInv, Entering, Moved, Goto
  <2> QED
    BY <1>0, <2>1, FreshFrame, Zenon
<1>7. ASSUME NEW t \in Threads, NEW a \in Addrs, NEW b \in Addrs, Mremap(t, a, b) PROVE FreshInv'
  BY <1>0, <1>7, Zenon DEF Mremap, Goto, Free
<1>8. ASSUME NEW t \in Threads, UnmapRefused(t) PROVE FreshInv'
  <2>1. /\ UNCHANGED <<state, lock>>
        /\ \A u \in Threads : pc'[u] \in Entering => pc[u] \in Entering /\ slot'[u] = slot[u]
    BY <1>0, <1>8, Zenon DEF TypeInv, Entering, UnmapRefused, Done, Goto
  <2> QED
    BY <1>0, <2>1, FreshFrame, Zenon
<1> QED
  BY <1>1, <1>2, <1>3, <1>4, <1>5, <1>6, <1>7, <1>8, Zenon DEF UntrackStep

\* Every step keeps a page unknown while it is entered, when pages are used and compressed.
LEMMA FreshUse ==
  ASSUME Named, ~MayRemap, IndexInv, DataAll, UseStep PROVE FreshInv'
<1> USE DEF Named, Indices, kernel, table, pages, app, worker
<1>0. /\ TypeInv /\ ThreadInv /\ SlotInv /\ TableInv /\ StateInv
      /\ FreshInv /\ MapInv /\ DataInv
  BY Zenon DEF IndexInv, DataAll
<1>1. ASSUME NEW t \in Threads, NEW a \in Addrs, Store(t, a) PROVE FreshInv'
  BY <1>0, <1>1, Zenon DEF FreshInv, Store, Free
<1>2. ASSUME NEW t \in Threads, NEW a \in Addrs, Restored(t, a) PROVE FreshInv'
  <2>1. idx[a] \in Indices /\ state[idx[a]] # "EMPTY"
    BY <1>0, <1>2, IndexRange, Zenon DEF Restored
  <2>2. /\ UNCHANGED <<pc, slot>>
        /\ \A j \in Indices : j # idx[a] => state'[j] = state[j] /\ lock'[j] = lock[j]
    BY <1>0, <1>2, <2>1, Zenon DEF Restored, TypeInv
  <2> QED
    BY <1>0, <2>1, <2>2, FreshElsewhere, Zenon
<1>3. ASSUME NEW t \in Threads, NEW a \in Addrs, FoundOpen(t, a) PROVE FreshInv'
  BY <1>0, <1>3, Zenon DEF FreshInv, FoundOpen, Free
<1>4. ASSUME NEW i \in Indices, BeginCompress(i) PROVE FreshInv'
  <2>1. i \in Indices /\ state[i] # "EMPTY"
    BY <1>4, Zenon DEF BeginCompress
  <2>2. /\ UNCHANGED <<pc, slot>>
        /\ \A j \in Indices : j # i => state'[j] = state[j] /\ lock'[j] = lock[j]
    BY <1>0, <1>4, <2>1, Zenon DEF BeginCompress, TypeInv
  <2> QED
    BY <1>0, <2>1, <2>2, FreshElsewhere, Zenon
<1>5. ASSUME NEW i \in Indices, BeginReclaim(i) PROVE FreshInv'
  <2>1. i \in Indices /\ state[i] # "EMPTY"
    BY <1>5, Zenon DEF BeginReclaim
  <2>2. /\ UNCHANGED <<pc, slot>>
        /\ \A j \in Indices : j # i => state'[j] = state[j] /\ lock'[j] = lock[j]
    BY <1>0, <1>5, <2>1, Zenon DEF BeginReclaim, TypeInv
  <2> QED
    BY <1>0, <2>1, <2>2, FreshElsewhere, Zenon
<1>6. ASSUME WorkerAddress PROVE FreshInv'
  <2>1. reverse[wi] # NoAddr
    BY <1>0, <1>6, Zenon DEF WorkerAddress, SlotInv, StateInv
  <2>2. UNCHANGED <<state, lock, pc, slot>>
    BY <1>6, <2>1, Zenon DEF WorkerAddress
  <2> QED
    BY <1>0, <2>2, Zenon DEF FreshInv
<1>7. ASSUME Snapshot PROVE FreshInv'
  BY <1>0, <1>7, Zenon DEF FreshInv, Snapshot
<1>8. ASSUME Stored PROVE FreshInv'
  <2>1. wi \in Indices /\ state[wi] # "EMPTY"
    BY <1>8, WorkerAt, Zenon DEF Stored
  <2>2. /\ UNCHANGED <<pc, slot>>
        /\ \A j \in Indices : j # wi => state'[j] = state[j] /\ lock'[j] = lock[j]
    BY <1>0, <1>8, <2>1, Zenon DEF Stored, WorkerEnd, TypeInv
  <2> QED
    BY <1>0, <2>1, <2>2, FreshElsewhere, Zenon
<1>9. ASSUME GivenUp PROVE FreshInv'
  <2>1. wi \in Indices /\ state[wi] # "EMPTY"
    BY <1>9, WorkerAt, Zenon DEF GivenUp
  <2>2. /\ UNCHANGED <<pc, slot>>
        /\ \A j \in Indices : j # wi => state'[j] = state[j] /\ lock'[j] = lock[j]
    BY <1>0, <1>9, <2>1, Zenon DEF GivenUp, WorkerEnd, TypeInv
  <2> QED
    BY <1>0, <2>1, <2>2, FreshElsewhere, Zenon
<1>10. ASSUME Reclaim PROVE FreshInv'
  <2>1. wi \in Indices /\ state[wi] # "EMPTY"
    BY <1>10, WorkerAt, Zenon DEF Reclaim
  <2>2. /\ UNCHANGED <<pc, slot>>
        /\ \A j \in Indices : j # wi => state'[j] = state[j] /\ lock'[j] = lock[j]
    BY <1>0, <1>10, <2>1, Zenon DEF Reclaim, WorkerEnd, TypeInv
  <2> QED
    BY <1>0, <2>1, <2>2, FreshElsewhere, Zenon
<1> QED
  BY <1>1, <1>2, <1>3, <1>4, <1>5, <1>6, <1>7, <1>8, <1>9, <1>10, Zenon DEF UseStep

\* Every step keeps a page unknown while it is entered.
LEMMA FreshStep ==
  ASSUME Named, ~MayRemap, IndexInv, DataAll, [Next]_vars PROVE FreshInv'
<1>1. CASE UNCHANGED vars
  BY <1>1, Zenon DEF vars, kernel, table, pages, app, worker, IndexInv, DataAll,
       FreshInv
<1> QED
  BY <1>1, FreshTrack, FreshUntrack, FreshUse, Branches, Zenon
     DEF IndexInv

\* Every step keeps what is tracked mapped, when a page is entered.
LEMMA MapTrack ==
  ASSUME Named, ~MayRemap, IndexInv, DataAll, TrackStep PROVE MapInv'
<1> USE DEF Named, Indices, kernel, table, pages, app, worker
<1>0. /\ TypeInv /\ ThreadInv /\ SlotInv /\ TableInv /\ StateInv
      /\ FreshInv /\ MapInv /\ DataInv
  BY Zenon DEF IndexInv, DataAll
<1>1. ASSUME NEW t \in Threads, NEW a \in Addrs, Mmap(t, a) PROVE MapInv'
  BY <1>0, <1>1, Zenon DEF MapInv, TypeInv, Mmap, Goto, Free
<1>2. ASSUME NEW t \in Threads, TrackNothing(t) PROVE MapInv'
  BY <1>0, <1>2, Zenon DEF MapInv, TypeInv, TrackNothing, Done, Goto
<1>3. ASSUME NEW t \in Threads, TrackAgain(t) PROVE MapInv'
  BY <1>0, <1>3, Zenon DEF MapInv, TrackAgain, Done, Goto
<1>4. ASSUME NEW t \in Threads, ClaimKey(t) PROVE MapInv'
  <2> DEFINE a == arg[t]
  <2>1. a \in Addrs
    BY <1>0, <1>4, Zenon DEF ClaimKey, ThreadInv
  <2>2. /\ key' = key \cup {a} /\ idx'[a] = 0 /\ \A b \in Addrs : b # a => idx'[b] = idx[b]
        /\ pc'[t] = "claimed" /\ \A u \in Threads : u # t => pc'[u] = pc[u]
        /\ UNCHANGED <<mapped, state, arg, to, wpc, wi, bad>>
    BY <1>0, <1>4, <2>1, Zenon DEF ClaimKey, Goto, TypeInv
  <2>3. ASSUME NEW b \in key', idx'[b] # 0 PROVE b \in mapped'
    <3>1. b \in key /\ b \in Addrs /\ b # a
      BY <1>0, <2>2, <2>3, Zenon DEF TypeInv
    <3> QED
      BY <1>0, <2>2, <2>3, <3>1, Zenon DEF MapInv
  <2>4. ASSUME NEW u \in Threads, pc'[u] = "track"
        PROVE  arg'[u] \notin key' \/ idx'[arg'[u]] = 0
    <3>1. u # t
      BY <2>2, <2>4, Zenon
    <3>2. pc[u] = "track" /\ arg[u] # a /\ arg[u] \in Addrs
      BY <1>0, <2>1, <2>2, <2>4, <3>1, Zenon DEF ThreadInv
    <3>3. arg[u] \notin key \/ idx[arg[u]] = 0
      BY <1>0, <3>2, Zenon DEF MapInv
    <3> QED
      BY <2>2, <3>2, <3>3, Zenon
  <2>5. /\ \A u \in Threads : to'[u] = NoAddr /\ (arg'[u] # NoAddr => arg'[u] \in mapped')
        /\ wpc' \in {"locked", "snapshot", "finish"} => state'[wi'] = "COMPRESSING"
        /\ wpc' = "reclaim" => state'[wi'] = "COMPRESSED"
        /\ ~bad'
    BY <1>0, <2>2, Zenon DEF MapInv
  <2> QED
    BY <2>3, <2>4, <2>5, Zenon DEF MapInv
<1>5. ASSUME NEW t \in Threads, SlotsGone(t) PROVE MapInv'
  <2>1. UNCHANGED <<mapped, key, idx, state, wpc, wi, bad>>
    BY <1>5, Zenon DEF SlotsGone, Done, Goto
  <2>2. /\ \A u \in Threads : to'[u] = NoAddr /\ (arg'[u] # NoAddr => arg'[u] \in mapped)
        /\ \A u \in Threads : pc'[u] = "track" => pc[u] = "track" /\ arg'[u] = arg[u]
    BY <1>0, <1>5, Zenon DEF SlotsGone, Done, Goto, TypeInv, MapInv
  <2> QED
    BY <1>0, <2>1, <2>2, MapFrame, Zenon
<1>6. ASSUME NEW t \in Threads, SlotTaken(t) PROVE MapInv'
  <2>1. UNCHANGED <<mapped, key, idx, state, wpc, wi, bad>>
    BY <1>6, Zenon DEF SlotTaken, Goto
  <2>2. /\ \A u \in Threads : to'[u] = NoAddr /\ (arg'[u] # NoAddr => arg'[u] \in mapped)
        /\ \A u \in Threads : pc'[u] = "track" => pc[u] = "track" /\ arg'[u] = arg[u]
    BY <1>0, <1>6, Zenon DEF SlotTaken, Goto, TypeInv, MapInv
  <2> QED
    BY <1>0, <2>1, <2>2, MapFrame, Zenon
<1>7. ASSUME NEW t \in Threads, WriteReverse(t) PROVE MapInv'
  <2>1. UNCHANGED <<mapped, key, idx, state, wpc, wi, bad>>
    BY <1>7, Zenon DEF WriteReverse, Goto
  <2>2. /\ \A u \in Threads : to'[u] = NoAddr /\ (arg'[u] # NoAddr => arg'[u] \in mapped)
        /\ \A u \in Threads : pc'[u] = "track" => pc[u] = "track" /\ arg'[u] = arg[u]
    BY <1>0, <1>7, Zenon DEF WriteReverse, Goto, TypeInv, MapInv
  <2> QED
    BY <1>0, <2>1, <2>2, MapFrame, Zenon
<1>8. ASSUME NEW t \in Threads, PublishIdx(t) PROVE MapInv'
  <2> DEFINE a == arg[t]
  <2>1. a \in Addrs /\ a \in mapped
    BY <1>0, <1>8, Zenon DEF PublishIdx, ThreadInv, MapInv
  <2>2. /\ key' = key /\ \A b \in Addrs : b # a => idx'[b] = idx[b]
        /\ pc'[t] = "published" /\ \A u \in Threads : u # t => pc'[u] = pc[u]
        /\ UNCHANGED <<mapped, state, arg, to, wpc, wi, bad>>
    BY <1>0, <1>8, <2>1, Zenon DEF PublishIdx, Goto, TypeInv
  <2>3. ASSUME NEW b \in key', idx'[b] # 0 PROVE b \in mapped'
    <3>1. CASE b = a
      BY <2>1, <2>2, <3>1, Zenon
    <3>2. CASE b # a
      <4>1. b \in key /\ idx[b] # 0
        BY <1>0, <2>2, <2>3, <3>2, Zenon DEF TypeInv
      <4> QED
        BY <1>0, <2>2, <4>1, Zenon DEF MapInv
    <3> QED
      BY <3>1, <3>2, Zenon
  <2>4. ASSUME NEW u \in Threads, pc'[u] = "track"
        PROVE  arg'[u] \notin key' \/ idx'[arg'[u]] = 0
    <3>1. u # t
      BY <2>2, <2>4, Zenon
    <3>2. pc[u] = "track" /\ arg[u] # a /\ arg[u] \in Addrs
      BY <1>0, <2>1, <2>2, <2>4, <3>1, Zenon DEF ThreadInv
    <3>3. arg[u] \notin key \/ idx[arg[u]] = 0
      BY <1>0, <3>2, Zenon DEF MapInv
    <3> QED
      BY <2>2, <3>2, <3>3, Zenon
  <2>5. /\ \A u \in Threads : to'[u] = NoAddr /\ (arg'[u] # NoAddr => arg'[u] \in mapped')
        /\ wpc' \in {"locked", "snapshot", "finish"} => state'[wi'] = "COMPRESSING"
        /\ wpc' = "reclaim" => state'[wi'] = "COMPRESSED"
        /\ ~bad'
    BY <1>0, <2>2, Zenon DEF MapInv
  <2> QED
    BY <2>3, <2>4, <2>5, Zenon DEF MapInv
<1>9. ASSUME NEW t \in Threads, CountSlot(t) PROVE MapInv'
  <2>1. UNCHANGED <<mapped, key, idx, state, wpc, wi, bad>>
    BY <1>9, Zenon DEF CountSlot, Goto
  <2>2. /\ \A u \in Threads : to'[u] = NoAddr /\ (arg'[u] # NoAddr => arg'[u] \in mapped)
        /\ \A u \in Threads : pc'[u] = "track" => pc[u] = "track" /\ arg'[u] = arg[u]
    BY <1>0, <1>9, Zenon DEF CountSlot, Goto, TypeInv, MapInv
  <2> QED
    BY <1>0, <2>1, <2>2, MapFrame, Zenon
<1>10. ASSUME NEW t \in Threads, SetActive(t) PROVE MapInv'
  <2>1. slot[t] \in Indices /\ state[slot[t]] = "EMPTY"
    BY <1>0, <1>10, Zenon DEF SetActive, SlotInv, FreshInv, Entering
  <2>2. /\ UNCHANGED <<mapped, key, idx, wpc, wi, bad>>
        /\ \A j \in Indices : j # slot[t] => state'[j] = state[j]
        /\ \A u \in Threads : to'[u] = NoAddr /\ (arg'[u] # NoAddr => arg'[u] \in mapped)
        /\ \A u \in Threads : pc'[u] = "track" => pc[u] = "track" /\ arg'[u] = arg[u]
    BY <1>0, <1>10, <2>1, Zenon DEF SetActive, Done, Goto, TypeInv, MapInv
  <2>3. wpc # "idle" => state'[wi] = state[wi]
    <3>1. wpc # "idle" => wi \in Indices /\ state[wi] # "EMPTY"
      BY <1>0, Zenon DEF SlotInv, StateInv, TypeInv
    <3> QED
      BY <2>1, <2>2, <3>1, Zenon
  <2>4. /\ wpc' \in {"locked", "snapshot", "finish"} => state'[wi'] = "COMPRESSING"
        /\ wpc' = "reclaim" => state'[wi'] = "COMPRESSED"
    BY <1>0, <2>2, <2>3, Zenon DEF MapInv
  <2> QED
    BY <1>0, <2>2, <2>4, Zenon DEF MapInv
<1> QED
  BY <1>1, <1>2, <1>3, <1>4, <1>5, <1>6, <1>7, <1>8, <1>9, <1>10, Zenon DEF TrackStep

\* Every step keeps what is tracked mapped, when one is taken out.
LEMMA MapUntrack ==
  ASSUME Named, ~MayRemap, IndexInv, DataAll, UntrackStep PROVE MapInv'
<1> USE DEF Named, Indices, kernel, table, pages, app, worker
<1>0. /\ TypeInv /\ ThreadInv /\ SlotInv /\ TableInv /\ StateInv
      /\ FreshInv /\ MapInv /\ DataInv
  BY Zenon DEF IndexInv, DataAll
<1>1. ASSUME NEW t \in Threads, NEW a \in Addrs, Munmap(t, a) PROVE MapInv'
  <2>1. UNCHANGED <<mapped, key, idx, state, wpc, wi, bad>>
    BY <1>1, Zenon DEF Munmap, Goto
  <2>2. /\ \A u \in Threads : to'[u] = NoAddr /\ (arg'[u] # NoAddr => arg'[u] \in mapped)
        /\ \A u \in Threads : pc'[u] = "track" => pc[u] = "track" /\ arg'[u] = arg[u]
    BY <1>0, <1>1, Zenon DEF Munmap, Goto, TypeInv, MapInv
  <2> QED
    BY <1>0, <2>1, <2>2, MapFrame, Zenon
<1>2. ASSUME NEW t \in Threads, NotTracked(t) PROVE MapInv'
  <2>1. UNCHANGED <<mapped, key, idx, state, wpc, wi, bad>>
    BY <1>2, Zenon DEF NotTracked, Goto
  <2>2. /\ \A u \in Threads : to'[u] = NoAddr /\ (arg'[u] # NoAddr => arg'[u] \in mapped)
        /\ \A u \in Threads : pc'[u] = "track" => pc[u] = "track" /\ arg'[u] = arg[u]
    BY <1>0, <1>2, Zenon DEF NotTracked, Goto, TypeInv, MapInv
  <2> QED
    BY <1>0, <2>1, <2>2, MapFrame, Zenon
<1>3. ASSUME NEW t \in Threads, Locked(t) PROVE MapInv'
  <2>1. UNCHANGED <<mapped, key, idx, state, wpc, wi, bad>>
    BY <1>3, Zenon DEF Locked, Goto
  <2>2. /\ \A u \in Threads : to'[u] = NoAddr /\ (arg'[u] # NoAddr => arg'[u] \in mapped)
        /\ \A u \in Threads : pc'[u] = "track" => pc[u] = "track" /\ arg'[u] = arg[u]
    BY <1>0, <1>3, Zenon DEF Locked, Goto, TypeInv, MapInv
  <2> QED
    BY <1>0, <2>1, <2>2, MapFrame, Zenon
<1>4. ASSUME NEW t \in Threads, Untrack(t) PROVE MapInv'
  <2>1. slot[t] \in Indices /\ lock[slot[t]] = t
    BY <1>0, <1>4, Zenon DEF Untrack, SlotInv
  <2>2. /\ UNCHANGED <<mapped, idx, arg, to, wpc, wi, bad>> /\ key' = key \ {arg[t]}
        /\ \A j \in Indices : j # slot[t] => state'[j] = state[j]
        /\ \A u \in Threads : pc'[u] = "track" => pc[u] = "track"
    BY <1>0, <1>4, <2>1, Zenon DEF Untrack, Goto, TypeInv
  <2>3. wpc # "idle" => state'[wi] = state[wi]
    <3>1. wpc # "idle" => wi \in Indices /\ lock[wi] = "worker"
      BY <1>0, Zenon DEF SlotInv
    <3> QED
      BY <2>1, <2>2, <3>1, Zenon
  <2>4. /\ wpc' \in {"locked", "snapshot", "finish"} => state'[wi'] = "COMPRESSING"
        /\ wpc' = "reclaim" => state'[wi'] = "COMPRESSED"
    BY <1>0, <2>2, <2>3, Zenon DEF MapInv
  <2> QED
    BY <1>0, <2>2, <2>4, Zenon DEF MapInv
<1>5. ASSUME NEW t \in Threads, Unmapped(t) PROVE MapInv'
  <2> DEFINE a == arg[t]
  <2>1. a \in Addrs /\ (a \notin key \/ idx[a] = 0)
    BY <1>0, <1>5, Zenon DEF Unmapped, ThreadInv, TableInv
  <2>2. /\ mapped' = mapped \ {a} /\ UNCHANGED <<key, idx, state, wpc, wi, bad>>
        /\ pc'[t] = "idle" /\ arg'[t] = NoAddr /\ to'[t] = NoAddr
        /\ \A u \in Threads : u # t => pc'[u] = pc[u] /\ arg'[u] = arg[u] /\ to'[u] = to[u]
    BY <1>0, <1>5, Zenon DEF Unmapped, Done, Goto, TypeInv
  <2>3. ASSUME NEW u \in Threads
        PROVE  to'[u] = NoAddr /\ (arg'[u] # NoAddr => arg'[u] \in mapped')
    <3>1. CASE u = t
      BY <2>2, <3>1, Zenon
    <3>2. CASE u # t
      <4>1. arg[u] # a
        BY <1>0, <2>1, <3>2, Zenon DEF ThreadInv
      <4>2. to[u] = NoAddr /\ (arg[u] # NoAddr => arg[u] \in mapped)
        BY <1>0, Zenon DEF MapInv
      <4> QED
        BY <2>2, <3>2, <4>1, <4>2, Zenon
    <3> QED
      BY <3>1, <3>2, Zenon
  <2>4. \A b \in key' : idx'[b] # 0 => b \in mapped'
    BY <1>0, <2>1, <2>2, Zenon DEF MapInv
  <2>5. ASSUME NEW u \in Threads, pc'[u] = "track"
        PROVE  arg'[u] \notin key' \/ idx'[arg'[u]] = 0
    <3>1. pc[u] = "track" /\ arg'[u] = arg[u]
      BY <2>2, <2>5, Zenon
    <3> QED
      BY <1>0, <2>2, <3>1, Zenon DEF MapInv
  <2>6. /\ wpc' \in {"locked", "snapshot", "finish"} => state'[wi'] = "COMPRESSING"
        /\ wpc' = "reclaim" => state'[wi'] = "COMPRESSED"
        /\ ~bad'
    BY <1>0, <2>2, Zenon DEF MapInv
  <2> QED
    BY <2>3, <2>4, <2>5, <2>6, Zenon DEF MapInv
<1>6. ASSUME NEW t \in Threads, Moved(t) PROVE MapInv'
  BY <1>0, <1>6, Zenon DEF MapInv, Moved, Goto
<1>7. ASSUME NEW t \in Threads, NEW a \in Addrs, NEW b \in Addrs, Mremap(t, a, b) PROVE MapInv'
  BY <1>0, <1>7, Zenon DEF Mremap, Goto, Free
<1>8. ASSUME NEW t \in Threads, UnmapRefused(t) PROVE MapInv'
  <2>1. /\ UNCHANGED <<mapped, key, idx, state, wpc, wi, bad>>
        /\ pc'[t] = "idle" /\ arg'[t] = NoAddr /\ to'[t] = NoAddr
    BY <1>0, <1>8, Zenon DEF UnmapRefused, Done, Goto, TypeInv
  <2>2. \A u \in Threads : u # t => pc'[u] = pc[u] /\ arg'[u] = arg[u] /\ to'[u] = to[u]
    BY <1>0, <1>8, Zenon DEF UnmapRefused, Done, Goto, TypeInv
  <2>3. \A u \in Threads : to'[u] = NoAddr /\ (arg'[u] # NoAddr => arg'[u] \in mapped)
    BY <1>0, <2>1, <2>2, Zenon DEF MapInv
  <2>4. \A u \in Threads : pc'[u] = "track" => pc[u] = "track" /\ arg'[u] = arg[u]
    BY <2>1, <2>2, Zenon
  <2> QED
    BY <1>0, <2>1, <2>3, <2>4, MapFrame, Zenon
<1> QED
  BY <1>1, <1>2, <1>3, <1>4, <1>5, <1>6, <1>7, <1>8, Zenon DEF UntrackStep

\* Every step keeps what is tracked mapped, when pages are used and compressed.
LEMMA MapUse ==
  ASSUME Named, ~MayRemap, IndexInv, DataAll, UseStep PROVE MapInv'
<1> USE DEF Named, Indices, kernel, table, pages, app, worker
<1>0. /\ TypeInv /\ ThreadInv /\ SlotInv /\ TableInv /\ StateInv
      /\ FreshInv /\ MapInv /\ DataInv
  BY Zenon DEF IndexInv, DataAll
<1>1. ASSUME NEW t \in Threads, NEW a \in Addrs, Store(t, a) PROVE MapInv'
  BY <1>0, <1>1, Zenon DEF MapInv, Store, Free
<1>2. ASSUME NEW t \in Threads, NEW a \in Addrs, Restored(t, a) PROVE MapInv'
  <2>1. idx[a] \in Indices /\ lock[idx[a]] = NoAddr
    BY <1>0, <1>2, IndexRange, Zenon DEF Restored
  <2>2. /\ UNCHANGED <<mapped, key, idx, pc, arg, to, wpc, wi, bad>>
        /\ \A j \in Indices : j # idx[a] => state'[j] = state[j]
    BY <1>0, <1>2, <2>1, Zenon DEF Restored, TypeInv
  <2>3. wpc # "idle" => state'[wi] = state[wi]
    <3>1. wpc # "idle" => wi \in Indices /\ lock[wi] = "worker"
      BY <1>0, Zenon DEF SlotInv
    <3> QED
      BY <2>1, <2>2, <3>1, Zenon
  <2>4. /\ wpc' \in {"locked", "snapshot", "finish"} => state'[wi'] = "COMPRESSING"
        /\ wpc' = "reclaim" => state'[wi'] = "COMPRESSED"
    BY <1>0, <2>2, <2>3, Zenon DEF MapInv
  <2> QED
    BY <1>0, <2>2, <2>4, Zenon DEF MapInv
<1>3. ASSUME NEW t \in Threads, NEW a \in Addrs, FoundOpen(t, a) PROVE MapInv'
  BY <1>0, <1>3, Zenon DEF MapInv, FoundOpen, Free
<1>4. ASSUME NEW i \in Indices, BeginCompress(i) PROVE MapInv'
  BY <1>0, <1>4, Zenon DEF MapInv, TypeInv, BeginCompress
<1>5. ASSUME NEW i \in Indices, BeginReclaim(i) PROVE MapInv'
  BY <1>0, <1>5, Zenon DEF MapInv, BeginReclaim
<1>6. ASSUME WorkerAddress PROVE MapInv'
  BY <1>0, <1>6, Zenon DEF MapInv, WorkerAddress
<1>7. ASSUME Snapshot PROVE MapInv'
  <2>1. waddr \in mapped
    BY <1>7, WorkerOn, Zenon DEF Snapshot
  <2>2. ~bad'
    BY <1>0, <1>7, <2>1, Zenon DEF Snapshot, MapInv
  <2>3. wpc' = "finish" /\ UNCHANGED <<kernel, table, pages, app, wi>>
    BY <1>7, Zenon DEF Snapshot
  <2>4. state[wi] = "COMPRESSING"
    BY <1>0, <1>7, Zenon DEF Snapshot, MapInv
  <2> QED
    BY <1>0, <2>2, <2>3, <2>4, Zenon DEF MapInv
<1>8. ASSUME Stored PROVE MapInv'
  BY <1>0, <1>8, Zenon DEF MapInv, Stored, WorkerEnd
<1>9. ASSUME GivenUp PROVE MapInv'
  BY <1>0, <1>9, ZenonT(40) DEF MapInv, GivenUp, WorkerEnd
<1>10. ASSUME Reclaim PROVE MapInv'
  <2>1. waddr \in mapped
    BY <1>10, WorkerOn, Zenon DEF Reclaim
  <2>2. ~bad'
    BY <1>0, <1>10, <2>1, Zenon DEF Reclaim, MapInv
  <2>3. wpc' = "idle" /\ UNCHANGED <<mapped, key, idx, state, pc, arg, to>>
    BY <1>10, Zenon DEF Reclaim, WorkerEnd
  <2> QED
    BY <1>0, <2>2, <2>3, Zenon DEF MapInv
<1> QED
  BY <1>1, <1>2, <1>3, <1>4, <1>5, <1>6, <1>7, <1>8, <1>9, <1>10, Zenon DEF UseStep

\* Every step keeps what is tracked mapped.
LEMMA MapStep ==
  ASSUME Named, ~MayRemap, IndexInv, DataAll, [Next]_vars PROVE MapInv'
<1>1. CASE UNCHANGED vars
  BY <1>1, Zenon DEF vars, kernel, table, pages, app, worker, IndexInv, DataAll,
       MapInv
<1> QED
  BY <1>1, MapTrack, MapUntrack, MapUse, Branches, Zenon
     DEF IndexInv

\* Every step keeps the data of mapped pages in its place, when a page is entered.
LEMMA DataTrack ==
  ASSUME Named, ~MayRemap, IndexInv, DataAll, TrackStep PROVE DataInv'
<1> USE DEF Named, Indices, kernel, table, pages, app, worker
<1>0. /\ TypeInv /\ ThreadInv /\ SlotInv /\ TableInv /\ StateInv
      /\ FreshInv /\ MapInv /\ DataInv
  BY Zenon DEF IndexInv, DataAll
<1>1. ASSUME NEW t \in Threads, NEW a \in Addrs, Mmap(t, a) PROVE DataInv'
  <2>1. a \notin mapped /\ UNCHANGED <<table, pages, worker>>
    BY <1>1, ZenonT(40) DEF Mmap
  <2>2. /\ mem'[a] = 0 /\ written'[a] = 0
        /\ \A b \in Addrs : b # a => mem'[b] = mem[b] /\ written'[b] = written[b]
    BY <1>0, <1>1, ZenonT(40) DEF Mmap, TypeInv
  <2>3. /\ mapped' = mapped \cup {a} /\ open' = open \cup {a}
        /\ refused' = refused \ {a}
    BY <1>1, Zenon DEF Mmap
  <2>4. \A b \in key : idx[b] # 0 => b # a /\ b \in Addrs
    BY <1>0, <2>1, Zenon DEF MapInv, TypeInv
  <2>5. wpc \in {"snapshot", "finish"} => waddr # a /\ waddr \in Addrs
    BY <2>1, WorkerOn, WorkerAt, Zenon
  <2>6. \A u \in Threads : pc[u] = "unmap" => pc'[u] = "unmap" /\ arg'[u] = arg[u]
    BY <1>0, <1>1, Zenon DEF Mmap, Goto, TypeInv
  <2>7. ASSUME NEW b \in mapped'
        PROVE  /\ b \in open' => mem'[b] = written'[b]
               /\ b \notin open' =>
                    \/ b \in key' /\ idx'[b] # 0 /\ state'[idx'[b]] \in {"COMPRESSING", "COMPRESSED"}
                    \/ \E u \in Threads : pc'[u] = "unmap" /\ arg'[u] = b
                    \/ b \in refused'
    <3>1. CASE b = a
      BY <2>2, <2>3, <3>1, Zenon
    <3>2. CASE b # a
      <4>1. b \in mapped /\ b \in Addrs /\ (b \in open' <=> b \in open)
        BY <1>0, <2>3, <3>2, Zenon DEF TypeInv
      <4>2. b \notin open =>
              \/ b \in key /\ idx[b] # 0 /\ state[idx[b]] \in {"COMPRESSING", "COMPRESSED"}
              \/ \E u \in Threads : pc'[u] = "unmap" /\ arg'[u] = b
              \/ b \in refused'
        <5>1. b \notin open =>
                \/ b \in key /\ idx[b] # 0 /\ state[idx[b]] \in {"COMPRESSING", "COMPRESSED"}
                \/ \E u \in Threads : pc[u] = "unmap" /\ arg[u] = b
                \/ b \in refused
          BY <1>0, <4>1, Zenon DEF DataInv
        <5> QED
          BY <2>3, <2>6, <3>2, <5>1, Zenon
      <4> QED
        BY <1>0, <2>1, <2>2, <3>2, <4>1, <4>2, Zenon DEF DataInv
    <3> QED
      BY <3>1, <3>2, Zenon
  <2>8. \A b \in key' : idx'[b] # 0 =>
          /\ state'[idx'[b]] = "COMPRESSING" => mem'[b] = written'[b]
          /\ state'[idx'[b]] = "COMPRESSED" => blob'[idx'[b]] = written'[b] /\ b \notin open'
    <3>1. /\ key' = key /\ idx' = idx /\ state' = state /\ blob' = blob
          /\ \A b \in key : idx[b] # 0 => /\ mem'[b] = mem[b] /\ written'[b] = written[b]
                                          /\ (b \in open' <=> b \in open)
      BY <2>1, <2>2, <2>3, <2>4, Zenon
    <3>2. \A b \in key : idx[b] # 0 =>
            /\ state[idx[b]] = "COMPRESSING" => mem[b] = written[b]
            /\ state[idx[b]] = "COMPRESSED" => blob[idx[b]] = written[b] /\ b \notin open
      BY <1>0, Zenon DEF DataInv
    <3> QED
      BY <3>1, <3>2, Zenon
  <2>9. /\ wpc' \in {"snapshot", "finish"} => waddr' \notin open'
        /\ wpc' = "finish" => wbuf' = written'[waddr']
        /\ \A i \in Indices : state'[i] = "COMPRESSING" => wpc' # "idle" /\ wi' = i
    BY <1>0, <2>1, <2>2, <2>3, <2>5, Zenon DEF DataInv
  <2> QED
    BY <2>7, <2>8, <2>9, Zenon DEF DataInv
<1>2. ASSUME NEW t \in Threads, TrackNothing(t) PROVE DataInv'
  <2>1. /\ UNCHANGED <<kernel, key, idx, state, blob, worker>>
        /\ \A u \in Threads : pc[u] = "unmap" => pc'[u] = "unmap" /\ arg'[u] = arg[u]
    BY <1>0, <1>2, Zenon DEF TypeInv, TrackNothing, Done, Goto
  <2> QED
    BY <1>0, <2>1, DataFrame, Zenon
<1>3. ASSUME NEW t \in Threads, TrackAgain(t) PROVE DataInv'
  BY <1>0, <1>3, Zenon DEF DataInv, MapInv, TrackAgain, Done, Goto
<1>4. ASSUME NEW t \in Threads, ClaimKey(t) PROVE DataInv'
  <2> DEFINE a == arg[t]
  <2>1. a \in Addrs /\ a \notin key
    BY <1>0, <1>4, Zenon DEF ClaimKey, ThreadInv
  <2>2. /\ key' = key \cup {a} /\ idx'[a] = 0 /\ \A b \in Addrs : b # a => idx'[b] = idx[b]
        /\ \A u \in Threads : pc[u] = "unmap" => pc'[u] = "unmap" /\ arg'[u] = arg[u]
        /\ UNCHANGED <<kernel, state, blob, worker>>
    BY <1>0, <1>4, <2>1, Zenon DEF ClaimKey, Goto, TypeInv
  <2>3. \A b \in key : b # a /\ idx'[b] = idx[b]
    BY <1>0, <2>1, <2>2, Zenon DEF TypeInv
  <2>4. ASSUME NEW b \in mapped, b \notin open
        PROVE  \/ b \in key' /\ idx'[b] # 0 /\ state[idx'[b]] \in {"COMPRESSING", "COMPRESSED"}
               \/ \E u \in Threads : pc'[u] = "unmap" /\ arg'[u] = b
               \/ b \in refused'
    <3>1. \/ b \in key /\ idx[b] # 0 /\ state[idx[b]] \in {"COMPRESSING", "COMPRESSED"}
          \/ \E u \in Threads : pc[u] = "unmap" /\ arg[u] = b
          \/ b \in refused
      BY <1>0, <2>4, Zenon DEF DataInv
    <3> QED
      BY <2>2, <2>3, <3>1, Zenon
  <2>5. ASSUME NEW b \in key', idx'[b] # 0
        PROVE  /\ state[idx'[b]] = "COMPRESSING" => mem[b] = written[b]
               /\ state[idx'[b]] = "COMPRESSED" => blob[idx'[b]] = written[b] /\ b \notin open
    <3>1. b \in key /\ idx'[b] = idx[b]
      BY <2>2, <2>3, <2>5, Zenon
    <3>2. /\ state[idx[b]] = "COMPRESSING" => mem[b] = written[b]
          /\ state[idx[b]] = "COMPRESSED" => blob[idx[b]] = written[b] /\ b \notin open
      BY <1>0, <2>5, <3>1, Zenon DEF DataInv
    <3> QED
      BY <3>1, <3>2, Zenon
  <2>6. /\ \A b \in mapped : b \in open => mem[b] = written[b]
        /\ wpc \in {"snapshot", "finish"} => waddr \notin open
        /\ wpc = "finish" => wbuf = written[waddr]
        /\ \A i \in Indices : state[i] = "COMPRESSING" => wpc # "idle" /\ wi = i
    BY <1>0, Zenon DEF DataInv
  <2> QED
    BY <2>2, <2>4, <2>5, <2>6, ZenonT(40) DEF DataInv
<1>5. ASSUME NEW t \in Threads, SlotsGone(t) PROVE DataInv'
  <2>1. /\ UNCHANGED <<kernel, key, idx, state, blob, worker>>
        /\ \A u \in Threads : pc[u] = "unmap" => pc'[u] = "unmap" /\ arg'[u] = arg[u]
    BY <1>0, <1>5, Zenon DEF TypeInv, SlotsGone, Done, Goto
  <2> QED
    BY <1>0, <2>1, DataFrame, Zenon
<1>6. ASSUME NEW t \in Threads, SlotTaken(t) PROVE DataInv'
  <2>1. /\ UNCHANGED <<kernel, key, idx, state, blob, worker>>
        /\ \A u \in Threads : pc[u] = "unmap" => pc'[u] = "unmap" /\ arg'[u] = arg[u]
    BY <1>0, <1>6, Zenon DEF TypeInv, SlotTaken, Goto
  <2> QED
    BY <1>0, <2>1, DataFrame, Zenon
<1>7. ASSUME NEW t \in Threads, WriteReverse(t) PROVE DataInv'
  <2>1. /\ UNCHANGED <<kernel, key, idx, state, blob, worker>>
        /\ \A u \in Threads : pc[u] = "unmap" => pc'[u] = "unmap" /\ arg'[u] = arg[u]
    BY <1>0, <1>7, Zenon DEF TypeInv, WriteReverse, Goto
  <2> QED
    BY <1>0, <2>1, DataFrame, Zenon
<1>8. ASSUME NEW t \in Threads, PublishIdx(t) PROVE DataInv'
  <2>1. arg[t] \in key /\ idx[arg[t]] = 0 /\ state[slot[t]] = "EMPTY"
    BY <1>0, <1>8, Zenon DEF PublishIdx, TableInv, FreshInv, Entering
  <2>2. /\ idx'[arg[t]] = slot[t] /\ \A b \in Addrs : b # arg[t] => idx'[b] = idx[b]
        /\ \A u \in Threads : pc[u] = "unmap" => pc'[u] = "unmap" /\ arg'[u] = arg[u]
        /\ UNCHANGED <<kernel, key, state, blob, worker>> /\ key \subseteq Addrs
    BY <1>0, <1>8, <2>1, Zenon DEF PublishIdx, Goto, TypeInv
  <2>3. ASSUME NEW b \in mapped, b \notin open
        PROVE  \/ b \in key /\ idx'[b] # 0 /\ state[idx'[b]] \in {"COMPRESSING", "COMPRESSED"}
               \/ \E u \in Threads : pc'[u] = "unmap" /\ arg'[u] = b
               \/ b \in refused'
    <3>1. \/ b \in key /\ idx[b] # 0 /\ state[idx[b]] \in {"COMPRESSING", "COMPRESSED"}
          \/ \E u \in Threads : pc[u] = "unmap" /\ arg[u] = b
          \/ b \in refused
      BY <1>0, <2>3, Zenon DEF DataInv
    <3> QED
      BY <2>1, <2>2, <3>1, Zenon
  <2>4. ASSUME NEW b \in key, idx'[b] # 0
        PROVE  /\ state[idx'[b]] = "COMPRESSING" => mem[b] = written[b]
               /\ state[idx'[b]] = "COMPRESSED" => blob[idx'[b]] = written[b] /\ b \notin open
    <3>1. CASE b = arg[t]
      BY <2>1, <2>2, <3>1, Zenon
    <3>2. CASE b # arg[t]
      <4>1. idx'[b] = idx[b] /\ idx[b] # 0
        BY <2>2, <2>4, <3>2, Zenon
      <4>2. /\ state[idx[b]] = "COMPRESSING" => mem[b] = written[b]
            /\ state[idx[b]] = "COMPRESSED" => blob[idx[b]] = written[b] /\ b \notin open
        BY <1>0, <4>1, Zenon DEF DataInv
      <4> QED
        BY <4>1, <4>2, Zenon
    <3> QED
      BY <3>1, <3>2, Zenon
  <2>5. \A b \in mapped : b \in open => mem[b] = written[b]
    BY <1>0, Zenon DEF DataInv
  <2>6. /\ wpc \in {"snapshot", "finish"} => waddr \notin open
        /\ wpc = "finish" => wbuf = written[waddr]
        /\ \A i \in Indices : state[i] = "COMPRESSING" => wpc # "idle" /\ wi = i
    BY <1>0, Zenon DEF DataInv
  <2> QED
    BY <2>2, <2>3, <2>4, <2>5, <2>6, ZenonT(40) DEF DataInv
<1>9. ASSUME NEW t \in Threads, CountSlot(t) PROVE DataInv'
  <2>1. /\ UNCHANGED <<kernel, key, idx, state, blob, worker>>
        /\ \A u \in Threads : pc[u] = "unmap" => pc'[u] = "unmap" /\ arg'[u] = arg[u]
    BY <1>0, <1>9, Zenon DEF TypeInv, CountSlot, Goto
  <2> QED
    BY <1>0, <2>1, DataFrame, Zenon
<1>10. ASSUME NEW t \in Threads, SetActive(t) PROVE DataInv'
  <2> DEFINE i == slot[t]
  <2>1. i \in Indices /\ state[i] = "EMPTY"
    BY <1>0, <1>10, Zenon DEF SetActive, SlotInv, FreshInv, Entering
  <2>2. /\ state'[i] = "ACTIVE" /\ \A j \in Indices : j # i => state'[j] = state[j]
        /\ \A u \in Threads : pc[u] = "unmap" => pc'[u] = "unmap" /\ arg'[u] = arg[u]
        /\ UNCHANGED <<kernel, key, idx, blob, worker>>
    BY <1>0, <1>10, <2>1, Zenon DEF SetActive, Done, Goto, TypeInv
  <2>3. \A b \in key : idx[b] # 0 => idx[b] \in Indices
    BY <1>0, IndexRange, Zenon
  <2>4. ASSUME NEW b \in mapped, b \notin open
        PROVE  \/ b \in key /\ idx[b] # 0 /\ state'[idx[b]] \in {"COMPRESSING", "COMPRESSED"}
               \/ \E u \in Threads : pc'[u] = "unmap" /\ arg'[u] = b
               \/ b \in refused'
    <3>1. \/ b \in key /\ idx[b] # 0 /\ state[idx[b]] \in {"COMPRESSING", "COMPRESSED"}
          \/ \E u \in Threads : pc[u] = "unmap" /\ arg[u] = b
          \/ b \in refused
      BY <1>0, <2>4, Zenon DEF DataInv
    <3> QED
      BY <2>1, <2>2, <2>3, <3>1, Zenon
  <2>5. ASSUME NEW b \in key, idx[b] # 0
        PROVE  /\ state'[idx[b]] = "COMPRESSING" => mem[b] = written[b]
               /\ state'[idx[b]] = "COMPRESSED" => blob[idx[b]] = written[b] /\ b \notin open
    <3>1. /\ state[idx[b]] = "COMPRESSING" => mem[b] = written[b]
          /\ state[idx[b]] = "COMPRESSED" => blob[idx[b]] = written[b] /\ b \notin open
      BY <1>0, <2>5, Zenon DEF DataInv
    <3> QED
      BY <2>2, <2>3, <2>5, <3>1, Zenon
  <2>6. \A j \in Indices : state'[j] = "COMPRESSING" => wpc # "idle" /\ wi = j
    BY <1>0, <2>2, ZenonT(40) DEF DataInv
  <2>7. /\ \A b \in mapped : b \in open => mem[b] = written[b]
        /\ wpc \in {"snapshot", "finish"} => waddr \notin open
        /\ wpc = "finish" => wbuf = written[waddr]
    BY <1>0, Zenon DEF DataInv
  <2> QED
    BY <2>2, <2>4, <2>5, <2>6, <2>7, ZenonT(40) DEF DataInv
<1> QED
  BY <1>1, <1>2, <1>3, <1>4, <1>5, <1>6, <1>7, <1>8, <1>9, <1>10, Zenon DEF TrackStep

\* Every step keeps the data of mapped pages in its place, when one is taken out.
LEMMA DataUntrack ==
  ASSUME Named, ~MayRemap, IndexInv, DataAll, UntrackStep PROVE DataInv'
<1> USE DEF Named, Indices, kernel, table, pages, app, worker
<1>0. /\ TypeInv /\ ThreadInv /\ SlotInv /\ TableInv /\ StateInv
      /\ FreshInv /\ MapInv /\ DataInv
  BY Zenon DEF IndexInv, DataAll
<1>1. ASSUME NEW t \in Threads, NEW a \in Addrs, Munmap(t, a) PROVE DataInv'
  <2>1. /\ UNCHANGED <<kernel, key, idx, state, blob, worker>>
        /\ \A u \in Threads : pc[u] = "unmap" => pc'[u] = "unmap" /\ arg'[u] = arg[u]
    BY <1>0, <1>1, Zenon DEF TypeInv, Munmap, Goto
  <2> QED
    BY <1>0, <2>1, DataFrame, Zenon
<1>2. ASSUME NEW t \in Threads, NotTracked(t) PROVE DataInv'
  <2>1. /\ UNCHANGED <<kernel, key, idx, state, blob, worker>>
        /\ \A u \in Threads : pc[u] = "unmap" => pc'[u] = "unmap" /\ arg'[u] = arg[u]
    BY <1>0, <1>2, Zenon DEF TypeInv, NotTracked, Goto
  <2> QED
    BY <1>0, <2>1, DataFrame, Zenon
<1>3. ASSUME NEW t \in Threads, Locked(t) PROVE DataInv'
  <2>1. /\ UNCHANGED <<kernel, key, idx, state, blob, worker>>
        /\ \A u \in Threads : pc[u] = "unmap" => pc'[u] = "unmap" /\ arg'[u] = arg[u]
    BY <1>0, <1>3, ZenonT(40) DEF TypeInv, Locked, Goto
  <2> QED
    BY <1>0, <2>1, DataFrame, Zenon
<1>4. ASSUME NEW t \in Threads, Untrack(t) PROVE DataInv'
  <2> DEFINE i == slot[t]
             a == arg[t]
  <2>1. i \in Indices /\ lock[i] = t /\ a \in key /\ idx[a] = i /\ reverse[i] = a
    <3>1. i \in Indices /\ lock[i] = t /\ a \in key /\ idx[a] = i
      BY <1>0, <1>4, Zenon DEF Untrack, SlotInv, TableInv
    <3>2. idx[a] # 0
      BY <1>0, <3>1, IndexRange, Zenon
    <3>3. reverse[idx[a]] = a
      BY <1>0, <3>1, <3>2, Zenon DEF TableInv
    <3> QED
      BY <3>1, <3>3, Zenon
  <2>2. /\ key' = key \ {a} /\ pc'[t] = "unmap" /\ arg' = arg
        /\ state'[i] = "EMPTY" /\ \A j \in Indices : j # i => state'[j] = state[j]
        /\ \A u \in Threads : pc[u] = "unmap" => pc'[u] = "unmap"
        /\ UNCHANGED <<kernel, idx, blob, worker>>
    BY <1>0, <1>4, <2>1, Zenon DEF Untrack, Goto, TypeInv
  <2>3. \A b \in key : idx[b] # 0 => idx[b] \in Indices /\ (b # a => idx[b] # i)
    BY <1>0, <2>1, IndexRange, OwnIndex, Zenon
  <2>4. ASSUME NEW b \in mapped, b \notin open
        PROVE  \/ b \in key' /\ idx[b] # 0 /\ state'[idx[b]] \in {"COMPRESSING", "COMPRESSED"}
               \/ \E u \in Threads : pc'[u] = "unmap" /\ arg'[u] = b
               \/ b \in refused'
    <3>1. CASE b = a
      BY <2>2, <3>1, Zenon
    <3>2. CASE b # a
      <4>1. \/ b \in key /\ idx[b] # 0 /\ state[idx[b]] \in {"COMPRESSING", "COMPRESSED"}
            \/ \E u \in Threads : pc[u] = "unmap" /\ arg[u] = b
            \/ b \in refused
        BY <1>0, <2>4, Zenon DEF DataInv
      <4> QED
        BY <2>2, <2>3, <3>2, <4>1, Zenon
    <3> QED
      BY <3>1, <3>2, Zenon
  <2>5. ASSUME NEW b \in key', idx[b] # 0
        PROVE  /\ state'[idx[b]] = "COMPRESSING" => mem[b] = written[b]
               /\ state'[idx[b]] = "COMPRESSED" => blob[idx[b]] = written[b] /\ b \notin open
    <3>1. b \in key /\ state'[idx[b]] = state[idx[b]]
      BY <2>2, <2>3, <2>5, Zenon
    <3>2. /\ state[idx[b]] = "COMPRESSING" => mem[b] = written[b]
          /\ state[idx[b]] = "COMPRESSED" => blob[idx[b]] = written[b] /\ b \notin open
      BY <1>0, <2>5, <3>1, Zenon DEF DataInv
    <3> QED
      BY <3>1, <3>2, Zenon
  <2>6. \A j \in Indices : state'[j] = "COMPRESSING" => wpc # "idle" /\ wi = j
    BY <1>0, <2>2, ZenonT(40) DEF DataInv
  <2>7. /\ \A b \in mapped : b \in open => mem[b] = written[b]
        /\ wpc \in {"snapshot", "finish"} => waddr \notin open
        /\ wpc = "finish" => wbuf = written[waddr]
    BY <1>0, Zenon DEF DataInv
  <2> QED
    BY <2>2, <2>4, <2>5, <2>6, <2>7, ZenonT(40) DEF DataInv
<1>5. ASSUME NEW t \in Threads, Unmapped(t) PROVE DataInv'
  <2>1. /\ mapped' = mapped \ {arg[t]} /\ open' = open \ {arg[t]}
        /\ refused' = refused \ {arg[t]}
        /\ UNCHANGED <<mem, written, table, pages, worker>>
    BY <1>5, Zenon DEF Unmapped
  <2>2. \A u \in Threads : u # t => pc'[u] = pc[u] /\ arg'[u] = arg[u]
    BY <1>0, <1>5, Zenon DEF Unmapped, Done, Goto, TypeInv
  <2>3. ASSUME NEW b \in mapped'
        PROVE  /\ b \in open' => mem'[b] = written'[b]
               /\ b \notin open' =>
                    \/ b \in key /\ idx[b] # 0 /\ state[idx[b]] \in {"COMPRESSING", "COMPRESSED"}
                    \/ \E u \in Threads : pc'[u] = "unmap" /\ arg'[u] = b
                    \/ b \in refused'
    <3>1. b \in mapped /\ b # arg[t] /\ (b \in open' <=> b \in open)
      BY <2>1, Zenon
    <3>2. /\ b \in open => mem[b] = written[b]
          /\ b \notin open =>
               \/ b \in key /\ idx[b] # 0 /\ state[idx[b]] \in {"COMPRESSING", "COMPRESSED"}
               \/ \E u \in Threads : pc[u] = "unmap" /\ arg[u] = b
               \/ b \in refused
      BY <1>0, <3>1, Zenon DEF DataInv
    <3>3. \A u \in Threads : pc[u] = "unmap" /\ arg[u] = b => pc'[u] = "unmap" /\ arg'[u] = b
      BY <2>2, <3>1, Zenon
    <3> QED
      BY <2>1, <3>1, <3>2, <3>3, Zenon
  <2>4. \A b \in key : idx[b] # 0 =>
          /\ state[idx[b]] = "COMPRESSING" => mem[b] = written[b]
          /\ state[idx[b]] = "COMPRESSED" => blob[idx[b]] = written[b] /\ b \notin open'
    BY <1>0, <2>1, Zenon DEF DataInv
  <2>5. wpc \in {"snapshot", "finish"} => waddr \notin open'
    BY <1>0, <2>1, Zenon DEF DataInv
  <2>6. /\ wpc = "finish" => wbuf = written[waddr]
        /\ \A i \in Indices : state[i] = "COMPRESSING" => wpc # "idle" /\ wi = i
    BY <1>0, Zenon DEF DataInv
  <2> QED
    BY <2>1, <2>3, <2>4, <2>5, <2>6, ZenonT(40) DEF DataInv
<1>6. ASSUME NEW t \in Threads, Moved(t) PROVE DataInv'
  BY <1>0, <1>6, Zenon DEF DataInv, MapInv, Moved, Goto
<1>7. ASSUME NEW t \in Threads, NEW a \in Addrs, NEW b \in Addrs, Mremap(t, a, b) PROVE DataInv'
  BY <1>0, <1>7, ZenonT(40) DEF DataInv, Mremap, Goto, Free
<1>8. ASSUME NEW t \in Threads, UnmapRefused(t) PROVE DataInv'
  <2>1. /\ refused' = refused \cup {arg[t]}
        /\ UNCHANGED <<mapped, open, mem, written, key, idx, state, blob, worker>>
    BY <1>8, Zenon DEF UnmapRefused
  <2>2. \A u \in Threads : u # t => pc'[u] = pc[u] /\ arg'[u] = arg[u]
    BY <1>0, <1>8, Zenon DEF UnmapRefused, Done, Goto, TypeInv
  <2>3. ASSUME NEW b \in mapped, b \notin open
        PROVE  \/ b \in key /\ idx[b] # 0 /\ state[idx[b]] \in {"COMPRESSING", "COMPRESSED"}
               \/ \E u \in Threads : pc'[u] = "unmap" /\ arg'[u] = b
               \/ b \in refused'
    <3>1. \/ b \in key /\ idx[b] # 0 /\ state[idx[b]] \in {"COMPRESSING", "COMPRESSED"}
          \/ \E u \in Threads : pc[u] = "unmap" /\ arg[u] = b
          \/ b \in refused
      BY <1>0, <2>3, Zenon DEF DataInv
    <3> QED
      BY <2>1, <2>2, <3>1, Zenon
  <2>4. /\ \A b \in mapped : b \in open => mem[b] = written[b]
        /\ \A b \in key : idx[b] # 0 =>
             /\ state[idx[b]] = "COMPRESSING" => mem[b] = written[b]
             /\ state[idx[b]] = "COMPRESSED" => blob[idx[b]] = written[b] /\ b \notin open
        /\ wpc \in {"snapshot", "finish"} => waddr \notin open
        /\ wpc = "finish" => wbuf = written[waddr]
        /\ \A i \in Indices : state[i] = "COMPRESSING" => wpc # "idle" /\ wi = i
    BY <1>0, Zenon DEF DataInv
  <2> QED
    BY <2>1, <2>3, <2>4, ZenonT(40) DEF DataInv
<1> QED
  BY <1>1, <1>2, <1>3, <1>4, <1>5, <1>6, <1>7, <1>8, Zenon DEF UntrackStep

\* Every step keeps the data of mapped pages in its place, when pages are used and compressed.
LEMMA DataUse ==
  ASSUME Named, ~MayRemap, IndexInv, DataAll, UseStep PROVE DataInv'
<1> USE DEF Named, Indices, kernel, table, pages, app, worker
<1>0. /\ TypeInv /\ ThreadInv /\ SlotInv /\ TableInv /\ StateInv
      /\ FreshInv /\ MapInv /\ DataInv /\ RefusedInv
  BY Zenon DEF IndexInv, DataAll
<1>1. ASSUME NEW t \in Threads, NEW a \in Addrs, Store(t, a) PROVE DataInv'
  <2>1. a \in open /\ UNCHANGED <<mapped, open, refused, table, pages, app, worker>>
    BY <1>1, Zenon DEF Store
  <2>2. /\ mem'[a] = written'[a]
        /\ \A b \in Addrs : b # a => mem'[b] = mem[b] /\ written'[b] = written[b]
    BY <1>0, <1>1, Zenon DEF Store, TypeInv
  <2>3. wpc \in {"snapshot", "finish"} => waddr # a /\ waddr \in Addrs
    BY <1>0, <2>1, WorkerAt, Zenon DEF DataInv
  <2>4. ASSUME NEW b \in mapped, b \in open PROVE mem'[b] = written'[b]
    <3>1. b \in Addrs /\ mem[b] = written[b]
      BY <1>0, <2>4, Zenon DEF DataInv, TypeInv
    <3> QED
      BY <2>2, <3>1, Zenon
  <2>5. ASSUME NEW b \in key, idx[b] # 0
        PROVE  /\ state[idx[b]] = "COMPRESSING" => mem'[b] = written'[b]
               /\ state[idx[b]] = "COMPRESSED" => blob[idx[b]] = written'[b] /\ b \notin open
    <3>1. /\ state[idx[b]] = "COMPRESSING" => mem[b] = written[b]
          /\ state[idx[b]] = "COMPRESSED" => blob[idx[b]] = written[b] /\ b \notin open
          /\ b \in Addrs
      BY <1>0, <2>5, Zenon DEF DataInv, TypeInv
    <3> QED
      BY <2>1, <2>2, <3>1, Zenon
  <2>6. wpc = "finish" => wbuf = written'[waddr]
    BY <1>0, <2>2, <2>3, Zenon DEF DataInv
  <2>7. /\ \A b \in mapped : b \notin open =>
             \/ b \in key /\ idx[b] # 0 /\ state[idx[b]] \in {"COMPRESSING", "COMPRESSED"}
             \/ \E u \in Threads : pc[u] = "unmap" /\ arg[u] = b
             \/ b \in refused
        /\ wpc \in {"snapshot", "finish"} => waddr \notin open
        /\ \A i \in Indices : state[i] = "COMPRESSING" => wpc # "idle" /\ wi = i
    BY <1>0, Zenon DEF DataInv
  <2> QED
    BY <2>1, <2>4, <2>5, <2>6, <2>7, ZenonT(40) DEF DataInv
<1>2. ASSUME NEW t \in Threads, NEW a \in Addrs, Restored(t, a) PROVE DataInv'
  <2> DEFINE i == idx[a]
  <2>1. i \in Indices /\ state[i] = "COMPRESSED" /\ blob[i] = written[a] /\ reverse[i] = a
    <3>1. a \in key /\ i # 0 /\ state[i] = "COMPRESSED"
      BY <1>2, Zenon DEF Restored
    <3>2. i \in Indices /\ reverse[i] = a
      BY <1>0, <3>1, IndexRange, Zenon DEF TableInv
    <3>3. blob[i] = written[a]
      BY <1>0, <3>1, Zenon DEF DataInv
    <3> QED
      BY <3>1, <3>2, <3>3, Zenon
  <2>2. /\ mem'[a] = written[a] /\ \A b \in Addrs : b # a => mem'[b] = mem[b]
        /\ open' = open \cup {a}
        /\ state'[i] = "ACTIVE" /\ \A j \in Indices : j # i => state'[j] = state[j]
        /\ UNCHANGED <<mapped, written, refused, table, lock, blob, app, worker>>
    BY <1>0, <1>2, <2>1, Zenon DEF Restored, TypeInv
  <2>3. \A b \in key : idx[b] # 0 /\ b # a => idx[b] # i /\ idx[b] \in Indices /\ b \in Addrs
    <3>1. a \in key /\ i # 0 /\ key \subseteq Addrs
      BY <1>0, <1>2, Zenon DEF Restored, TypeInv
    <3> QED
      BY <1>0, <3>1, IndexRange, OwnIndex, Zenon
  <2>4. wpc \in {"snapshot", "finish"} => waddr # a
    BY <1>0, <1>2, WorkerOn, WorkerAt, Zenon DEF Restored
  <2>5. ASSUME NEW b \in mapped'
        PROVE  /\ b \in open' => mem'[b] = written'[b]
               /\ b \notin open' =>
                    \/ b \in key' /\ idx'[b] # 0 /\ state'[idx'[b]] \in {"COMPRESSING", "COMPRESSED"}
                    \/ \E u \in Threads : pc'[u] = "unmap" /\ arg'[u] = b
                    \/ b \in refused'
    <3>1. CASE b = a
      BY <2>2, <3>1, Zenon
    <3>2. CASE b # a
      <4>1. b \in mapped /\ b \in Addrs /\ (b \in open' <=> b \in open)
        BY <1>0, <2>2, <3>2, Zenon DEF TypeInv
      <4>2. /\ b \in open => mem[b] = written[b]
            /\ b \notin open =>
                 \/ b \in key /\ idx[b] # 0 /\ state[idx[b]] \in {"COMPRESSING", "COMPRESSED"}
                 \/ \E u \in Threads : pc[u] = "unmap" /\ arg[u] = b
                 \/ b \in refused
        BY <1>0, <4>1, Zenon DEF DataInv
      <4>3. b \in key /\ idx[b] # 0 => state'[idx[b]] = state[idx[b]]
        BY <2>2, <2>3, <3>2, Zenon
      <4> QED
        BY <2>2, <3>2, <4>1, <4>2, <4>3, Zenon
    <3> QED
      BY <3>1, <3>2, Zenon
  <2>6. ASSUME NEW b \in key', idx'[b] # 0
        PROVE  /\ state'[idx'[b]] = "COMPRESSING" => mem'[b] = written'[b]
               /\ state'[idx'[b]] = "COMPRESSED" => blob'[idx'[b]] = written'[b] /\ b \notin open'
    <3>1. CASE b = a
      BY Zenon, <2>2, <3>1
    <3>2. CASE b # a
      <4>1. state'[idx[b]] = state[idx[b]] /\ mem'[b] = mem[b] /\ b \in key /\ idx[b] # 0
        BY <2>2, <2>3, <2>6, <3>2, Zenon
      <4> QED
        BY <1>0, <2>2, <3>2, <4>1, ZenonT(40) DEF DataInv
    <3> QED
      BY <3>1, <3>2, Zenon
  <2>7. \A j \in Indices : state'[j] = "COMPRESSING" => wpc' # "idle" /\ wi' = j
    BY <1>0, <2>1, <2>2, ZenonT(40) DEF DataInv
  <2>8. /\ wpc' \in {"snapshot", "finish"} => waddr' \notin open'
        /\ wpc' = "finish" => wbuf' = written'[waddr']
    BY <1>0, <2>2, <2>4, Zenon DEF DataInv
  <2> QED
    BY <2>5, <2>6, <2>7, <2>8, Zenon DEF DataInv
<1>3. ASSUME NEW t \in Threads, NEW a \in Addrs, FoundOpen(t, a) PROVE DataInv'
  <2>1. a \notin open /\ a \in key /\ idx[a] # 0 /\ idx[a] \in Indices
    BY <1>0, <1>3, IndexRange, Zenon DEF FoundOpen
  <2>2. state[idx[a]] # "COMPRESSING"
    BY <1>0, <1>3, <2>1, ZenonT(40) DEF FoundOpen, DataInv, SlotInv
  <2>3. pc[t] = "idle" /\ Free(t, a) /\ a \in mapped /\ state[idx[a]] # "COMPRESSED"
    BY <1>3, Zenon DEF FoundOpen
  <2>4. PICK u \in Threads : pc[u] = "unmap" /\ arg[u] = a
    BY <1>0, <2>1, <2>2, <2>3, Zenon DEF DataInv, RefusedInv
  <2> QED
    BY <2>3, <2>4, Zenon DEF Free
<1>4. ASSUME NEW i \in Indices, BeginCompress(i) PROVE DataInv'
  <2>1. /\ state'[i] = "COMPRESSING" /\ \A j \in Indices : j # i => state'[j] = state[j]
        /\ wpc' = "locked" /\ wi' = i /\ UNCHANGED <<kernel, table, blob, app>>
    BY <1>0, <1>4, Zenon DEF BeginCompress, TypeInv
  <2>2. ASSUME NEW a \in key, idx[a] = i PROVE mem[a] = written[a]
    <3>1. /\ a \in mapped /\ ~ \E t \in Threads : pc[t] = "unmap" /\ arg[t] = a
          /\ a \notin refused
      <4>1. idx[a] # 0
        BY <1>0, <2>2, IndexRange, Zenon
      <4> QED
        BY <1>0, <2>2, <4>1, ZenonT(40) DEF MapInv, TableInv, RefusedInv
    <3>2. a \in open
      BY <1>0, <1>4, <2>2, <3>1, Zenon DEF DataInv, BeginCompress
    <3> QED
      BY <1>0, <3>1, <3>2, Zenon DEF DataInv
  <2>3. \A j \in Indices : state[j] # "COMPRESSING"
    BY <1>0, <1>4, Zenon DEF DataInv, BeginCompress
  <2>4. \A a \in key : idx[a] # 0 => idx[a] \in Indices
    BY <1>0, IndexRange, Zenon
  <2>5. state[i] = "ACTIVE"
    BY <1>4, Zenon DEF BeginCompress
  <2>6. \A a \in mapped :
          /\ a \in open => mem[a] = written[a]
          /\ a \notin open =>
               \/ a \in key /\ idx[a] # 0 /\ state'[idx[a]] \in {"COMPRESSING", "COMPRESSED"}
               \/ \E t \in Threads : pc[t] = "unmap" /\ arg[t] = a
               \/ a \in refused
    BY <1>0, <2>1, <2>4, Zenon DEF DataInv
  <2>7. ASSUME NEW a \in key, idx[a] # 0
        PROVE  /\ state'[idx[a]] = "COMPRESSING" => mem[a] = written[a]
               /\ state'[idx[a]] = "COMPRESSED" => blob[idx[a]] = written[a] /\ a \notin open
    BY <1>0, <2>1, <2>2, <2>3, <2>4, <2>7, Zenon DEF DataInv
  <2>8. \A j \in Indices : state'[j] = "COMPRESSING" => j = i
    BY <2>1, <2>3, Zenon
  <2> QED
    BY <2>1, <2>6, <2>7, <2>8, ZenonT(40) DEF DataInv
<1>5. ASSUME NEW i \in Indices, BeginReclaim(i) PROVE DataInv'
  <2>1. wpc' = "reclaim" /\ wi' = i /\ UNCHANGED <<kernel, table, state, blob, app>>
    BY <1>5, Zenon DEF BeginReclaim
  <2>2. \A j \in Indices : state[j] # "COMPRESSING"
    BY <1>0, <1>5, Zenon DEF DataInv, BeginReclaim
  <2> QED
    BY <1>0, <2>1, <2>2, ZenonT(40) DEF DataInv
<1>6. ASSUME WorkerAddress PROVE DataInv'
  <2> DEFINE w == reverse[wi]
  <2>1. wi \in Indices /\ state[wi] = "COMPRESSING" /\ w # NoAddr
    BY <1>0, <1>6, Zenon DEF WorkerAddress, SlotInv, MapInv, StateInv
  <2>2. w \in key /\ idx[w] = wi /\ wi # 0
    <3>1. ~ \E u \in Threads : pc[u] = "reversed" /\ slot[u] = wi
      BY <1>0, <2>1, Zenon DEF FreshInv, Entering
    <3>2. wi # 0
      BY <1>0, <2>1, IndexRange, Zenon
    <3> QED
      BY <1>0, <2>1, <3>1, <3>2, Zenon DEF TableInv
  <2>3. /\ wpc = "locked" /\ wpc' = "snapshot" /\ wi' = wi /\ waddr' = w
        /\ open' = open \ {w}
        /\ UNCHANGED <<mapped, mem, written, refused, table, state, blob, app>>
    BY <1>6, <2>1, Zenon DEF WorkerAddress
  <2>4. \A b \in mapped :
          /\ b \in open' => mem[b] = written[b]
          /\ b \notin open' =>
               \/ b \in key /\ idx[b] # 0 /\ state[idx[b]] \in {"COMPRESSING", "COMPRESSED"}
               \/ \E u \in Threads : pc[u] = "unmap" /\ arg[u] = b
               \/ b \in refused
    BY <1>0, <2>1, <2>2, <2>3, Zenon DEF DataInv
  <2>5. \A b \in key : idx[b] # 0 =>
          /\ state[idx[b]] = "COMPRESSING" => mem[b] = written[b]
          /\ state[idx[b]] = "COMPRESSED" => blob[idx[b]] = written[b] /\ b \notin open'
    BY <1>0, <2>3, Zenon DEF DataInv
  <2>6. \A i \in Indices : state[i] = "COMPRESSING" => wi = i
    BY <1>0, Zenon DEF DataInv
  <2> QED
    BY <2>3, <2>4, <2>5, <2>6, ZenonT(40) DEF DataInv
<1>7. ASSUME Snapshot PROVE DataInv'
  <2>1. waddr \in key /\ idx[waddr] # 0 /\ idx[waddr] = wi
    BY <1>7, WorkerOn, Zenon DEF Snapshot
  <2>2. state[wi] = "COMPRESSING" /\ waddr \notin open
    BY <1>0, <1>7, Zenon DEF Snapshot, MapInv, DataInv
  <2>3. mem[waddr] = written[waddr]
    BY <1>0, <2>1, <2>2, Zenon DEF DataInv
  <2>4. /\ wpc' = "finish" /\ wbuf' = mem[waddr]
        /\ UNCHANGED <<kernel, table, pages, app, wi, waddr>>
    BY <1>7, Zenon DEF Snapshot
  <2> QED
    BY <1>0, <2>2, <2>3, <2>4, ZenonT(40) DEF DataInv
<1>8. ASSUME Stored PROVE DataInv'
  <2>1. /\ wi \in Indices /\ waddr \in key /\ idx[waddr] = wi /\ wi # 0
        /\ waddr \notin open /\ wbuf = written[waddr]
    BY <1>0, <1>8, WorkerOn, WorkerAt, Zenon DEF Stored, DataInv
  <2>2. /\ state'[wi] = "COMPRESSED" /\ blob'[wi] = wbuf
        /\ \A j \in Indices : j # wi => state'[j] = state[j] /\ blob'[j] = blob[j]
        /\ wpc' = "idle" /\ UNCHANGED <<kernel, table, app>>
    BY <1>0, <1>8, <2>1, Zenon DEF Stored, WorkerEnd, TypeInv
  <2>3. \A b \in key : idx[b] # 0 =>
          idx[b] \in Indices /\ (b # waddr => idx[b] # wi)
    BY <1>0, <2>1, IndexRange, OwnIndex, Zenon
  <2>4. \A b \in mapped :
          /\ b \in open => mem[b] = written[b]
          /\ b \notin open =>
               \/ b \in key /\ idx[b] # 0 /\ state'[idx[b]] \in {"COMPRESSING", "COMPRESSED"}
               \/ \E u \in Threads : pc[u] = "unmap" /\ arg[u] = b
               \/ b \in refused
    BY <1>0, <2>2, <2>3, Zenon DEF DataInv
  <2>5. ASSUME NEW b \in key, idx[b] # 0
        PROVE  /\ state'[idx[b]] = "COMPRESSING" => mem[b] = written[b]
               /\ state'[idx[b]] = "COMPRESSED" => blob'[idx[b]] = written[b] /\ b \notin open
    <3>1. CASE b = waddr
      BY <2>1, <2>2, <3>1, Zenon
    <3>2. CASE b # waddr
      BY <1>0, <2>2, <2>3, <2>5, <3>2, Zenon DEF DataInv
    <3> QED
      BY <3>1, <3>2, Zenon
  <2>6. \A j \in Indices : state'[j] # "COMPRESSING"
    BY <1>0, <2>2, Zenon DEF DataInv
  <2> QED
    BY <2>2, <2>4, <2>5, <2>6, ZenonT(40) DEF DataInv
<1>9. ASSUME GivenUp PROVE DataInv'
  <2>1. /\ wi \in Indices /\ waddr \in mapped /\ waddr \in key /\ idx[waddr] = wi /\ wi # 0
        /\ waddr \in Addrs
    BY <1>9, WorkerOn, WorkerAt, Zenon DEF GivenUp
  <2>2. state[wi] = "COMPRESSING"
    BY <1>0, <1>9, Zenon DEF GivenUp, MapInv
  <2>3. mem[waddr] = written[waddr]
    BY <1>0, <2>1, <2>2, Zenon DEF DataInv
  <2>4. /\ state'[wi] = "ACTIVE" /\ \A j \in Indices : j # wi => state'[j] = state[j]
        /\ open' = open \cup {waddr} /\ wpc' = "idle"
        /\ UNCHANGED <<mapped, mem, written, refused, table, blob, app>>
    <3>1. {waddr} \cap mapped = {waddr}
      BY <2>1, Zenon
    <3>2. open' = open \cup ({waddr} \cap mapped)
      BY <1>9, Zenon DEF GivenUp
    <3>3. open' = open \cup {waddr}
      BY <3>1, <3>2, Zenon
    <3>4. state'[wi] = "ACTIVE" /\ \A j \in Indices : j # wi => state'[j] = state[j]
      BY <1>0, <1>9, <2>1, Zenon DEF GivenUp, TypeInv
    <3>5. wpc' = "idle" /\ UNCHANGED <<mapped, mem, written, refused, table, blob, app>>
      BY <1>9, Zenon DEF GivenUp, WorkerEnd
    <3> QED
      BY <3>3, <3>4, <3>5, Zenon
  <2>5. \A b \in key : idx[b] # 0 /\ b # waddr => idx[b] # wi /\ idx[b] \in Indices
    BY <1>0, <2>1, IndexRange, OwnIndex, Zenon
  <2>6. \A b \in mapped :
          /\ b \in open' => mem[b] = written[b]
          /\ b \notin open' =>
               \/ b \in key /\ idx[b] # 0 /\ state'[idx[b]] \in {"COMPRESSING", "COMPRESSED"}
               \/ \E t \in Threads : pc[t] = "unmap" /\ arg[t] = b
               \/ b \in refused
    BY <1>0, <2>3, <2>4, <2>5, ZenonT(40) DEF DataInv
  <2>7. ASSUME NEW b \in key, idx[b] # 0
        PROVE  /\ state'[idx[b]] = "COMPRESSING" => mem[b] = written[b]
               /\ state'[idx[b]] = "COMPRESSED" => blob[idx[b]] = written[b] /\ b \notin open'
    <3>1. CASE b = waddr
      BY <2>1, <2>4, <3>1, Zenon
    <3>2. CASE b # waddr
      BY <1>0, <2>4, <2>5, <2>7, <3>2, ZenonT(40) DEF DataInv
    <3> QED
      BY <3>1, <3>2, Zenon
  <2>8. ASSUME NEW j \in Indices PROVE state'[j] # "COMPRESSING"
    <3>1. CASE j = wi
      BY <2>4, <3>1, Zenon
    <3>2. CASE j # wi
      <4>1. state[j] # "COMPRESSING"
        BY <1>0, <3>2, Zenon DEF DataInv
      <4> QED
        BY <2>4, <3>2, <4>1, Zenon
    <3> QED
      BY <3>1, <3>2, Zenon
  <2> QED
    BY <2>4, <2>6, <2>7, <2>8, ZenonT(40) DEF DataInv
<1>10. ASSUME Reclaim PROVE DataInv'
  <2>1. /\ waddr \in key /\ idx[waddr] = wi /\ wi # 0 /\ wi \in Indices
        /\ state[wi] = "COMPRESSED"
    BY <1>0, <1>10, WorkerOn, WorkerAt, Zenon DEF Reclaim, MapInv
  <2>2. /\ open' = open \ {waddr} /\ wpc' = "idle"
        /\ UNCHANGED <<mapped, written, refused, table, state, blob, app>>
    BY <1>10, Zenon DEF Reclaim, WorkerEnd
  <2>3. \A b \in Addrs : b # waddr => mem'[b] = mem[b]
    BY <1>0, <1>10, Zenon DEF Reclaim, TypeInv
  <2>4. \A b \in mapped :
          /\ b \in open' => mem'[b] = written[b]
          /\ b \notin open' =>
               \/ b \in key /\ idx[b] # 0 /\ state[idx[b]] \in {"COMPRESSING", "COMPRESSED"}
               \/ \E u \in Threads : pc[u] = "unmap" /\ arg[u] = b
               \/ b \in refused
    <3>1. mapped \subseteq Addrs
      BY <1>0, Zenon DEF TypeInv
    <3> QED
      BY <1>0, <2>1, <2>2, <2>3, <3>1, ZenonT(40) DEF DataInv
  <2>5. \A b \in key : idx[b] # 0 =>
          /\ state[idx[b]] = "COMPRESSING" => mem'[b] = written[b]
          /\ state[idx[b]] = "COMPRESSED" => blob[idx[b]] = written[b] /\ b \notin open'
    <3>1. key \subseteq Addrs
      BY <1>0, Zenon DEF TypeInv
    <3> QED
      BY <1>0, <2>1, <2>2, <2>3, <3>1, Zenon DEF DataInv
  <2>6. \A i \in Indices : state[i] # "COMPRESSING"
    BY <1>0, <2>1, Zenon DEF DataInv
  <2> QED
    BY <2>2, <2>4, <2>5, <2>6, ZenonT(40) DEF DataInv
<1> QED
  BY <1>1, <1>2, <1>3, <1>4, <1>5, <1>6, <1>7, <1>8, <1>9, <1>10, Zenon DEF UseStep

\* Every step keeps the data of mapped pages in its place.
LEMMA DataStep ==
  ASSUME Named, ~MayRemap, IndexInv, DataAll, [Next]_vars PROVE DataInv'
<1>1. CASE UNCHANGED vars
  BY <1>1, DataFrame, Zenon DEF vars, table, pages, app, DataAll
<1> QED
  BY <1>1, DataTrack, DataUntrack, DataUse, Branches, Zenon
     DEF IndexInv

\* A step that leaves the table and the refused pages alone.
LEMMA RefusedFrame ==
  ASSUME RefusedInv, UNCHANGED <<refused, key, idx>>,
         \A u \in Threads : pc'[u] \in Tracking => pc[u] \in Tracking /\ arg'[u] = arg[u]
  PROVE  RefusedInv'
BY Zenon DEF RefusedInv

\* A refused page gets no index, when a page is entered.
LEMMA RefusedTrack ==
  ASSUME Named, ~MayRemap, IndexInv, DataAll, TrackStep PROVE RefusedInv'
<1> USE DEF Named, Indices, kernel, table, pages, app, worker
<1>0. /\ TypeInv /\ ThreadInv /\ SlotInv /\ TableInv /\ StateInv
      /\ MapInv /\ RefusedInv
  BY Zenon DEF IndexInv, DataAll
<1>1. ASSUME NEW t \in Threads, NEW a \in Addrs, Mmap(t, a) PROVE RefusedInv'
  <2>1. refused' = refused \ {a} /\ arg'[t] = a /\ UNCHANGED <<key, idx>>
    BY <1>0, <1>1, Zenon DEF TypeInv, Mmap
  <2>2. \A u \in Threads : u # t => pc'[u] = pc[u] /\ arg'[u] = arg[u]
    BY <1>0, <1>1, Zenon DEF TypeInv, Mmap, Goto
  <2> QED
    BY <1>0, <2>1, <2>2, Zenon DEF RefusedInv
<1>2. ASSUME NEW t \in Threads, TrackNothing(t) PROVE RefusedInv'
  <2>1. /\ UNCHANGED <<refused, key, idx>>
        /\ \A u \in Threads : pc'[u] \in Tracking => pc[u] \in Tracking /\ arg'[u] = arg[u]
    BY <1>0, <1>2, ZenonT(40) DEF TypeInv, Tracking, TrackNothing, Done, Goto
  <2> QED
    BY <1>0, <2>1, RefusedFrame, Zenon
<1>3. ASSUME NEW t \in Threads, TrackAgain(t) PROVE RefusedInv'
  <2>1. /\ UNCHANGED <<refused, key, idx>>
        /\ \A u \in Threads : pc'[u] \in Tracking => pc[u] \in Tracking /\ arg'[u] = arg[u]
    BY <1>0, <1>3, ZenonT(40) DEF TypeInv, Tracking, TrackAgain, Done, Goto
  <2> QED
    BY <1>0, <2>1, RefusedFrame, Zenon
<1>4. ASSUME NEW t \in Threads, ClaimKey(t) PROVE RefusedInv'
  <2>1. /\ key' = key \cup {arg[t]} /\ UNCHANGED <<refused, arg>>
        /\ arg[t] \in Addrs /\ pc[t] \in Tracking
    BY <1>0, <1>4, Zenon DEF ClaimKey, ThreadInv, Tracking
  <2>2. idx'[arg[t]] = 0 /\ \A a \in Addrs : a # arg[t] => idx'[a] = idx[a]
    BY <1>0, <1>4, <2>1, Zenon DEF ClaimKey, TypeInv
  <2>3. \A u \in Threads : u # t => pc'[u] = pc[u]
    BY <1>0, <1>4, Zenon DEF ClaimKey, Goto, TypeInv
  <2>4. key \subseteq Addrs
    BY <1>0, Zenon DEF TypeInv
  <2>5. \A a \in refused : a \notin key' \/ idx'[a] = 0
    BY <1>0, <2>1, <2>2, <2>4, Zenon DEF RefusedInv
  <2>6. \A u \in Threads : pc'[u] \in Tracking => arg[u] \notin refused
    BY <1>0, <2>1, <2>3, Zenon DEF RefusedInv
  <2> QED
    BY <2>1, <2>5, <2>6, Zenon DEF RefusedInv
<1>5. ASSUME NEW t \in Threads, SlotsGone(t) PROVE RefusedInv'
  <2>1. /\ UNCHANGED <<refused, key, idx>>
        /\ \A u \in Threads : pc'[u] \in Tracking => pc[u] \in Tracking /\ arg'[u] = arg[u]
    BY <1>0, <1>5, ZenonT(40) DEF TypeInv, Tracking, SlotsGone, Done, Goto
  <2> QED
    BY <1>0, <2>1, RefusedFrame, Zenon
<1>6. ASSUME NEW t \in Threads, SlotTaken(t) PROVE RefusedInv'
  <2>1. /\ UNCHANGED <<refused, key, idx>>
        /\ \A u \in Threads : pc'[u] \in Tracking => pc[u] \in Tracking /\ arg'[u] = arg[u]
    BY <1>0, <1>6, ZenonT(40) DEF TypeInv, Tracking, SlotTaken, Done, Goto
  <2> QED
    BY <1>0, <2>1, RefusedFrame, Zenon
<1>7. ASSUME NEW t \in Threads, WriteReverse(t) PROVE RefusedInv'
  <2>1. /\ UNCHANGED <<refused, key, idx>>
        /\ \A u \in Threads : pc'[u] \in Tracking => pc[u] \in Tracking /\ arg'[u] = arg[u]
    BY <1>0, <1>7, ZenonT(40) DEF TypeInv, Tracking, WriteReverse, Done, Goto
  <2> QED
    BY <1>0, <2>1, RefusedFrame, Zenon
<1>8. ASSUME NEW t \in Threads, PublishIdx(t) PROVE RefusedInv'
  <2>1. UNCHANGED <<refused, arg, key>> /\ arg[t] \notin refused
    BY <1>0, <1>8, Zenon DEF PublishIdx, Tracking, RefusedInv
  <2>2. \A a \in Addrs : a # arg[t] => idx'[a] = idx[a]
    BY <1>0, <1>8, Zenon DEF PublishIdx, TypeInv
  <2>3. \A u \in Threads : pc'[u] \in Tracking => pc[u] \in Tracking
    BY <1>0, <1>8, ZenonT(40) DEF PublishIdx, Goto, TypeInv, Tracking
  <2>4. key \subseteq Addrs
    BY <1>0, Zenon DEF TypeInv
  <2> QED
    BY <1>0, <2>1, <2>2, <2>3, <2>4, Zenon DEF RefusedInv
<1>9. ASSUME NEW t \in Threads, CountSlot(t) PROVE RefusedInv'
  <2>1. /\ UNCHANGED <<refused, key, idx>>
        /\ \A u \in Threads : pc'[u] \in Tracking => pc[u] \in Tracking /\ arg'[u] = arg[u]
    BY <1>0, <1>9, ZenonT(40) DEF TypeInv, Tracking, CountSlot, Done, Goto
  <2> QED
    BY <1>0, <2>1, RefusedFrame, Zenon
<1>10. ASSUME NEW t \in Threads, SetActive(t) PROVE RefusedInv'
  <2>1. /\ UNCHANGED <<refused, key, idx>>
        /\ \A u \in Threads : pc'[u] \in Tracking => pc[u] \in Tracking /\ arg'[u] = arg[u]
    BY <1>0, <1>10, ZenonT(40) DEF TypeInv, Tracking, SetActive, Done, Goto
  <2> QED
    BY <1>0, <2>1, RefusedFrame, Zenon
<1> QED
  BY <1>1, <1>2, <1>3, <1>4, <1>5, <1>6, <1>7, <1>8, <1>9, <1>10, Zenon DEF TrackStep

\* A refused page gets no index, when a page is taken out.
LEMMA RefusedUntrack ==
  ASSUME Named, ~MayRemap, IndexInv, DataAll, UntrackStep PROVE RefusedInv'
<1> USE DEF Named, Indices, kernel, table, pages, app, worker
<1>0. /\ TypeInv /\ ThreadInv /\ SlotInv /\ TableInv /\ StateInv
      /\ MapInv /\ RefusedInv
  BY Zenon DEF IndexInv, DataAll
<1>1. ASSUME NEW t \in Threads, NEW a \in Addrs, Munmap(t, a) PROVE RefusedInv'
  <2>1. /\ UNCHANGED <<refused, key, idx>>
        /\ \A u \in Threads : pc'[u] \in Tracking => pc[u] \in Tracking /\ arg'[u] = arg[u]
    BY <1>0, <1>1, ZenonT(40) DEF TypeInv, Tracking, Munmap, Done, Goto
  <2> QED
    BY <1>0, <2>1, RefusedFrame, Zenon
<1>2. ASSUME NEW t \in Threads, NotTracked(t) PROVE RefusedInv'
  <2>1. /\ UNCHANGED <<refused, key, idx>>
        /\ \A u \in Threads : pc'[u] \in Tracking => pc[u] \in Tracking /\ arg'[u] = arg[u]
    BY <1>0, <1>2, ZenonT(40) DEF TypeInv, Tracking, NotTracked, Done, Goto
  <2> QED
    BY <1>0, <2>1, RefusedFrame, Zenon
<1>3. ASSUME NEW t \in Threads, Locked(t) PROVE RefusedInv'
  <2>1. /\ UNCHANGED <<refused, key, idx>>
        /\ \A u \in Threads : pc'[u] \in Tracking => pc[u] \in Tracking /\ arg'[u] = arg[u]
    BY <1>0, <1>3, ZenonT(40) DEF TypeInv, Tracking, Locked, Done, Goto
  <2> QED
    BY <1>0, <2>1, RefusedFrame, Zenon
<1>4. ASSUME NEW t \in Threads, Untrack(t) PROVE RefusedInv'
  <2>1. key' = key \ {arg[t]} /\ UNCHANGED <<refused, idx, arg>>
    BY <1>4, Zenon DEF Untrack
  <2>2. \A u \in Threads : pc'[u] \in Tracking => pc[u] \in Tracking
    BY <1>0, <1>4, ZenonT(40) DEF Untrack, Goto, TypeInv, Tracking
  <2> QED
    BY <1>0, <2>1, <2>2, Zenon DEF RefusedInv
<1>5. ASSUME NEW t \in Threads, Unmapped(t) PROVE RefusedInv'
  <2>1. refused' = refused \ {arg[t]} /\ UNCHANGED <<key, idx>>
    BY <1>5, Zenon DEF Unmapped
  <2>2. \A u \in Threads : pc'[u] \in Tracking => pc[u] \in Tracking /\ arg'[u] = arg[u]
    BY <1>0, <1>5, ZenonT(40) DEF TypeInv, Tracking, Unmapped, Done, Goto
  <2> QED
    BY <1>0, <2>1, <2>2, Zenon DEF RefusedInv
<1>6. ASSUME NEW t \in Threads, Moved(t) PROVE RefusedInv'
  BY <1>0, <1>6, Zenon DEF MapInv, Moved
<1>7. ASSUME NEW t \in Threads, NEW a \in Addrs, NEW b \in Addrs, Mremap(t, a, b)
      PROVE  RefusedInv'
  BY <1>7, Zenon DEF Mremap
<1>8. ASSUME NEW t \in Threads, UnmapRefused(t) PROVE RefusedInv'
  <2>1. refused' = refused \cup {arg[t]} /\ UNCHANGED <<key, idx>>
    BY <1>8, Zenon DEF UnmapRefused
  <2>2. arg[t] \notin key \/ idx[arg[t]] = 0
    BY <1>0, <1>8, Zenon DEF UnmapRefused, TableInv
  <2>3. pc'[t] = "idle" /\ \A u \in Threads : u # t => pc'[u] = pc[u] /\ arg'[u] = arg[u]
    BY <1>0, <1>8, ZenonT(40) DEF UnmapRefused, Done, Goto, TypeInv
  <2>4. \A u \in Threads : u # t => arg[u] # arg[t]
    BY <1>0, <1>8, Zenon DEF ThreadInv, UnmapRefused
  <2>5. \A u \in Threads : pc'[u] \in Tracking => arg'[u] \notin refused'
    BY <1>0, <2>1, <2>3, <2>4, Zenon DEF RefusedInv, Tracking
  <2> QED
    BY <1>0, <2>1, <2>2, <2>5, Zenon DEF RefusedInv
<1> QED
  BY <1>1, <1>2, <1>3, <1>4, <1>5, <1>6, <1>7, <1>8, Zenon DEF UntrackStep

\* Using and compressing pages does not concern the table.
LEMMA TableLeft == ASSUME UseStep PROVE UNCHANGED <<refused, key, idx, pc, arg>>
BY ZenonT(40) DEF kernel, table, pages, app, worker, UseStep, Store, Restored,
   FoundOpen, BeginCompress, BeginReclaim, WorkerAddress, Snapshot, Stored, GivenUp,
   Reclaim

\* Every step leaves refused pages without an index.
LEMMA RefusedStep ==
  ASSUME Named, ~MayRemap, IndexInv, DataAll, [Next]_vars PROVE RefusedInv'
<1>1. CASE UNCHANGED <<refused, key, idx, pc, arg>>
  BY <1>1, RefusedFrame, Zenon DEF DataAll
<1>2. UNCHANGED vars => UNCHANGED <<refused, key, idx, pc, arg>>
  BY Zenon DEF vars, kernel, table, app
<1> QED
  BY <1>1, <1>2, RefusedTrack, RefusedUntrack, TableLeft, Branches, Zenon DEF IndexInv

\* Where the data is, as long as nothing is mapped over a mapping.
THEOREM DataInPlace == ASSUME Named, ~MayRemap PROVE Spec => [](IndexInv /\ DataAll)
<1>1. Init => DataAll
  BY DataInit, Zenon
<1>2. IndexInv /\ DataAll /\ [Next]_vars => DataAll'
  <2> SUFFICES ASSUME IndexInv, DataAll, [Next]_vars PROVE DataAll'
    OBVIOUS
  <2> QED
    BY FreshStep, MapStep, DataStep, RefusedStep, Zenon DEF DataAll
<1> QED
  BY <1>1, <1>2, TablesAgree, PTL DEF Spec

\* For any number of addresses, threads and slots, as long as nothing is mapped
\* over a mapping: the worker never touches an unmapped page, and a mapped page
\* that the kernel did not refuse to unmap holds what the application last wrote
\* there, in memory or under the index of its address (the munmap wrapper,
\* untrackExternalPageLocked).
THEOREM MappingsKept == ASSUME Named, ~MayRemap PROVE Spec => []MappingsIntact
<1>1. IndexInv /\ DataAll => MappingsIntact
  BY Zenon DEF IndexInv, DataAll, MapInv, DataInv, MappingsIntact
<1> QED
  BY <1>1, DataInPlace, PTL
=============================================================================
