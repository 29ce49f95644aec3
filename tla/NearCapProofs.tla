---------------------------- MODULE NearCapProofs ----------------------------
(***************************************************************************)
(* Proofs about NearCap, for any number of pages, threads, fault slots and *)
(* mappings: whatever mprotect refuses, restores lose no page, no blob and *)
(* no fault slot.                                                          *)
(***************************************************************************)
EXTENDS NearCap, TLAPS, FiniteSetTheorems, WellFoundedInduction

\* What the code's constants are.
Sized ==
  /\ N \in Nat \ {0} /\ Committed \in 0..N
  /\ Cap \in Nat /\ Margin \in Nat /\ Slots \in Nat /\ MaxWork \in Nat
  /\ Limits[1] \in Nat /\ Limits[2] \in Nat /\ Limits[3] \in Nat
  /\ IsFiniteSet(Threads) /\ None \notin Threads

States == {"EMPTY", "ACTIVE", "ACTIVE_MONITORING", "COMPRESSED_SHADOW", "COMPRESSED"}
Prots == {"none", "read", "rw"}
Places == {"idle", "access", "fault", "slot", "near", "single", "whole", "nearRange",
           "wholeRange", "finish", "done", "giveup"}
\* Where a thread has its page locked, has a fault slot if it needs one, has a
\* range locked, or has opened what it restores.
Inside == {"slot", "near", "single", "whole", "nearRange", "wholeRange", "finish",
           "done", "giveup"}
Served == Inside \ {"slot"}
Ranged == {"nearRange", "wholeRange", "finish"}
Opening == {"finish", "done"}

Typed ==
  /\ prot \in [Pages -> Prots] /\ state \in [Pages -> States]
  /\ blob \in [Pages -> BOOLEAN] /\ mem \in [Pages -> {"gone", "blob", "new"}]
  /\ lock \in [Pages -> Threads \cup {None}]
  /\ estimate \in Int /\ others \in Int
  /\ slots \in Int
  /\ pc \in [Threads -> Places] /\ page \in [Threads -> Pages]
  /\ store \in [Threads -> BOOLEAN] /\ range \in [Threads -> SUBSET Pages]

\* The state, protection, blob and memory of a committed page agree, locked or not.
Agree(st, pr, bl, me) ==
  /\ st # "EMPTY"
  /\ bl <=> st \in {"COMPRESSED", "COMPRESSED_SHADOW"}
  /\ pr = "none" => st = "COMPRESSED"
  /\ me = "gone" => pr = "none"
  /\ st = "COMPRESSED" /\ pr = "none" => me # "new"

PageInv ==
  /\ \A p \in Live : Agree(state[p], prot[p], blob[p], mem[p])
  /\ \A p \in Pages \ Live : state[p] = "EMPTY"

\* A COMPRESSED page is open only to the thread that is about to finalize it.
OpenInv ==
  \A p \in Live : state[p] = "COMPRESSED" /\ prot[p] # "none" =>
    lock[p] \in Threads /\ pc[lock[p]] \in Opening

\* A thread has locked its page and its range and nothing else; what it is about
\* to finalize is open; and it waits for a slot only with a blob to restore.
ThreadSound(t) ==
  /\ pc[t] # "idle" => page[t] \in Live
  /\ pc[t] \in Inside => lock[page[t]] = t
  /\ \A q \in range[t] : lock[q] = t
  /\ \A q \in Pages : lock[q] = t => pc[t] \in Inside /\ (q = page[t] \/ q \in range[t])
  /\ pc[t] \in Ranged => page[t] \in range[t] /\ range[t] \subseteq Live
  /\ pc[t] \notin Ranged => range[t] = {}
  /\ pc[t] \in Opening => prot[page[t]] = "rw"
  /\ pc[t] = "finish" => \A q \in range[t] : prot[q] = "rw"
  /\ pc[t] = "slot" => state[page[t]] = "COMPRESSED"

ThreadInv == \A t \in Threads : ThreadSound(t)

Holders == {t \in Threads : pc[t] \in Served /\ state[page[t]] = "COMPRESSED"}

\* The fault slots that are not free are held by threads with a page to restore.
SlotInv == slots + Cardinality(Holders) = Slots

CapInv == Typed /\ PageInv /\ OpenInv /\ ThreadInv /\ SlotInv

-----------------------------------------------------------------------------
(* Sets of numbers, and the count of a set that one element joins or leaves. *)

\* A set of naturals has a least one.
LEMMA LeastNat ==
  ASSUME NEW T \in SUBSET Nat, T # {}
  PROVE  \E x \in T : \A y \in T : x <= y
<1> DEFINE R == OpToRel(<, Nat)
<1>1. PICK x \in T : \A y \in T : ~ (<<y, x>> \in R)
  BY WFMin, NatLessThanWellFounded, Zenon
<1>2. \A y \in T : ~ (y < x)
  BY <1>1, Zenon DEF OpToRel
<1> QED
  BY <1>2

\* Min and Max return a member.
LEMMA MinMember ==
  ASSUME NEW T \in SUBSET Nat, T # {}
  PROVE  Min(T) \in T
BY LeastNat, Zenon DEF Min

LEMMA MaxMember ==
  ASSUME NEW n \in Nat, NEW T \in SUBSET (0..n), T # {}
  PROVE  Max(T) \in T
<1> DEFINE D == {k \in Nat : \E x \in T : k = n - x}
<1>1. \A x \in T : n - x \in D
  OBVIOUS
<1>2. D # {}
  BY <1>1, Zenon
<1>3. PICK k \in D : \A j \in D : k <= j
  BY <1>2, LeastNat, Zenon
<1>4. PICK x \in T : k = n - x
  BY <1>3, Zenon
<1>5. ASSUME NEW y \in T PROVE x >= y
  <2>1. n - y \in D
    BY <1>1, Zenon
  <2>3. n - x <= n - y
    BY <1>3, <1>4, <2>1, Zenon
  <2>2. x \in Nat /\ y \in Nat
    OBVIOUS
  <2> HIDE DEF D
  <2> QED
    BY <2>2, <2>3
<1> QED
  BY <1>5, Zenon DEF Max

LEMMA CountChange ==
  ASSUME NEW A, NEW B, NEW t, IsFiniteSet(A), A \ {t} = B \ {t}
  PROVE  /\ IsFiniteSet(B)
         /\ Cardinality(A) \in Nat /\ Cardinality(B) \in Nat
         /\ (t \in A <=> t \in B) => Cardinality(B) = Cardinality(A)
         /\ t \notin A /\ t \in B => Cardinality(B) = Cardinality(A) + 1
         /\ t \in A /\ t \notin B => Cardinality(B) = Cardinality(A) - 1
<1>1. CASE t \in A <=> t \in B
  <2>1. A = B
    BY <1>1
  <2> QED
    BY <2>1, FS_CardinalityType, Zenon
<1>2. CASE t \notin A /\ t \in B
  <2>1. B = A \cup {t}
    BY <1>2, Zenon
  <2>2. IsFiniteSet(B) /\ Cardinality(B) = Cardinality(A) + 1
    BY <1>2, <2>1, FS_AddElement, Zenon
  <2> QED
    BY <1>2, <2>2, FS_CardinalityType, Zenon
<1>3. CASE t \in A /\ t \notin B
  <2>1. B = A \ {t}
    BY <1>3, Zenon
  <2>2. IsFiniteSet(B) /\ Cardinality(B) = Cardinality(A) - 1
    BY <1>3, <2>1, FS_RemoveElement, Zenon
  <2> QED
    BY <1>3, <2>2, FS_CardinalityType, Zenon
<1> QED
  BY <1>1, <1>2, <1>3, Zenon

\* The number of mappings is a number.
LEMMA SplitsType ==
  ASSUME Sized, NEW f
  PROVE  Splits(f) \in Nat
<1>1. IsFiniteSet(Pages)
  BY FS_Interval DEF Pages, Sized
<1>2. {p \in Pages \ {0} : f[p] # f[p - 1]} \in SUBSET Pages
  OBVIOUS
<1>3. IsFiniteSet({p \in Pages \ {0} : f[p] # f[p - 1]})
  BY <1>1, <1>2, FS_Subset, Zenon
<1> QED
  BY <1>3, FS_CardinalityType, Zenon DEF Splits

LEMMA NeighborsType ==
  ASSUME Sized, NEW p \in Pages
  PROVE  InaccessibleNeighbors(p) \in Nat
<1>1. IsFiniteSet(Live)
  BY FS_Interval DEF Live, Sized
<1>2. {q \in {p - 1, p + 1} \cap Live : state[q] \in Inaccessible} \in SUBSET Live
  OBVIOUS
<1>3. IsFiniteSet({q \in {p - 1, p + 1} \cap Live : state[q] \in Inaccessible})
  BY <1>1, <1>2, FS_Subset, Zenon
<1> QED
  BY <1>3, FS_CardinalityType, Zenon DEF InaccessibleNeighbors

\* The run that restoreNearCap opens is of committed pages and has its page.
LEMMA NearRangeLive ==
  ASSUME Sized, Typed, NEW p \in Live, NearRange(p) # {}
  PROVE  p \in NearRange(p) /\ NearRange(p) \subseteq Live
<1> DEFINE limit == NearCapVmaLimit
           cls == state[p]
           Left == {a \in 0..p : p - a <= limit /\ \A q \in a..p : state[q] = cls}
           Right == {b \in p..Committed - 1 :
                       b - p <= limit /\ \A q \in p..b : state[q] = cls}
           l == Min(Left)
           r == Max(Right)
<1>1. limit \in Nat
  <2>1. Cap - estimate \in Int /\ Margin \div 2 \in Int /\ Margin \div 4 \in Int
    BY DEF Sized, Typed
  <2> QED
    BY <2>1, Zenon DEF NearCapVmaLimit, Sized
<1>2. p \in Nat /\ p <= Committed - 1 /\ Committed - 1 \in Nat
  BY DEF Live, Sized
<1>3. l \in 0..p
  <2>1. p \in Left /\ Left \in SUBSET Nat
    BY <1>1, <1>2
  <2>2. l \in Left
    BY <2>1, MinMember, Zenon
  <2> QED
    BY <2>2, Zenon
<1>4. r \in p..Committed - 1
  <2>1. p \in Right /\ Right \in SUBSET (0..Committed - 1)
    BY <1>1, <1>2
  <2>2. r \in Right
    BY <1>2, <2>1, MaxMember, Zenon
  <2> QED
    BY <2>2, Zenon
<1> HIDE DEF limit, l, r
<1>5. NearRange(p) \in {l..r, l..p, p..r, {}}
  BY Zenon DEF NearRange, limit, l, r
<1>6. NearRange(p) \in {l..r, l..p, p..r}
  BY <1>5, Zenon
<1>7. /\ p \in l..r /\ l..r \subseteq Live
      /\ p \in l..p /\ l..p \subseteq Live
      /\ p \in p..r /\ p..r \subseteq Live
  BY <1>2, <1>3, <1>4 DEF Live
<1> QED
  BY <1>6, <1>7, Zenon
-----------------------------------------------------------------------------
(* A step keeps the invariant if it deals with the pages of its actor.     *)

\* The pages that nobody has locked are the compressor's.
LEMMA CompressorKeeps ==
  ASSUME CapInv, Typed',
         UNCHANGED <<lock, slots, pc, page, range>>,
         \A p \in Pages : lock[p] # None \/ p \notin Live =>
           state'[p] = state[p] /\ prot'[p] = prot[p],
         \A p \in Live : Agree(state'[p], prot'[p], blob'[p], mem'[p]),
         \A p \in Live : lock[p] = None /\ state'[p] = "COMPRESSED" => prot'[p] = "none",
         Sized
  PROVE  CapInv'
<1>1. Live \subseteq Pages
  BY DEF Live, Pages, Sized
<1>2. PageInv'
  BY Zenon DEF CapInv, PageInv
<1>3. OpenInv'
  BY <1>1, Zenon DEF CapInv, OpenInv, Typed
<1>4. ASSUME NEW t \in Threads PROVE ThreadSound(t)'
  <2>1. ThreadSound(t) /\ t # None /\ page[t] \in Pages /\ range[t] \subseteq Pages
    BY Zenon DEF CapInv, ThreadInv, Typed, Sized
  <2>2. pc[t] \in Inside =>
          state'[page[t]] = state[page[t]] /\ prot'[page[t]] = prot[page[t]]
    BY <2>1, Zenon DEF ThreadSound
  <2>3. \A q \in range[t] : prot'[q] = prot[q]
    BY <2>1, Zenon DEF ThreadSound
  <2> QED
    BY <2>1, <2>2, <2>3, Zenon DEF ThreadSound, Inside, Opening
<1>5. Holders' = Holders
  <2>1. ASSUME NEW t \in Threads, pc[t] \in Served PROVE state'[page[t]] = state[page[t]]
    <3>1. ThreadSound(t) /\ t # None /\ page[t] \in Pages
      BY Zenon DEF CapInv, ThreadInv, Typed, Sized
    <3> QED
      BY <2>1, <3>1, Zenon DEF ThreadSound, Served
  <2> QED
    BY <2>1, Zenon DEF Holders
<1>6. SlotInv'
  BY <1>5, Zenon DEF CapInv, SlotInv
<1> QED
  BY <1>2, <1>3, <1>4, <1>6, Zenon DEF CapInv, ThreadInv

\* A thread deals with the pages it has locked and with those it locks.
LEMMA ThreadKeeps ==
  ASSUME CapInv, Typed', Sized, NEW t \in Threads,
         \A u \in Threads \ {t} :
           pc'[u] = pc[u] /\ page'[u] = page[u] /\ range'[u] = range[u],
         \A p \in Pages : lock[p] \notin {t, None} =>
           lock'[p] = lock[p] /\ state'[p] = state[p] /\ prot'[p] = prot[p],
         \A p \in Pages : lock[p] \in {t, None} => lock'[p] \in {t, None},
         PageInv', ThreadSound(t)',
         \A p \in Live : lock[p] \in {t, None} =>
           (state'[p] = "COMPRESSED" /\ prot'[p] # "none" =>
              lock'[p] = t /\ pc'[t] \in Opening),
         \/ slots' = slots /\ (t \in Holders' <=> t \in Holders)
         \/ slots' = slots - 1 /\ t \notin Holders /\ t \in Holders'
         \/ slots' = slots + 1 /\ t \in Holders /\ t \notin Holders'
  PROVE  CapInv'
<1>1. Live \subseteq Pages
  BY DEF Live, Pages, Sized
<1>2. OpenInv'
  <2> SUFFICES ASSUME NEW p \in Live, state'[p] = "COMPRESSED", prot'[p] # "none"
               PROVE  lock'[p] \in Threads /\ pc'[lock'[p]] \in Opening
    BY Zenon DEF OpenInv
  <2>1. CASE lock[p] \in {t, None}
    BY <2>1, Zenon
  <2>2. CASE lock[p] \notin {t, None}
    <3>1. lock'[p] = lock[p] /\ state'[p] = state[p] /\ prot'[p] = prot[p]
      BY <1>1, <2>2, Zenon
    <3>2. lock[p] \in Threads /\ pc[lock[p]] \in Opening
      BY <3>1, ZenonT(40) DEF CapInv, OpenInv
    <3> QED
      BY <2>2, <3>1, <3>2, ZenonT(40)
  <2> QED
    BY <2>1, <2>2, Zenon
<1>3. ASSUME NEW u \in Threads \ {t} PROVE ThreadSound(u)'
  <2>1. /\ ThreadSound(u) /\ u \notin {t, None}
        /\ page[u] \in Pages /\ range[u] \subseteq Pages
    BY Zenon DEF CapInv, ThreadInv, Typed, Sized
  <2>2. pc'[u] = pc[u] /\ page'[u] = page[u] /\ range'[u] = range[u]
    OBVIOUS
  <2>3. \A q \in Pages : lock'[q] = u <=> lock[q] = u
    BY <2>1, Zenon
  <2>4. \A q \in Pages : lock[q] = u => state'[q] = state[q] /\ prot'[q] = prot[q]
    BY <2>1, Zenon
  <2>5. pc[u] \in Inside => /\ lock'[page[u]] = u /\ state'[page[u]] = state[page[u]]
                            /\ prot'[page[u]] = prot[page[u]]
    BY <2>1, <2>3, <2>4, Zenon DEF ThreadSound
  <2>6. \A q \in range[u] : lock'[q] = u /\ prot'[q] = prot[q]
    BY <2>1, <2>3, <2>4, Zenon DEF ThreadSound
  <2> QED
    BY <2>1, <2>2, <2>3, <2>5, <2>6 DEF ThreadSound, Inside, Opening
<1>4. ThreadInv'
  BY <1>3, Zenon DEF ThreadInv
<1>5. Holders' \ {t} = Holders \ {t}
  <2>1. ASSUME NEW u \in Threads \ {t}, pc[u] \in Served
        PROVE  state'[page[u]] = state[page[u]]
    <3>1. ThreadSound(u) /\ u \notin {t, None} /\ page[u] \in Pages
      BY Zenon DEF CapInv, ThreadInv, Typed, Sized
    <3> QED
      BY <2>1, <3>1, Zenon DEF ThreadSound, Served
  <2> QED
    BY <2>1 DEF Holders
<1>6. SlotInv'
  <2>1. IsFiniteSet(Holders)
    BY FS_Subset, Zenon DEF Holders, Sized
  <2>2. slots \in Int /\ slots + Cardinality(Holders) = Slots
    BY Zenon DEF CapInv, SlotInv, Typed
  <2> HIDE DEF Holders
  <2> DEFINE A == Holders
             B == Holders'
  <2>3. /\ Cardinality(A) \in Nat /\ Cardinality(B) \in Nat
        /\ (t \in A <=> t \in B) => Cardinality(B) = Cardinality(A)
        /\ t \notin A /\ t \in B => Cardinality(B) = Cardinality(A) + 1
        /\ t \in A /\ t \notin B => Cardinality(B) = Cardinality(A) - 1
    <3>1. A \ {t} = B \ {t}
      BY <1>5, Zenon
    <3> HIDE DEF A, B
    <3>2. IsFiniteSet(A)
      BY <2>1, Zenon DEF A
    <3> QED
      BY <3>1, <3>2, CountChange, Zenon
  <2> QED
    BY <2>2, <2>3 DEF SlotInv
<1> QED
  BY <1>2, <1>4, <1>6, Zenon DEF CapInv
-----------------------------------------------------------------------------
(* The compressor.                                                         *)

\* The steps that touch no page: counting mappings and the tick's phases.
LEMMA CountingKeeps ==
  ASSUME CapInv, Sized, Mmap \/ StartTick \/ ArmBudget \/ EndTick
  PROVE  CapInv'
<1>1. /\ UNCHANGED <<prot, state, blob, lock, mem, slots>>
      /\ UNCHANGED <<pc, page, store, range>>
  BY Zenon DEF Mmap, StartTick, ArmBudget, EndTick, pageVars, threadVars
<1>2. estimate' \in Int /\ others' \in Int
  <2>1. Vmas \in Int
    BY SplitsType DEF Vmas, CapInv, Typed
  <2> QED
    BY <2>1 DEF CapInv, Typed, Mmap, StartTick, ArmBudget, EndTick, capVars
<1>3. Typed'
  BY <1>1, <1>2, Zenon DEF CapInv, Typed
<1>4. \A p \in Live : Agree(state'[p], prot'[p], blob'[p], mem'[p])
  BY <1>1, Zenon DEF CapInv, PageInv
<1>5. \A p \in Live : lock[p] = None /\ state'[p] = "COMPRESSED" => prot'[p] = "none"
  BY <1>1, Zenon DEF CapInv, OpenInv, Sized
<1> QED
  BY <1>1, <1>3, <1>4, <1>5, CompressorKeeps, Zenon

\* A page nobody has locked and whose blob has not been overtaken stays as it is.
LEMMA UnlockedCompressed ==
  ASSUME CapInv, Sized, NEW p \in Live, lock[p] = None, state[p] = "COMPRESSED"
  PROVE  prot[p] = "none"
BY Zenon DEF CapInv, OpenInv, Sized

\* What a step that changes the free page p alone has to show of it.
LEMMA OnePageKeeps ==
  ASSUME CapInv, Sized, NEW p \in Live, lock[p] = None,
         UNCHANGED <<lock, slots, pc, page, range, store, others, estimate>>,
         NEW st \in States, NEW pr \in Prots, NEW bl \in BOOLEAN,
         NEW me \in {"gone", "blob", "new"},
         state' = [state EXCEPT ![p] = st], prot' = [prot EXCEPT ![p] = pr],
         blob' = [blob EXCEPT ![p] = bl], mem' = [mem EXCEPT ![p] = me],
         Agree(st, pr, bl, me), st = "COMPRESSED" => pr = "none"
  PROVE  CapInv'
<1>1. Live \subseteq Pages
  BY DEF Live, Pages, Sized
<1>2. Typed'
  BY <1>1, Zenon DEF CapInv, Typed
<1>3. /\ state'[p] = st /\ prot'[p] = pr /\ blob'[p] = bl /\ mem'[p] = me
      /\ \A q \in Pages \ {p} : /\ state'[q] = state[q] /\ prot'[q] = prot[q]
                                /\ blob'[q] = blob[q] /\ mem'[q] = mem[q]
  BY <1>1, Zenon DEF CapInv, Typed
<1>4. \A q \in Pages : lock[q] # None \/ q \notin Live =>
        state'[q] = state[q] /\ prot'[q] = prot[q]
  BY <1>3, Zenon
<1>5. ASSUME NEW q \in Live PROVE Agree(state'[q], prot'[q], blob'[q], mem'[q])
  BY <1>1, <1>3, ZenonT(40) DEF CapInv, PageInv
<1>6. ASSUME NEW q \in Live, lock[q] = None, state'[q] = "COMPRESSED"
      PROVE  prot'[q] = "none"
  BY <1>1, <1>3, <1>6, UnlockedCompressed, Zenon
<1> QED
  BY <1>2, <1>4, <1>5, <1>6, CompressorKeeps, Zenon

\* Reclaiming a shadow.
LEMMA ReclaimKeeps ==
  ASSUME CapInv, Sized, NEW p \in Live, Reclaim(p)
  PROVE  CapInv'
<1>1. p \in Pages
  BY DEF Live, Pages, Sized
<1>2. /\ UNCHANGED <<lock, slots, pc, page, range, store, others, estimate>>
      /\ lock[p] = None /\ state[p] = "COMPRESSED_SHADOW"
  BY Zenon DEF Reclaim, capVars, threadVars
<1>3. /\ Agree("COMPRESSED_SHADOW", prot[p], blob[p], mem[p])
      /\ blob[p] \in BOOLEAN /\ mem[p] \in {"gone", "blob", "new"}
  BY <1>1, <1>2, Zenon DEF CapInv, PageInv, Typed
<1>4. CASE mem[p] = "blob"
  <2>1. /\ prot' = [prot EXCEPT ![p] = "none"] /\ mem' = [mem EXCEPT ![p] = "gone"]
        /\ state' = [state EXCEPT ![p] = "COMPRESSED"] /\ blob' = blob
    BY <1>4, Zenon DEF Reclaim, With
  <2>2. blob' = [blob EXCEPT ![p] = TRUE]
    BY <1>1, <1>3, <2>1, Zenon DEF CapInv, Typed, Agree
  <2>3. Agree("COMPRESSED", "none", TRUE, "gone")
    BY Zenon DEF Agree
  <2> QED
    BY <1>2, <2>1, <2>2, <2>3, OnePageKeeps, Zenon DEF States, Prots
<1>5. CASE mem[p] # "blob"
  <2>1. /\ prot' = [prot EXCEPT ![p] = "rw"] /\ mem' = mem
        /\ state' = [state EXCEPT ![p] = "ACTIVE"] /\ blob' = [blob EXCEPT ![p] = FALSE]
    BY <1>5, Zenon DEF Reclaim, With
  <2>2. mem' = [mem EXCEPT ![p] = "new"]
    BY <1>1, <1>3, <1>5, <2>1, Zenon DEF CapInv, Typed, Agree
  <2>3. Agree("ACTIVE", "rw", FALSE, "new")
    BY Zenon DEF Agree
  <2> QED
    BY <1>2, <2>1, <2>2, <2>3, OnePageKeeps, Zenon DEF States, Prots
<1> QED
  BY <1>4, <1>5, Zenon

\* Giving a page a blob.
LEMMA ShadowKeeps ==
  ASSUME CapInv, Sized, NEW p \in Live, Shadow(p)
  PROVE  CapInv'
<1>1. p \in Pages
  BY DEF Live, Pages, Sized
<1>2. /\ UNCHANGED <<lock, slots, pc, page, range, store, others, estimate>>
      /\ lock[p] = None /\ state[p] \in {"ACTIVE", "ACTIVE_MONITORING"}
      /\ state' = [state EXCEPT ![p] = "COMPRESSED_SHADOW"]
      /\ blob' = [blob EXCEPT ![p] = TRUE] /\ mem' = [mem EXCEPT ![p] = "blob"]
      /\ prot' = (IF Fits(With(p, "rw")) THEN With(p, "rw") ELSE prot)
  BY Zenon DEF Shadow, capVars, threadVars
<1>3. prot[p] \in Prots /\ prot[p] # "none"
  BY <1>1, <1>2, Zenon DEF CapInv, PageInv, Typed, Agree
<1>4. PICK pr \in Prots : pr # "none" /\ prot' = [prot EXCEPT ![p] = pr]
  <2>1. prot = [prot EXCEPT ![p] = prot[p]]
    BY <1>1, Zenon DEF CapInv, Typed
  <2> QED
    BY <1>2, <1>3, <2>1, Zenon DEF With, Prots
<1>5. Agree("COMPRESSED_SHADOW", pr, TRUE, "blob")
  BY <1>4, Zenon DEF Agree
<1> QED
  BY <1>2, <1>4, <1>5, OnePageKeeps, Zenon DEF States
\* Monitoring a run.
LEMMA MonitorKeeps ==
  ASSUME CapInv, Sized, NEW p \in Live, NEW q \in p..Committed - 1, Monitor(p, q)
  PROVE  CapInv'
<1>1. p..q \subseteq Live /\ Live \subseteq Pages
  BY DEF Live, Pages, Sized
<1>2. /\ UNCHANGED <<lock, slots, pc, page, range, store, others, estimate, blob, mem>>
      /\ \A k \in p..q : state[k] = "ACTIVE" /\ lock[k] = None
  BY Zenon DEF Monitor, capVars, threadVars
<1>3. \/ UNCHANGED <<prot, state>>
      \/ /\ prot' = [k \in Pages |-> IF k \in p..q THEN "read" ELSE prot[k]]
         /\ state' = [k \in Pages |->
                        IF k \in p..q THEN "ACTIVE_MONITORING" ELSE state[k]]
  BY Zenon DEF Monitor
<1>4. Typed'
  BY <1>2, <1>3, ZenonT(40) DEF CapInv, Typed, States, Prots
<1>5. ASSUME NEW k \in Pages
      PROVE  \/ state'[k] = state[k] /\ prot'[k] = prot[k]
             \/ /\ k \in p..q /\ state[k] = "ACTIVE" /\ lock[k] = None
                /\ state'[k] = "ACTIVE_MONITORING" /\ prot'[k] = "read"
  BY <1>2, <1>3, Zenon
<1>6. \A k \in Pages : lock[k] # None \/ k \notin Live =>
        state'[k] = state[k] /\ prot'[k] = prot[k]
  BY <1>1, <1>5, Zenon
<1>7. ASSUME NEW k \in Live PROVE Agree(state'[k], prot'[k], blob'[k], mem'[k])
  <2>1. Agree(state[k], prot[k], blob[k], mem[k]) /\ k \in Pages
    BY <1>1, Zenon DEF CapInv, PageInv
  <2> QED
    BY <1>2, <1>5, <2>1 DEF Agree
<1>8. ASSUME NEW k \in Live, lock[k] = None, state'[k] = "COMPRESSED"
      PROVE  prot'[k] = "none"
  BY <1>1, <1>5, <1>8, UnlockedCompressed, Zenon
<1> QED
  BY <1>2, <1>4, <1>6, <1>7, <1>8, CompressorKeeps, Zenon

-----------------------------------------------------------------------------
(* The threads of the application and the fault handler.                   *)

\* What the invariant says of a thread.
LEMMA ThreadFacts ==
  ASSUME CapInv, Sized, NEW t \in Threads
  PROVE  /\ t # None /\ Live \subseteq Pages /\ ThreadSound(t)
         /\ page[t] \in Pages /\ range[t] \subseteq Pages /\ pc[t] \in Places
         /\ pc[t] # "idle" => page[t] \in Live
BY SMT, SMTT(30) DEF CapInv, ThreadInv, ThreadSound, Typed, Sized, Live, Pages

\* A step of thread t from outside the handler to outside it that leaves locks,
\* states and protections alone.
LEMMA OutsideKeeps ==
  ASSUME CapInv, Sized, NEW t \in Threads, Typed', PageInv',
         UNCHANGED <<lock, state, prot, slots, range>>,
         \A u \in Threads \ {t} : pc'[u] = pc[u] /\ page'[u] = page[u],
         pc[t] \notin Inside, pc'[t] \notin Inside,
         pc'[t] # "idle" => page'[t] \in Live
  PROVE  CapInv'
<1>1. /\ t # None /\ ThreadSound(t)
  BY ThreadFacts, Zenon
<1>2. Ranged \subseteq Inside /\ Opening \subseteq Inside /\ Served \subseteq Inside
  BY Zenon DEF Ranged, Opening, Served, Inside
<1>3. ThreadSound(t)'
  BY <1>1, <1>2, Zenon DEF ThreadSound, Inside
<1>4. t \notin Holders /\ t \notin Holders'
  BY <1>2, Zenon DEF Holders
<1>5. \A p \in Live : lock[p] \in {t, None} =>
        (state'[p] = "COMPRESSED" /\ prot'[p] # "none" =>
           lock'[p] = t /\ pc'[t] \in Opening)
  <2> SUFFICES ASSUME NEW p \in Live, lock[p] \in {t, None}, state'[p] = "COMPRESSED",
                      prot'[p] # "none"
               PROVE  lock'[p] = t /\ pc'[t] \in Opening
    OBVIOUS
  <2>1. lock[p] = t /\ pc[t] \in Opening
    BY <1>1, Zenon DEF CapInv, OpenInv, Sized
  <2> QED
    BY <1>2, <2>1, Zenon
<1> HIDE DEF Holders
<1> QED
  BY <1>3, <1>4, <1>5, ThreadKeeps, Zenon

\* An access begins.
LEMMA StartKeeps ==
  ASSUME CapInv, Sized, NEW t \in Threads, NEW p \in Live, Start(t, p)
  PROVE  CapInv'
<1>1. p \in Pages
  BY DEF Live, Pages, Sized
<1>2. /\ UNCHANGED <<prot, state, blob, lock, mem, estimate, others, slots, range>>
      /\ pc[t] = "idle" /\ pc' = [pc EXCEPT ![t] = "access"]
      /\ page' = [page EXCEPT ![t] = p]
      /\ \E s \in BOOLEAN : store' = [store EXCEPT ![t] = s]
  BY Zenon DEF Start, Goto, pageVars, capVars
<1>3. Typed'
  BY <1>1, <1>2, Zenon DEF CapInv, Typed, Places
<1>4. PageInv'
  BY <1>2, Zenon DEF CapInv, PageInv
<1>5. /\ pc'[t] = "access" /\ page'[t] = p
      /\ \A u \in Threads \ {t} : pc'[u] = pc[u] /\ page'[u] = page[u]
  BY <1>2, Zenon DEF CapInv, Typed
<1>6. pc[t] \notin Inside /\ pc'[t] \notin Inside
  BY <1>2, <1>5, Zenon DEF Inside
<1> QED
  BY <1>2, <1>3, <1>4, <1>5, <1>6, OutsideKeeps, Zenon

\* An access is executed or faults.
LEMMA AccessKeeps ==
  ASSUME CapInv, Sized, NEW t \in Threads, Access(t)
  PROVE  CapInv'
<1>1. /\ page[t] \in Live /\ page[t] \in Pages /\ Live \subseteq Pages
      /\ 0 \in Pages
  BY ThreadFacts DEF Access, Pages, Sized
<1>2. /\ UNCHANGED <<prot, state, blob, lock, estimate, others, slots, range>>
      /\ pc[t] = "access"
      /\ \/ /\ pc' = [pc EXCEPT ![t] = "idle"] /\ Permitted(t)
            /\ mem' = (IF store[t] THEN [mem EXCEPT ![page[t]] = "new"] ELSE mem)
            /\ page' = [page EXCEPT ![t] = 0] /\ store' = [store EXCEPT ![t] = FALSE]
         \/ pc' = [pc EXCEPT ![t] = "fault"] /\ UNCHANGED <<mem, page, store>>
  BY Zenon DEF Access, Goto, capVars
<1>3. Typed'
  <2>1. pc \in [Threads -> Places] /\ page \in [Threads -> Pages]
    BY Zenon DEF CapInv, Typed
  <2>2. pc' \in [Threads -> Places] /\ page' \in [Threads -> Pages]
    BY <1>1, <1>2, <2>1, Zenon DEF Places
  <2>3. /\ mem' \in [Pages -> {"gone", "blob", "new"}]
        /\ store' \in [Threads -> BOOLEAN]
    <3>1. mem \in [Pages -> {"gone", "blob", "new"}] /\ store \in [Threads -> BOOLEAN]
      BY Zenon DEF CapInv, Typed
    <3> QED
      BY <1>1, <1>2, <3>1, Zenon
  <2> QED
    BY <1>2, <2>2, <2>3, Zenon DEF CapInv, Typed
<1>4. ASSUME NEW p \in Live PROVE Agree(state[p], prot[p], blob[p], mem'[p])
  <2>1. Agree(state[p], prot[p], blob[p], mem[p])
    BY Zenon DEF CapInv, PageInv
  <2>2. mem'[p] = mem[p] \/ (mem'[p] = "new" /\ prot[p] # "none")
    <3>1. mem \in [Pages -> {"gone", "blob", "new"}] /\ p \in Pages
      BY <1>1, Zenon DEF CapInv, Typed
    <3>2. Permitted(t) => prot[page[t]] # "none"
      BY Zenon DEF Permitted
    <3> QED
      BY <1>2, <3>1, <3>2, Zenon
  <2> QED
    BY <2>1, <2>2, Zenon DEF Agree
<1>5. PageInv'
  BY <1>2, <1>4, Zenon DEF CapInv, PageInv
<1>6. /\ pc'[t] = "idle" \/ (pc'[t] = "fault" /\ page'[t] = page[t])
      /\ \A u \in Threads \ {t} : pc'[u] = pc[u] /\ page'[u] = page[u]
  BY <1>2, Zenon DEF CapInv, Typed
<1>7. pc[t] \notin Inside /\ pc'[t] \notin Inside
  BY <1>2, <1>6, Zenon DEF Inside
<1> QED
  BY <1>1, <1>2, <1>3, <1>5, <1>6, <1>7, OutsideKeeps, ZenonT(40)
\* A COMPRESSED page that thread t has locked, or nobody, is closed, unless t is
\* about to finalize it.
LEMMA OpenFacts ==
  ASSUME CapInv, Sized, NEW t \in Threads, NEW p \in Live, lock[p] \in {t, None},
         state[p] = "COMPRESSED", prot[p] # "none"
  PROVE  lock[p] = t /\ pc[t] \in Opening
BY Zenon DEF CapInv, OpenInv, Sized

\* A fault on a shadow.
LEMMA LockShadowKeeps ==
  ASSUME CapInv, Sized, NEW t \in Threads, LockPage(t),
         state[page[t]] = "COMPRESSED_SHADOW"
  PROVE  CapInv'
<1> DEFINE p == page[t]
<1>1. /\ t # None /\ Live \subseteq Pages /\ ThreadSound(t) /\ p \in Pages /\ p \in Live
      /\ pc[t] = "fault" /\ lock[p] = None
  BY ThreadFacts, Zenon DEF LockPage
<1>2. /\ UNCHANGED <<lock, estimate, others, slots, page, store, range>>
      /\ pc' = [pc EXCEPT ![t] = "access"]
      /\ state' = [state EXCEPT ![p] = "ACTIVE"]
      /\ blob' = [blob EXCEPT ![p] = FALSE] /\ mem' = [mem EXCEPT ![p] = "new"]
      /\ prot' = (IF Fits(With(p, "rw")) THEN With(p, "rw") ELSE prot)
  BY Zenon DEF LockPage, Goto, capVars
<1>3. prot[p] \in Prots /\ prot[p] # "none"
  BY <1>1, Zenon DEF CapInv, PageInv, Typed, Agree
<1>4. PICK pr \in Prots : pr # "none" /\ prot' = [prot EXCEPT ![p] = pr]
  <2>1. prot = [prot EXCEPT ![p] = prot[p]]
    BY <1>1, Zenon DEF CapInv, Typed
  <2> QED
    BY <1>2, <1>3, <2>1, Zenon DEF With, Prots
<1>5. Typed'
  BY <1>1, <1>2, <1>4 DEF CapInv, Typed, States, Places
<1>6. /\ state'[p] = "ACTIVE" /\ prot'[p] = pr /\ blob'[p] = FALSE /\ mem'[p] = "new"
      /\ \A q \in Pages \ {p} : /\ state'[q] = state[q] /\ prot'[q] = prot[q]
                                /\ blob'[q] = blob[q] /\ mem'[q] = mem[q]
      /\ pc'[t] = "access" /\ \A u \in Threads \ {t} : pc'[u] = pc[u]
  BY <1>1, <1>2, <1>4, ZenonT(40) DEF CapInv, Typed
<1>7. PageInv'
  <2>1. ASSUME NEW q \in Live PROVE Agree(state'[q], prot'[q], blob'[q], mem'[q])
    <3>1. CASE q = p
      BY <1>4, <1>6, <3>1, Zenon DEF Agree
    <3>2. CASE q # p
      BY <1>1, <1>6, <3>2, Zenon DEF CapInv, PageInv
    <3> QED
      BY <3>1, <3>2, Zenon
  <2>2. \A q \in Pages \ Live : state'[q] = "EMPTY"
    BY <1>1, <1>6, Zenon DEF CapInv, PageInv
  <2> QED
    BY <2>1, <2>2, Zenon DEF PageInv
<1>8. ThreadSound(t)'
  BY <1>1, <1>2, <1>6, Zenon DEF ThreadSound, Inside, Ranged, Opening
<1>9. t \notin Holders /\ t \notin Holders'
  BY <1>1, <1>6, Zenon DEF Holders, Served, Inside
<1>10. ASSUME NEW q \in Live, lock[q] \in {t, None}, state'[q] = "COMPRESSED",
              prot'[q] # "none"
       PROVE  FALSE
  <2>1. state[q] = "COMPRESSED" /\ prot[q] # "none"
    BY <1>1, <1>6, <1>10, Zenon
  <2>2. pc[t] \in Opening
    BY <1>10, <2>1, OpenFacts, Zenon
  <2> QED
    BY <1>1, <2>2, Zenon DEF Opening
<1>11. \A q \in Pages : lock[q] \notin {t, None} =>
         lock'[q] = lock[q] /\ state'[q] = state[q] /\ prot'[q] = prot[q]
  BY <1>1, <1>2, <1>6, Zenon
<1> HIDE DEF p, Holders
<1> QED
  BY <1>2, <1>5, <1>6, <1>7, <1>8, <1>9, <1>10, <1>11, ThreadKeeps, ZenonT(40)

\* A step of thread t that changes locks and places only: where it goes to, it
\* has the locks it needs, and it neither takes nor returns a fault slot.
LEMMA LocksKeep ==
  ASSUME CapInv, Sized, NEW t \in Threads,
         UNCHANGED <<state, prot, blob, mem, estimate, others, page, store, slots>>,
         NEW place \in Places, pc' = [pc EXCEPT ![t] = place],
         lock' \in [Pages -> Threads \cup {None}],
         range' \in [Threads -> SUBSET Pages],
         \A u \in Threads \ {t} : range'[u] = range[u],
         \A p \in Pages : lock[p] \notin {t, None} => lock'[p] = lock[p],
         \A p \in Pages : lock[p] \in {t, None} => lock'[p] \in {t, None},
         ThreadSound(t)', pc[t] \notin Opening,
         state[page[t]] = "COMPRESSED" => (place \in Served <=> pc[t] \in Served)
  PROVE  CapInv'
<1>1. Typed'
  BY Zenon DEF CapInv, Typed
<1>2. PageInv'
  BY Zenon DEF CapInv, PageInv
<1>3. pc'[t] = place /\ \A u \in Threads \ {t} : pc'[u] = pc[u]
  BY Zenon DEF CapInv, Typed
<1>4. t \in Holders' <=> t \in Holders
  BY <1>3, Zenon DEF Holders
<1>5. ASSUME NEW q \in Live, lock[q] \in {t, None}, state'[q] = "COMPRESSED",
             prot'[q] # "none"
      PROVE  FALSE
  BY <1>5, OpenFacts, Zenon
<1> HIDE DEF Holders
<1> QED
  BY <1>1, <1>2, <1>3, <1>4, <1>5, ThreadKeeps, Zenon

\* A fault takes the lock of its page.
LEMMA LockPageKeeps ==
  ASSUME CapInv, Sized, NEW t \in Threads, LockPage(t)
  PROVE  CapInv'
<1> DEFINE p == page[t]
           place == IF state[p] = "COMPRESSED" THEN "slot" ELSE "near"
<1>1. /\ t # None /\ ThreadSound(t) /\ p \in Pages /\ p \in Live
      /\ pc[t] = "fault" /\ lock[p] = None
  BY ThreadFacts, Zenon DEF LockPage
<1>2. CASE state[p] = "COMPRESSED_SHADOW"
  BY <1>2, LockShadowKeeps, Zenon
<1>3. CASE state[p] # "COMPRESSED_SHADOW"
  <2>1. /\ UNCHANGED <<state, prot, blob, mem, estimate, others, page, store, slots>>
        /\ UNCHANGED range
        /\ pc' = [pc EXCEPT ![t] = place] /\ lock' = [lock EXCEPT ![p] = t]
    BY <1>3, Zenon DEF LockPage, Goto, capVars
  <2>2. /\ place \in Places /\ place \in {"slot", "near"}
        /\ place = "slot" => state[p] = "COMPRESSED"
        /\ state[p] = "COMPRESSED" => place = "slot"
    BY Zenon DEF Places
  <2> HIDE DEF place
  <2>3. /\ lock' \in [Pages -> Threads \cup {None}] /\ lock'[p] = t /\ pc'[t] = place
        /\ \A q \in Pages \ {p} : lock'[q] = lock[q]
        /\ range' \in [Threads -> SUBSET Pages]
    BY <1>1, <2>1, Zenon DEF CapInv, Typed
  <2>4. \A q \in Pages : lock[q] # t
    BY <1>1, Zenon DEF ThreadSound, Inside
  <2>5. ThreadSound(t)'
    BY <1>1, <2>1, <2>2, <2>3, <2>4, Zenon DEF ThreadSound, Inside, Ranged, Opening
  <2>6. /\ pc[t] \notin Opening /\ pc[t] \notin Served
        /\ state[p] = "COMPRESSED" => place \notin Served
    BY <1>1, <2>2, Zenon DEF Opening, Served, Inside
  <2>7. /\ \A q \in Pages : lock[q] \notin {t, None} => lock'[q] = lock[q]
        /\ \A q \in Pages : lock[q] \in {t, None} => lock'[q] \in {t, None}
    BY <1>1, <2>3, Zenon
  <2> QED
    BY <2>1, <2>2, <2>3, <2>5, <2>6, <2>7, LocksKeep, ZenonT(40)
<1> QED
  BY <1>2, <1>3, Zenon
\* A fault gets a slot to decompress into.
LEMMA AcquireSlotKeeps ==
  ASSUME CapInv, Sized, NEW t \in Threads, AcquireSlot(t)
  PROVE  CapInv'
<1>1. t # None /\ ThreadSound(t) /\ pc[t] = "slot" /\ state[page[t]] = "COMPRESSED"
  BY ThreadFacts, Zenon DEF AcquireSlot, ThreadSound
<1>2. /\ UNCHANGED <<state, prot, blob, mem, lock, estimate, others, page, store, range>>
      /\ pc' = [pc EXCEPT ![t] = "near"] /\ slots' = slots - 1
  BY Zenon DEF AcquireSlot, Goto, pageVars, capVars
<1>3. Typed'
  BY <1>2 DEF CapInv, Typed, Places
<1>4. PageInv'
  BY <1>2, Zenon DEF CapInv, PageInv
<1>5. pc'[t] = "near" /\ \A u \in Threads \ {t} : pc'[u] = pc[u]
  BY <1>2, Zenon DEF CapInv, Typed
<1>6. ThreadSound(t)'
  BY <1>1, <1>2, <1>5, Zenon DEF ThreadSound, Inside, Ranged, Opening
<1>7. t \notin Holders /\ t \in Holders'
  BY <1>1, <1>2, <1>5, Zenon DEF Holders, Served, Inside
<1>8. ASSUME NEW q \in Live, lock[q] \in {t, None}, state'[q] = "COMPRESSED",
             prot'[q] # "none"
      PROVE  FALSE
  BY <1>1, <1>2, <1>8, OpenFacts, Zenon DEF Opening
<1> HIDE DEF Holders
<1> QED
  BY <1>2, <1>3, <1>4, <1>5, <1>6, <1>7, <1>8, ThreadKeeps, ZenonT(40)

\* A fault that has its page moves on with no other lock.
LEMMA MoveKeeps ==
  ASSUME CapInv, Sized, NEW t \in Threads, pc[t] \in {"near", "whole"},
         NEW place \in {"single", "giveup"}, Goto(t, place),
         UNCHANGED <<state, prot, blob, mem, lock, estimate, others, page, store, slots,
                     range>>
  PROVE  CapInv'
<1>1. ThreadSound(t)
  BY ThreadFacts, Zenon
<1>2. pc' = [pc EXCEPT ![t] = place] /\ place \in Places
  BY Zenon DEF Goto, Places
<1>3. pc'[t] = place
  BY <1>2, Zenon DEF CapInv, Typed
<1>4. ThreadSound(t)'
  BY <1>1, <1>3, Zenon DEF ThreadSound, Inside, Ranged, Opening
<1>5. pc[t] \notin Opening /\ pc[t] \in Served /\ place \in Served
  BY Zenon DEF Opening, Served, Inside
<1>6. /\ lock' \in [Pages -> Threads \cup {None}] /\ range' \in [Threads -> SUBSET Pages]
  BY Zenon DEF CapInv, Typed
<1> QED
  BY <1>2, <1>4, <1>5, <1>6, LocksKeep, Zenon

\* A fault takes the locks of the pages around its own.
LEMMA LockAllKeeps ==
  ASSUME CapInv, Sized, NEW t \in Threads, pc[t] \in {"near", "whole"},
         NEW place \in {"nearRange", "wholeRange"}, Goto(t, place),
         NEW S \in SUBSET Live, page[t] \in S, Lockable(page[t], S), LockAll(t, S),
         range' = [range EXCEPT ![t] = S],
         UNCHANGED <<state, prot, blob, mem, estimate, others, page, store, slots>>
  PROVE  CapInv'
<1>1. t # None /\ ThreadSound(t) /\ page[t] \in Pages /\ S \subseteq Pages
  BY ThreadFacts, Zenon
<1>2. pc' = [pc EXCEPT ![t] = place] /\ place \in Places
  BY Zenon DEF Goto, Places
<1>3. /\ pc'[t] = place /\ range'[t] = S /\ range' \in [Threads -> SUBSET Pages]
      /\ \A u \in Threads \ {t} : range'[u] = range[u]
  BY <1>1, <1>2, Zenon DEF CapInv, Typed
<1>4. /\ lock' \in [Pages -> Threads \cup {None}]
      /\ \A q \in Pages : lock'[q] = IF q \in S THEN t ELSE lock[q]
  BY Zenon DEF LockAll, CapInv, Typed
<1>5. lock[page[t]] = t /\ \A q \in Pages : lock[q] = t => q = page[t]
  BY <1>1, Zenon DEF ThreadSound, Inside, Ranged
<1>6. \A q \in S \ {page[t]} : lock[q] = None
  BY Zenon DEF Lockable
<1>7. ThreadSound(t)'
  BY <1>1, <1>3, <1>4, <1>5, Zenon DEF ThreadSound, Inside, Ranged, Opening
<1>8. pc[t] \notin Opening /\ pc[t] \in Served /\ place \in Served
  BY Zenon DEF Opening, Served, Inside
<1>9. /\ \A q \in Pages : lock[q] \notin {t, None} => lock'[q] = lock[q]
      /\ \A q \in Pages : lock[q] \in {t, None} => lock'[q] \in {t, None}
  BY <1>1, <1>4, <1>5, <1>6, Zenon
<1> QED
  BY <1>2, <1>3, <1>4, <1>7, <1>8, <1>9, LocksKeep, Zenon

\* restoreNearCap chooses a run and locks it.
LEMMA TryNearKeeps ==
  ASSUME CapInv, Sized, NEW t \in Threads, TryNear(t)
  PROVE  CapInv'
<1> DEFINE p == page[t]
           S == IF InaccessibleNeighbors(p) > 0 /\ near THEN NearRange(p) ELSE {}
<1>1. p \in Live /\ pc[t] = "near"
  BY ThreadFacts, Zenon DEF TryNear
<1>2. UNCHANGED <<state, prot, blob, mem, estimate, others, page, store, slots>>
  BY Zenon DEF TryNear, capVars
<1>3. CASE S # {} /\ Lockable(p, S)
  <2>1. LockAll(t, S) /\ range' = [range EXCEPT ![t] = S] /\ Goto(t, "nearRange")
    BY <1>3, Zenon DEF TryNear
  <2>2. p \in S /\ S \in SUBSET Live
    BY <1>1, <1>3, NearRangeLive, Zenon DEF CapInv
  <2> HIDE DEF S
  <2> QED
    BY <1>1, <1>2, <1>3, <2>1, <2>2, LockAllKeeps, Zenon
<1>4. CASE ~(S # {} /\ Lockable(p, S))
  <2>1. Goto(t, "single") /\ UNCHANGED <<lock, range>>
    BY <1>4, Zenon DEF TryNear
  <2> QED
    BY <1>1, <1>2, <2>1, MoveKeeps, Zenon
<1> QED
  BY <1>3, <1>4, Zenon

\* restoreWholeVma locks the mapping.  A page beyond the committed ones is EMPTY
\* and makes it give up.
LEMMA TryWholeKeeps ==
  ASSUME CapInv, Sized, NEW t \in Threads, TryWhole(t)
  PROVE  CapInv'
<1> DEFINE p == page[t]
           S == WholeVma(p)
<1>1. p \in Live /\ p \in Pages /\ pc[t] = "whole"
  BY ThreadFacts, Zenon DEF TryWhole
<1>2. UNCHANGED <<state, prot, blob, mem, estimate, others, page, store, slots>>
  BY Zenon DEF TryWhole, capVars
<1>3. CASE Lockable(p, S)
  <2>1. LockAll(t, S) /\ range' = [range EXCEPT ![t] = S] /\ Goto(t, "wholeRange")
    BY <1>3, Zenon DEF TryWhole
  <2>2. p \in S /\ S \subseteq Pages
    BY <1>1 DEF WholeVma, Pages, Sized
  <2> HIDE DEF S
  <2>3. S \in SUBSET Live
    BY <1>1, <1>3, <2>2, Zenon DEF Lockable, CapInv, PageInv
  <2> QED
    BY <1>1, <1>2, <1>3, <2>1, <2>2, <2>3, LockAllKeeps, Zenon
<1>4. CASE ~Lockable(p, S)
  <2>1. Goto(t, "giveup") /\ UNCHANGED <<lock, range>>
    BY <1>4, Zenon DEF TryWhole
  <2> QED
    BY <1>1, <1>2, <2>1, MoveKeeps, Zenon
<1> QED
  BY <1>3, <1>4, Zenon
\* The restore of one page.
LEMMA TrySingleKeeps ==
  ASSUME CapInv, Sized, NEW t \in Threads, TrySingle(t)
  PROVE  CapInv'
<1> DEFINE p == page[t]
           n == InaccessibleNeighbors(p)
<1>1. /\ t # None /\ ThreadSound(t) /\ p \in Pages /\ p \in Live /\ Live \subseteq Pages
      /\ pc[t] = "single"
  BY ThreadFacts, Zenon DEF TrySingle
<1>2. /\ UNCHANGED <<state, blob, lock, others, slots, page, store, range>>
      /\ mem' = (IF state[p] = "COMPRESSED" THEN [mem EXCEPT ![p] = "blob"] ELSE mem)
      /\ \/ /\ prot' = [prot EXCEPT ![p] = "rw"] /\ pc' = [pc EXCEPT ![t] = "done"]
            /\ estimate' = (IF estimate > 0 THEN Min({Cap, estimate + n}) ELSE estimate)
         \/ pc' = [pc EXCEPT ![t] = "whole"] /\ UNCHANGED <<prot, estimate>>
  BY Zenon DEF TrySingle, Goto, With
<1>3. estimate' \in Int
  <2>1. n \in Nat /\ estimate \in Int /\ Cap \in Nat
    BY <1>1, NeighborsType, Zenon DEF CapInv, Typed, Sized
  <2> HIDE DEF n
  <2>2. estimate > 0 => Min({Cap, estimate + n}) \in {Cap, estimate + n}
    BY <2>1, MinMember
  <2> QED
    BY <1>2, <2>1, <2>2
<1>4. Typed'
  <2>1. pc \in [Threads -> Places] /\ prot \in [Pages -> Prots]
    BY Zenon DEF CapInv, Typed
  <2>2. pc' \in [Threads -> Places] /\ prot' \in [Pages -> Prots]
    BY <1>2, <2>1, Zenon DEF Places, Prots
  <2>3. mem' \in [Pages -> {"gone", "blob", "new"}]
    BY <1>2, Zenon DEF CapInv, Typed
  <2> QED
    BY <1>2, <1>3, <2>2, <2>3, Zenon DEF CapInv, Typed
<1>5. /\ \A q \in Pages \ {p} : prot'[q] = prot[q] /\ mem'[q] = mem[q]
      /\ mem'[p] = IF state[p] = "COMPRESSED" THEN "blob" ELSE mem[p]
      /\ \A u \in Threads \ {t} : pc'[u] = pc[u]
      /\ \/ prot'[p] = "rw" /\ pc'[t] = "done"
         \/ prot'[p] = prot[p] /\ pc'[t] = "whole"
  <2>1. /\ pc \in [Threads -> Places] /\ prot \in [Pages -> Prots]
        /\ mem \in [Pages -> {"gone", "blob", "new"}]
    BY Zenon DEF CapInv, Typed
  <2> QED
    BY <1>1, <1>2, <2>1, Zenon
<1>6. ASSUME NEW q \in Live PROVE Agree(state'[q], prot'[q], blob'[q], mem'[q])
  <2>1. Agree(state[q], prot[q], blob[q], mem[q])
    BY Zenon DEF CapInv, PageInv
  <2>2. CASE q # p
    BY <1>1, <1>2, <1>5, <2>1, <2>2, ZenonT(40)
  <2>3. CASE q = p
    BY <1>2, <1>5, <2>1, <2>3 DEF Agree
  <2> QED
    BY <2>2, <2>3, Zenon
<1>7. PageInv'
  BY <1>2, <1>6, Zenon DEF CapInv, PageInv
<1>8. lock[p] = t
  BY <1>1, Zenon DEF ThreadSound, Inside
<1>9. ThreadSound(t)'
  BY <1>1, <1>2, <1>5, Zenon DEF ThreadSound, Inside, Ranged, Opening
<1>10. t \in Holders' <=> t \in Holders
  BY <1>1, <1>2, <1>5, Zenon DEF Holders, Served, Inside
<1>11. ASSUME NEW q \in Live, lock[q] \in {t, None}, state'[q] = "COMPRESSED",
              prot'[q] # "none"
       PROVE  lock'[q] = t /\ pc'[t] \in Opening
  <2>1. prot[q] = "none"
    BY <1>1, <1>2, <1>11, OpenFacts, ZenonT(40) DEF Opening
  <2>2. q = p /\ pc'[t] = "done"
    BY <1>1, <1>5, <1>11, <2>1, ZenonT(40)
  <2> QED
    BY <1>2, <1>8, <2>2, Zenon DEF Opening
<1>12. \A q \in Pages : lock[q] \notin {t, None} =>
         lock'[q] = lock[q] /\ state'[q] = state[q] /\ prot'[q] = prot[q]
  BY <1>2, <1>5, <1>8, Zenon
<1> HIDE DEF p, n, Holders
<1> QED
  BY <1>2, <1>4, <1>5, <1>7, <1>9, <1>10, <1>11, <1>12, ThreadKeeps, Zenon

\* What a thread has locked when it has locked a range.
LEMMA RangeFacts ==
  ASSUME CapInv, Sized, NEW t \in Threads, pc[t] \in Ranged
  PROVE  /\ page[t] \in range[t] /\ range[t] \subseteq Live /\ range[t] \subseteq Pages
         /\ \A q \in Pages : lock[q] = t <=> q \in range[t]
<1>1. ThreadSound(t) /\ range[t] \subseteq Pages
  BY ThreadFacts, Zenon
<1> QED
  BY <1>1, Zenon DEF ThreadSound

\* restoreRange fills the pages and opens them, or unlocks them again.
LEMMA RestoreRangeKeeps ==
  ASSUME CapInv, Sized, NEW t \in Threads, RestoreRange(t)
  PROVE  CapInv'
<1> DEFINE S == range[t]
<1>1. /\ t # None /\ ThreadSound(t) /\ page[t] \in Pages /\ Live \subseteq Pages
      /\ pc[t] \in {"nearRange", "wholeRange"}
  BY ThreadFacts, Zenon DEF RestoreRange
<1>2. /\ page[t] \in S /\ S \subseteq Live /\ S \subseteq Pages
      /\ \A q \in Pages : lock[q] = t <=> q \in S
  BY <1>1, RangeFacts, Zenon DEF Ranged
<1>3. UNCHANGED <<state, blob, estimate, others, slots, page, store>>
  BY Zenon DEF RestoreRange, capVars
<1>4. PICK ok \in BOOLEAN :
        /\ mem' = [q \in Pages |-> IF ok /\ q \in {k \in S : state[k] = "COMPRESSED"}
                                     THEN "blob" ELSE mem[q]]
        /\ \/ ok /\ prot' = Opened(S) /\ Goto(t, "finish") /\ UNCHANGED <<lock, range>>
           \/ /\ lock' = [q \in Pages |-> IF q \in S \ {page[t]} THEN None ELSE lock[q]]
              /\ range' = [range EXCEPT ![t] = {}]
              /\ Goto(t, "single") \/ Goto(t, "giveup")
              /\ UNCHANGED prot
  <2> DEFINE able == \/ {q \in S : state[q] = "COMPRESSED"} \subseteq {page[t]}
                     \/ slots > 0
  <2>1. /\ mem' = [q \in Pages |-> IF able /\ q \in {k \in S : state[k] = "COMPRESSED"}
                                     THEN "blob" ELSE mem[q]]
        /\ IF able /\ Fits(Opened(S))
             THEN prot' = Opened(S) /\ Goto(t, "finish") /\ UNCHANGED <<lock, range>>
             ELSE /\ lock' = [q \in Pages |-> IF q \in S \ {page[t]} THEN None ELSE lock[q]]
                  /\ range' = [range EXCEPT ![t] = {}]
                  /\ Goto(t, IF pc[t] = "nearRange" THEN "single" ELSE "giveup")
                  /\ UNCHANGED prot
    BY Zenon DEF RestoreRange
  <2>2. able \in BOOLEAN
    OBVIOUS
  <2> HIDE DEF able, S
  <2> QED
    BY <2>1, <2>2, Zenon
<1>5. /\ mem' \in [Pages -> {"gone", "blob", "new"}]
      /\ \A q \in Pages : mem'[q] = mem[q] \/ (mem'[q] = "blob" /\ state[q] = "COMPRESSED")
      /\ ok => \A q \in S : state[q] = "COMPRESSED" => mem'[q] = "blob"
  <2>1. mem \in [Pages -> {"gone", "blob", "new"}]
    BY Zenon DEF CapInv, Typed
  <2> QED
    BY <1>2, <1>4, <2>1, Zenon
<1>6. /\ pc \in [Threads -> Places] /\ prot \in [Pages -> Prots]
      /\ lock \in [Pages -> Threads \cup {None}] /\ range \in [Threads -> SUBSET Pages]
  BY Zenon DEF CapInv, Typed
<1> HIDE DEF S
<1>7. CASE ok /\ prot' = Opened(S) /\ Goto(t, "finish") /\ UNCHANGED <<lock, range>>
  <2>1. /\ pc' \in [Threads -> Places] /\ pc'[t] = "finish"
        /\ \A u \in Threads \ {t} : pc'[u] = pc[u]
    BY <1>6, <1>7, Zenon DEF Goto, Places
  <2>2. /\ prot' \in [Pages -> Prots] /\ \A q \in S : prot'[q] = "rw"
        /\ \A q \in Pages \ S : prot'[q] = prot[q]
    BY <1>2, <1>6, <1>7, Zenon DEF Opened, Prots
  <2>3. Typed'
    BY <1>3, <1>5, <1>7, <2>1, <2>2, ZenonT(40) DEF CapInv, Typed
  <2>4. ASSUME NEW q \in Live PROVE Agree(state'[q], prot'[q], blob'[q], mem'[q])
    <3>1. Agree(state[q], prot[q], blob[q], mem[q]) /\ q \in Pages
      BY <1>1, Zenon DEF CapInv, PageInv
    <3>2. CASE q \in S
      <4>1. mem'[q] # "gone"
        BY <1>5, <1>7, <3>1, <3>2, Zenon DEF Agree
      <4> QED
        BY <1>3, <2>2, <3>1, <3>2, <4>1, ZenonT(40) DEF Agree
    <3>3. CASE q \notin S
      BY <1>3, <1>5, <2>2, <3>1, <3>3, ZenonT(40) DEF Agree
    <3> QED
      BY <3>2, <3>3, Zenon
  <2>5. PageInv'
    BY <1>3, <2>4, Zenon DEF CapInv, PageInv
  <2>6. ThreadSound(t)'
    BY <1>1, <1>2, <1>3, <1>7, <2>1, <2>2, ZenonT(40) DEF ThreadSound, Inside, Ranged, Opening, S
  <2>7. t \in Holders' <=> t \in Holders
    BY <1>1, <1>3, <2>1, Zenon DEF Holders, Served, Inside
  <2>8. ASSUME NEW q \in Live, lock[q] \in {t, None}, state'[q] = "COMPRESSED",
               prot'[q] # "none"
        PROVE  lock'[q] = t /\ pc'[t] \in Opening
    <3>1. q \in S
      BY <1>1, <1>3, <2>2, <2>8, OpenFacts, ZenonT(40) DEF Opening
    <3> QED
      BY <1>1, <1>2, <1>7, <2>1, <3>1, ZenonT(40) DEF Opening
  <2>9. \A q \in Pages : lock[q] \notin {t, None} =>
          lock'[q] = lock[q] /\ state'[q] = state[q] /\ prot'[q] = prot[q]
    BY <1>2, <1>3, <1>7, <2>2, ZenonT(40)
  <2> HIDE DEF Holders
  <2> QED
    BY <1>3, <1>7, <2>1, <2>3, <2>5, <2>6, <2>7, <2>8, <2>9, ThreadKeeps, ZenonT(40)
<1>8. ASSUME lock' = [q \in Pages |-> IF q \in S \ {page[t]} THEN None ELSE lock[q]],
             range' = [range EXCEPT ![t] = {}], UNCHANGED prot,
             NEW place \in {"single", "giveup"}, Goto(t, place)
      PROVE  CapInv'
  <2>1. /\ pc' \in [Threads -> Places] /\ pc'[t] = place
        /\ \A u \in Threads \ {t} : pc'[u] = pc[u]
    BY <1>6, <1>8, Zenon DEF Goto, Places
  <2>2. /\ lock' \in [Pages -> Threads \cup {None}]
        /\ \A q \in S \ {page[t]} : lock'[q] = None
        /\ \A q \in Pages \ (S \ {page[t]}) : lock'[q] = lock[q]
    BY <1>2, <1>6, <1>8, Zenon
  <2>3. /\ range' \in [Threads -> SUBSET Pages] /\ range'[t] = {}
        /\ \A u \in Threads \ {t} : range'[u] = range[u]
    BY <1>6, <1>8, Zenon
  <2>4. Typed'
    BY <1>3, <1>5, <1>8, <2>1, <2>2, <2>3, ZenonT(40) DEF CapInv, Typed
  <2>5. ASSUME NEW q \in Live PROVE Agree(state'[q], prot'[q], blob'[q], mem'[q])
    <3>1. Agree(state[q], prot[q], blob[q], mem[q]) /\ q \in Pages
      BY <1>1, Zenon DEF CapInv, PageInv
    <3> QED
      BY <1>3, <1>5, <1>8, <3>1, ZenonT(40) DEF Agree
  <2>6. PageInv'
    BY <1>3, <2>5, Zenon DEF CapInv, PageInv
  <2>7. \A q \in Pages : lock'[q] = t <=> q = page[t]
    BY <1>1, <1>2, <2>2, Zenon
  <2>8. ThreadSound(t)'
    BY <1>1, <1>3, <1>8, <2>1, <2>3, <2>7, ZenonT(40) DEF ThreadSound, Inside, Ranged, Opening
  <2>9. t \in Holders' <=> t \in Holders
    BY <1>1, <1>3, <2>1, Zenon DEF Holders, Served, Inside
  <2>10. ASSUME NEW q \in Live, lock[q] \in {t, None}, state'[q] = "COMPRESSED",
                prot'[q] # "none"
         PROVE  FALSE
    BY <1>1, <1>3, <1>8, <2>10, OpenFacts, ZenonT(40) DEF Opening
  <2>11. \A q \in Pages : lock[q] \notin {t, None} =>
           lock'[q] = lock[q] /\ state'[q] = state[q] /\ prot'[q] = prot[q]
    BY <1>2, <1>3, <1>8, <2>2, ZenonT(40)
  <2>12. \A q \in Pages : lock[q] \in {t, None} => lock'[q] \in {t, None}
    BY <2>2, Zenon
  <2> HIDE DEF Holders
  <2> QED
    BY <1>3, <2>1, <2>3, <2>4, <2>6, <2>8, <2>9, <2>10, <2>11, <2>12, ThreadKeeps, ZenonT(40)
<1> QED
  BY <1>4, <1>7, <1>8, Zenon

\* The pages of a range are finalized.
LEMMA FinishRangeKeeps ==
  ASSUME CapInv, Sized, NEW t \in Threads, FinishRange(t)
  PROVE  CapInv'
<1> DEFINE S == range[t] \ {page[t]}
<1>1. /\ t # None /\ ThreadSound(t) /\ page[t] \in Pages /\ Live \subseteq Pages
      /\ pc[t] = "finish"
  BY ThreadFacts, Zenon DEF FinishRange
<1>2. /\ page[t] \in range[t] /\ S \subseteq Live /\ S \subseteq Pages /\ page[t] \notin S
      /\ \A q \in Pages : lock[q] = t <=> q \in S \/ q = page[t]
  BY <1>1, RangeFacts, ZenonT(40) DEF Ranged
<1>3. prot[page[t]] = "rw" /\ \A q \in S : prot[q] = "rw"
  BY <1>1, <1>2, Zenon DEF ThreadSound, Opening
<1>4. /\ UNCHANGED <<prot, estimate, others, slots, page, store>>
      /\ pc' = [pc EXCEPT ![t] = "done"] /\ range' = [range EXCEPT ![t] = {}]
      /\ state' = [q \in Pages |-> IF q \in S THEN "ACTIVE" ELSE state[q]]
      /\ blob' = [q \in Pages |-> blob[q] /\ q \notin S]
      /\ mem' = [q \in Pages |-> IF q \in S THEN "new" ELSE mem[q]]
      /\ lock' = [q \in Pages |-> IF q \in S THEN None ELSE lock[q]]
  BY Zenon DEF FinishRange, Goto, capVars
<1> HIDE DEF S
<1>5. Typed'
  <2>1. /\ state' \in [Pages -> States] /\ mem' \in [Pages -> {"gone", "blob", "new"}]
        /\ lock' \in [Pages -> Threads \cup {None}]
    BY <1>4, Zenon DEF CapInv, Typed, States
  <2>2. blob' \in [Pages -> BOOLEAN]
    BY <1>4, Zenon DEF CapInv, Typed
  <2>3. pc' \in [Threads -> Places] /\ range' \in [Threads -> SUBSET Pages]
    BY <1>4, Zenon DEF CapInv, Typed, Places
  <2> QED
    BY <1>4, <2>1, <2>2, <2>3, Zenon DEF CapInv, Typed
<1>6. /\ \A q \in S : state'[q] = "ACTIVE" /\ mem'[q] = "new" /\ lock'[q] = None
      /\ \A q \in Pages \ S : state'[q] = state[q] /\ mem'[q] = mem[q] /\ lock'[q] = lock[q]
  BY <1>2, <1>4, Zenon
<1>7. /\ \A q \in S : ~blob'[q]
      /\ \A q \in Pages \ S : blob'[q] <=> blob[q]
  BY <1>2, <1>4, Zenon
<1>8. /\ pc'[t] = "done" /\ range'[t] = {}
      /\ \A u \in Threads \ {t} : pc'[u] = pc[u] /\ range'[u] = range[u]
  BY <1>4, Zenon DEF CapInv, Typed
<1>9. ASSUME NEW q \in Live PROVE Agree(state'[q], prot'[q], blob'[q], mem'[q])
  <2>1. Agree(state[q], prot[q], blob[q], mem[q]) /\ q \in Pages
    BY <1>1, Zenon DEF CapInv, PageInv
  <2>2. CASE q \in S
    BY <1>3, <1>4, <1>6, <1>7, <2>2, Zenon DEF Agree
  <2>3. CASE q \notin S
    BY <1>4, <1>6, <1>7, <2>1, <2>3, ZenonT(40) DEF Agree
  <2> QED
    BY <2>2, <2>3, Zenon
<1>10. PageInv'
  <2>1. \A q \in Pages \ Live : state'[q] = "EMPTY"
    BY <1>2, <1>6, Zenon DEF CapInv, PageInv
  <2> QED
    BY <1>9, <2>1, Zenon DEF PageInv
<1>11. \A q \in Pages : lock'[q] = t <=> q = page[t]
  BY <1>1, <1>2, <1>6, ZenonT(40)
<1>12. ThreadSound(t)'
  BY <1>1, <1>3, <1>4, <1>8, <1>11, Zenon DEF ThreadSound, Inside, Ranged, Opening
<1>13. t \in Holders' <=> t \in Holders
  BY <1>1, <1>2, <1>4, <1>6, <1>8, Zenon DEF Holders, Served, Inside
<1>14. ASSUME NEW q \in Live, lock[q] \in {t, None}, state'[q] = "COMPRESSED",
              prot'[q] # "none"
       PROVE  lock'[q] = t /\ pc'[t] \in Opening
  <2>1. q \notin S /\ state[q] = "COMPRESSED" /\ prot[q] # "none" /\ q \in Pages
    BY <1>1, <1>4, <1>6, <1>14, Zenon
  <2>2. lock[q] = t
    BY <1>14, <2>1, OpenFacts, Zenon
  <2> QED
    BY <1>6, <1>8, <2>1, <2>2, Zenon DEF Opening
<1>15. \A q \in Pages : lock[q] \notin {t, None} =>
         lock'[q] = lock[q] /\ state'[q] = state[q] /\ prot'[q] = prot[q]
  BY <1>2, <1>4, <1>6, Zenon
<1>16. \A q \in Pages : lock[q] \in {t, None} => lock'[q] \in {t, None}
  BY <1>6, Zenon
<1> HIDE DEF Holders
<1> QED
  BY <1>4, <1>5, <1>8, <1>10, <1>12, <1>13, <1>14, <1>15, <1>16, ThreadKeeps, ZenonT(40)
\* The handler is through with its page, which is finalized.
LEMMA FinishKeeps ==
  ASSUME CapInv, Sized, NEW t \in Threads, Finish(t)
  PROVE  CapInv'
<1> DEFINE p == page[t]
<1>1. /\ t # None /\ ThreadSound(t) /\ p \in Pages /\ p \in Live /\ Live \subseteq Pages
      /\ pc[t] = "done"
  BY ThreadFacts, Zenon DEF Finish
<1>2. /\ prot[p] = "rw" /\ lock[p] = t /\ range[t] = {}
      /\ \A q \in Pages : lock[q] = t => q = p
  BY <1>1, Zenon DEF ThreadSound, Inside, Ranged, Opening
<1>3. /\ UNCHANGED <<prot, estimate, others, page, store, range>>
      /\ pc' = [pc EXCEPT ![t] = "access"] /\ slots' = slots + HeldSlot(t)
      /\ state' = [state EXCEPT ![p] = "ACTIVE"] /\ blob' = [blob EXCEPT ![p] = FALSE]
      /\ mem' = [mem EXCEPT ![p] = "new"] /\ lock' = [lock EXCEPT ![p] = None]
  BY Zenon DEF Finish, Goto, capVars
<1>4. Typed'
  <2>1. /\ pc' \in [Threads -> Places] /\ state' \in [Pages -> States]
        /\ blob' \in [Pages -> BOOLEAN] /\ mem' \in [Pages -> {"gone", "blob", "new"}]
        /\ lock' \in [Pages -> Threads \cup {None}]
    BY <1>3, Zenon DEF CapInv, Typed, Places, States
  <2>2. slots' \in Int
    BY <1>3 DEF CapInv, Typed, HeldSlot
  <2> QED
    BY <1>3, <2>1, <2>2, Zenon DEF CapInv, Typed
<1>5. /\ state'[p] = "ACTIVE" /\ blob'[p] = FALSE /\ mem'[p] = "new" /\ lock'[p] = None
      /\ \A q \in Pages \ {p} : /\ state'[q] = state[q] /\ lock'[q] = lock[q]
                                /\ blob'[q] = blob[q] /\ mem'[q] = mem[q]
      /\ pc'[t] = "access" /\ \A u \in Threads \ {t} : pc'[u] = pc[u]
  BY <1>1, <1>3, Zenon DEF CapInv, Typed
<1>6. ASSUME NEW q \in Live PROVE Agree(state'[q], prot'[q], blob'[q], mem'[q])
  <2>1. CASE q = p
    BY <1>2, <1>3, <1>5, <2>1, Zenon DEF Agree
  <2>2. CASE q # p
    BY <1>1, <1>3, <1>5, <2>2, ZenonT(40) DEF CapInv, PageInv
  <2> QED
    BY <2>1, <2>2, Zenon
<1>7. PageInv'
  <2>1. \A q \in Pages \ Live : state'[q] = "EMPTY"
    BY <1>1, <1>5, Zenon DEF CapInv, PageInv
  <2> QED
    BY <1>6, <2>1, Zenon DEF PageInv
<1>8. \A q \in Pages : lock'[q] # t
  BY <1>1, <1>2, <1>5, Zenon
<1>9. ThreadSound(t)'
  BY <1>1, <1>2, <1>3, <1>5, <1>8, Zenon DEF ThreadSound, Inside, Ranged, Opening
<1>10. \/ slots' = slots /\ t \notin Holders /\ t \notin Holders'
       \/ slots' = slots + 1 /\ t \in Holders /\ t \notin Holders'
  BY <1>1, <1>3, <1>5 DEF Holders, Served, Inside, HeldSlot, CapInv, Typed
<1>11. ASSUME NEW q \in Live, lock[q] \in {t, None}, state'[q] = "COMPRESSED",
              prot'[q] # "none"
       PROVE  FALSE
  <2>1. q # p /\ q \in Pages /\ state[q] = "COMPRESSED" /\ prot[q] # "none"
    BY <1>1, <1>3, <1>5, <1>11, Zenon
  <2> QED
    BY <1>2, <1>11, <2>1, OpenFacts, ZenonT(40)
<1>12. \A q \in Pages : lock[q] \notin {t, None} =>
         lock'[q] = lock[q] /\ state'[q] = state[q] /\ prot'[q] = prot[q]
  BY <1>2, <1>3, <1>5, Zenon
<1>13. \A q \in Pages : lock[q] \in {t, None} => lock'[q] \in {t, None}
  BY <1>5, Zenon
<1> HIDE DEF p, Holders
<1> QED
  BY <1>3, <1>4, <1>5, <1>7, <1>9, <1>10, <1>11, <1>12, <1>13, ThreadKeeps, Zenon

\* No restore succeeded: the page is left for the next fault.
LEMMA GiveUpKeeps ==
  ASSUME CapInv, Sized, NEW t \in Threads, GiveUp(t)
  PROVE  CapInv'
<1> DEFINE p == page[t]
<1>1. /\ t # None /\ ThreadSound(t) /\ p \in Pages /\ p \in Live /\ Live \subseteq Pages
      /\ pc[t] = "giveup"
  BY ThreadFacts, Zenon DEF GiveUp
<1>2. /\ lock[p] = t /\ range[t] = {} /\ \A q \in Pages : lock[q] = t => q = p
  BY <1>1, Zenon DEF ThreadSound, Inside, Ranged
<1>3. /\ UNCHANGED <<prot, state, blob, mem, estimate, others, page, store, range>>
      /\ pc' = [pc EXCEPT ![t] = "access"] /\ slots' = slots + HeldSlot(t)
      /\ lock' = [lock EXCEPT ![p] = None]
  BY Zenon DEF GiveUp, Goto, capVars
<1>4. Typed'
  <2>1. pc' \in [Threads -> Places] /\ lock' \in [Pages -> Threads \cup {None}]
    BY <1>3, Zenon DEF CapInv, Typed, Places
  <2>2. slots' \in Int
    BY <1>3 DEF CapInv, Typed, HeldSlot
  <2> QED
    BY <1>3, <2>1, <2>2, Zenon DEF CapInv, Typed
<1>5. /\ lock'[p] = None /\ \A q \in Pages \ {p} : lock'[q] = lock[q]
      /\ pc'[t] = "access" /\ \A u \in Threads \ {t} : pc'[u] = pc[u]
  BY <1>1, <1>3, Zenon DEF CapInv, Typed
<1>6. PageInv'
  BY <1>3, Zenon DEF CapInv, PageInv
<1>7. \A q \in Pages : lock'[q] # t
  BY <1>1, <1>2, <1>5, Zenon
<1>8. ThreadSound(t)'
  BY <1>1, <1>2, <1>3, <1>5, <1>7, ZenonT(40) DEF ThreadSound, Inside, Ranged, Opening
<1>9. \/ slots' = slots /\ t \notin Holders /\ t \notin Holders'
      \/ slots' = slots + 1 /\ t \in Holders /\ t \notin Holders'
  BY <1>1, <1>3, <1>5 DEF Holders, Served, Inside, HeldSlot, CapInv, Typed
<1>10. ASSUME NEW q \in Live, lock[q] \in {t, None}, state'[q] = "COMPRESSED",
              prot'[q] # "none"
       PROVE  FALSE
  BY <1>1, <1>3, <1>10, OpenFacts, ZenonT(40) DEF Opening
<1>11. \A q \in Pages : lock[q] \notin {t, None} =>
         lock'[q] = lock[q] /\ state'[q] = state[q] /\ prot'[q] = prot[q]
  BY <1>2, <1>3, <1>5, Zenon
<1>12. \A q \in Pages : lock[q] \in {t, None} => lock'[q] \in {t, None}
  BY <1>5, Zenon
<1> HIDE DEF p, Holders
<1> QED
  BY <1>3, <1>4, <1>5, <1>6, <1>8, <1>9, <1>10, <1>11, <1>12, ThreadKeeps, Zenon

-----------------------------------------------------------------------------
\* The heap the behaviours start from.
LEMMA CapInit ==
  ASSUME Init, Sized
  PROVE  CapInv
<1>1. PICK s \in [Live -> {"ACTIVE", "ACTIVE_MONITORING", "COMPRESSED"}] :
        state = [p \in Pages |-> IF p \in Live THEN s[p] ELSE "EMPTY"]
  BY Zenon DEF Init
<1>2. Live \subseteq Pages /\ 0 \in Pages
  BY DEF Live, Pages, Sized
<1>3. /\ state \in [Pages -> States]
      /\ \A p \in Live : state[p] \in {"ACTIVE", "ACTIVE_MONITORING", "COMPRESSED"}
      /\ \A p \in Pages \ Live : state[p] = "EMPTY"
  BY <1>1, <1>2, Zenon DEF States
<1>4. /\ prot = [p \in Pages |-> ProtOf(state[p])]
      /\ blob = [p \in Pages |-> state[p] = "COMPRESSED"]
      /\ mem = [p \in Pages |-> IF state[p] = "COMPRESSED" THEN "gone" ELSE "new"]
      /\ lock = [p \in Pages |-> None] /\ others = 0 /\ estimate = 0 /\ slots = Slots
      /\ pc = [t \in Threads |-> "idle"] /\ page = [t \in Threads |-> 0]
      /\ store = [t \in Threads |-> FALSE] /\ range = [t \in Threads |-> {}]
  BY Zenon DEF Init
<1>5. /\ prot \in [Pages -> Prots]
      /\ \A p \in Live : prot[p] = "none" <=> state[p] = "COMPRESSED"
  <2>1. ASSUME NEW p \in Pages
        PROVE  /\ ProtOf(state[p]) \in Prots
               /\ state[p] # "EMPTY" =>
                    (ProtOf(state[p]) = "none" <=> state[p] = "COMPRESSED")
    <3>1. state[p] \in States
      BY <1>3, Zenon
    <3> QED
      BY <3>1, Zenon DEF ProtOf, Prots, States
  <2>2. prot \in [Pages -> Prots] /\ \A p \in Pages : prot[p] = ProtOf(state[p])
    BY <1>4, <2>1, Zenon
  <2> QED
    BY <1>2, <1>3, <2>1, <2>2, ZenonT(40)
<1>6. /\ blob \in [Pages -> BOOLEAN] /\ mem \in [Pages -> {"gone", "blob", "new"}]
      /\ \A p \in Pages : blob[p] <=> state[p] = "COMPRESSED"
      /\ \A p \in Pages : mem[p] = IF state[p] = "COMPRESSED" THEN "gone" ELSE "new"
  BY <1>4, Zenon
<1>7. Typed
  <2>1. /\ lock \in [Pages -> Threads \cup {None}] /\ pc \in [Threads -> Places]
        /\ page \in [Threads -> Pages] /\ store \in [Threads -> BOOLEAN]
        /\ range \in [Threads -> SUBSET Pages]
    BY <1>2, <1>4, Zenon DEF Places
  <2> QED
    BY <1>3, <1>4, <1>5, <1>6, <2>1, SMT, SMTT(30) DEF Typed, Sized
<1>8. PageInv
  <2>1. ASSUME NEW p \in Live PROVE Agree(state[p], prot[p], blob[p], mem[p])
    BY <1>2, <1>3, <1>5, <1>6, ZenonT(40) DEF Agree
  <2> QED
    BY <1>3, <2>1, Zenon DEF PageInv
<1>9. OpenInv
  BY <1>5, Zenon DEF OpenInv
<1>10. ThreadInv
  BY <1>4, Zenon DEF ThreadInv, ThreadSound, Inside, Ranged, Opening, Sized
<1>11. SlotInv
  <2>1. Holders = {}
    BY <1>4, Zenon DEF Holders, Served, Inside
  <2> QED
    BY <1>4, <2>1, FS_EmptySet, SMT, SMTT(30) DEF SlotInv, Sized
<1> QED
  BY <1>7, <1>8, <1>9, <1>10, <1>11, ZenonT(40) DEF CapInv

\* Every step keeps the invariant.
LEMMA CapStep ==
  ASSUME CapInv, Sized, [Next]_vars
  PROVE  CapInv'
<1>1. CASE Mmap \/ StartTick \/ ArmBudget \/ EndTick
  BY <1>1, CountingKeeps, Zenon
<1>2. CASE Phases
  BY <1>2, ReclaimKeeps, ShadowKeeps, MonitorKeeps, ZenonT(40) DEF Phases
<1>3. ASSUME NEW t \in Threads, ThreadStep(t) PROVE CapInv'
  BY <1>3, AccessKeeps, LockPageKeeps, AcquireSlotKeeps, TryNearKeeps, TrySingleKeeps,
     TryWholeKeeps, RestoreRangeKeeps, FinishRangeKeeps, FinishKeeps, GiveUpKeeps, ZenonT(40)
     DEF ThreadStep
<1>4. ASSUME NEW t \in Threads, NEW p \in Live, Start(t, p) PROVE CapInv'
  BY <1>4, StartKeeps, Zenon
<1>5. CASE UNCHANGED vars
  <2>1. /\ UNCHANGED <<prot, state, blob, lock, mem, others, estimate, slots>>
        /\ UNCHANGED <<pc, page, store, range>>
    BY <1>5, Zenon DEF vars, pageVars, capVars, threadVars
  <2>2. Typed' /\ PageInv' /\ OpenInv'
    BY <2>1, Zenon DEF CapInv, Typed, PageInv, OpenInv
  <2>3. ThreadInv'
    BY <2>1, ZenonT(40) DEF CapInv, ThreadInv, ThreadSound
  <2>4. SlotInv'
    BY <2>1, Zenon DEF CapInv, SlotInv, Holders
  <2> QED
    BY <2>2, <2>3, <2>4, ZenonT(40) DEF CapInv
<1> QED
  BY <1>1, <1>2, <1>3, <1>4, <1>5, ZenonT(40) DEF Next

\* The invariant says what restores have to keep.
LEMMA CapMeans ==
  ASSUME CapInv, Sized
  PROVE  CapRestoreSound
<1>1. ASSUME NEW p \in Live
      PROVE  /\ mem[p] = "gone" => blob[p] /\ prot[p] = "none" /\ state[p] = "COMPRESSED"
             /\ lock[p] = None =>
                  /\ blob[p] <=> state[p] \in {"COMPRESSED", "COMPRESSED_SHADOW"}
                  /\ prot[p] = "none" <=> state[p] = "COMPRESSED"
  <2>1. Agree(state[p], prot[p], blob[p], mem[p])
    BY Zenon DEF CapInv, PageInv
  <2> QED
    BY <2>1, UnlockedCompressed, Zenon DEF Agree
<1>2. ASSUME NEW p \in Live, state[p] = "COMPRESSED", mem[p] = "new"
      PROVE  \E t \in Threads : p \in range[t] \cup {page[t]} /\ lock[p] = t
  <2>1. prot[p] # "none" /\ p \in Pages
    BY <1>2 DEF CapInv, PageInv, Agree, Live, Pages, Sized
  <2>2. lock[p] \in Threads
    BY <1>2, <2>1, Zenon DEF CapInv, OpenInv
  <2>3. ThreadSound(lock[p])
    BY <2>2, Zenon DEF CapInv, ThreadInv
  <2> QED
    BY <2>1, <2>2, <2>3, ZenonT(40) DEF ThreadSound
<1>3. slots + Cardinality({t \in Threads :
        /\ pc[t] \in {"near", "single", "whole", "nearRange", "wholeRange", "finish",
                      "done", "giveup"}
        /\ state[page[t]] = "COMPRESSED"}) = Slots
  <2>1. Served = {"near", "single", "whole", "nearRange", "wholeRange", "finish",
                  "done", "giveup"}
    BY Zenon DEF Served, Inside
  <2> QED
    BY <2>1, Zenon DEF CapInv, SlotInv, Holders
<1> QED
  BY <1>1, <1>2, <1>3, ZenonT(40) DEF CapRestoreSound

\* Restores near the limit on mappings (restoreNearCap, restoreWholeVma,
\* restoreRange, makeResidentPageWritable), for any number of pages, threads and
\* fault slots, and whichever mprotect the kernel refuses: a page whose memory
\* is gone keeps its blob and stays closed; a COMPRESSED page that a store has
\* reached is locked by the thread that is about to drop its blob; an unlocked
\* page has a blob exactly if it is compressed, and is closed exactly if it is
\* COMPRESSED; no fault slot is lost.
THEOREM CapRestores == ASSUME Sized PROVE Spec => []CapRestoreSound
<1>1. Init => CapInv
  BY CapInit, Zenon
<1>2. CapInv /\ [Next]_vars => CapInv'
  BY CapStep, Zenon
<1>3. CapInv => CapRestoreSound
  BY CapMeans, Zenon
<1> QED
  BY <1>1, <1>2, <1>3, PTL DEF Spec
=============================================================================
