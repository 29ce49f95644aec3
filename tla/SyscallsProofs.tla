--------------------------- MODULE SyscallsProofs ---------------------------
(***************************************************************************)
(* Proofs about Syscalls, for any threads, any table of wrappers that fits *)
(* (below), any bound on the attempts and a compressor that closes pages   *)
(* whenever it likes.                                                      *)
(*                                                                         *)
(* What is said of a thread depends on the values of its own variables     *)
(* only, so it is written as an operator of those values: the steps of     *)
(* other threads keep it.                                                  *)
(***************************************************************************)
EXTENDS Syscalls, TLAPS

\* What the code's constants are.
Sized ==
  /\ MaxAttempts \in Nat \ {0} /\ MaxCalls \in Nat
  /\ None \notin Names
  /\ \A n \in Names : /\ Wrappers[n].retry \in BOOLEAN
                      /\ Wrappers[n].gated \in BOOLEAN

Places == {"idle", "resolve", "claim", "dlsym", "raw", "before", "call", "walk", "done",
           "crashed"}
Results == {"none", "ok", "EFAULT", "rawEFAULT", "failed"}

\* The kernel finds the pages of a call as it needs them.
Ok(d, pg) ==
  /\ \A a \in d.reads : pg[a] \in Readable
  /\ \A a \in d.writes : pg[a] \in Writable

Mapped(pg) == \A a \in DOMAIN pg : pg[a] # "bad"

\* The pages of a thread are those of its call.
Shaped(c, pg) ==
  /\ DOMAIN pg = IF c = None THEN {} ELSE Arguments(c)
  /\ \A a \in DOMAIN pg : pg[a] \in PageKinds

\* The attempts made so far are paid for: each but the last by a page that the
\* compressor closed, and the last one too unless the pages are open.
Paid(d, p, pg, k, r, cl) ==
  /\ d.retry =>
       /\ p = "call" => k <= cl \/ (k <= cl + 1 /\ Ok(d, pg))
       /\ p = "walk" => k <= cl
       /\ p = "done" /\ r = "EFAULT" => cl >= MaxAttempts
  /\ ~d.retry =>
       /\ p = "call" => cl >= 1 \/ Ok(d, pg)
       /\ p # "walk"
       /\ p = "done" /\ r = "EFAULT" => cl >= 1

Sound(c, p, pg, k, r, cl) ==
  /\ c \in Names \cup {None} /\ (p # "idle" => c # None)
  /\ Shaped(c, pg)
  /\ p \in {"idle", "resolve", "claim", "dlsym", "before"} => k = 0
  /\ p = "walk" => k < MaxAttempts
  /\ c # None /\ Covered(Wrappers[c]) /\ Mapped(pg) => Paid(Wrappers[c], p, pg, k, r, cl)

Typed ==
  /\ resolving \in BOOLEAN /\ resolved \subseteq Names
  /\ calls \in 0 .. MaxCalls
  /\ call \in [Threads -> Names \cup {None}]
  /\ pc \in [Threads -> Places]
  /\ DOMAIN page = Threads
  /\ attempt \in [Threads -> 0 .. MaxAttempts]
  /\ result \in [Threads -> Results]
  /\ closings \in [Threads -> 0 .. MaxAttempts]

SoundNow(t) == Sound(call[t], pc[t], page[t], attempt[t], result[t], closings[t])

SyscallInv == Typed /\ \A t \in Threads : SoundNow(t)

-----------------------------------------------------------------------------
(* What the touches do.                                                    *)

PeekedOf(pg, args) ==
  [a \in DOMAIN pg |-> IF a \in args /\ pg[a] = "none" THEN "rw" ELSE pg[a]]

\* A touch neither adds pages nor maps or unmaps one.
LEMMA TouchKeeps ==
  ASSUME NEW c, NEW pg, NEW peek, NEW walk, Shaped(c, pg)
  PROVE  LET new == Touched(PeekedOf(pg, peek), walk) IN
         /\ Shaped(c, new)
         /\ Mapped(new) => Mapped(pg)
<1> DEFINE new == Touched(PeekedOf(pg, peek), walk)
<1>1. DOMAIN new = DOMAIN pg
  BY DEF Touched, PeekedOf
<1>2. \A a \in DOMAIN pg : new[a] = pg[a] \/ (new[a] = "rw" /\ pg[a] \in Protections)
  BY DEF Touched, PeekedOf, Protections
<1> HIDE DEF new
<1>3. Shaped(c, new)
  BY <1>1, <1>2 DEF Shaped, PageKinds, Protections
<1>4. Mapped(new) => Mapped(pg)
  BY <1>1, <1>2 DEF Mapped, Protections
<1> QED
  BY <1>3, <1>4 DEF new

\* Pages that are read and touched as far as the kernel needs are open.
LEMMA TouchOpens ==
  ASSUME NEW c \in Names, NEW pg, NEW peek, NEW walk, None \notin Names,
         Shaped(c, pg), Mapped(pg),
         Wrappers[c].writes \subseteq walk, Wrappers[c].reads \subseteq walk \cup peek
  PROVE  Ok(Wrappers[c], Touched(PeekedOf(pg, peek), walk))
<1> DEFINE new == Touched(PeekedOf(pg, peek), walk)
<1>1. /\ Wrappers[c].reads \subseteq DOMAIN pg /\ Wrappers[c].writes \subseteq DOMAIN pg
  BY DEF Shaped, Arguments
<1>2. \A a \in DOMAIN pg : pg[a] \in {"none", "read", "rw", "own"}
  BY DEF Shaped, Mapped, PageKinds, Protections
<1>3. \A a \in DOMAIN pg :
        /\ a \in walk => new[a] \in {"rw", "own"}
        /\ a \in peek => new[a] \in {"read", "rw", "own"}
  BY <1>2 DEF Touched, PeekedOf, Protections
<1> HIDE DEF new
<1>4. Ok(Wrappers[c], new)
  BY <1>1, <1>3 DEF Ok, Readable, Writable
<1> QED
  BY <1>4 DEF new

-----------------------------------------------------------------------------
(* The steps of one thread.                                                *)

\* The variables of the other threads.
Apart(t) ==
  \A q \in Threads \ {t} :
    /\ call'[q] = call[q] /\ pc'[q] = pc[q] /\ page'[q] = page[q]
    /\ attempt'[q] = attempt[q] /\ result'[q] = result[q] /\ closings'[q] = closings[q]

\* The call begins, and finds the real function.
LEMMA EnterStep ==
  ASSUME Sized, SyscallInv, NEW t \in Threads, Enter(t)
  PROVE  Typed' /\ Apart(t) /\ SoundNow(t)'
<1>0. PICK n \in Names :
        /\ call' = [call EXCEPT ![t] = n]
        /\ page' \in {[page EXCEPT ![t] = f] : f \in [Arguments(n) -> PageKinds]}
        /\ \E x \in {"before", "resolve"} : pc' = [pc EXCEPT ![t] = x]
  BY Zenon DEF Enter
<1>1. PICK f \in [Arguments(n) -> PageKinds] :
        /\ call' = [call EXCEPT ![t] = n]
        /\ page' = [page EXCEPT ![t] = f]
        /\ \E x \in {"before", "resolve"} : pc' = [pc EXCEPT ![t] = x]
  BY <1>0, Zenon
<1>2. /\ attempt' = attempt /\ result' = result /\ closings' = closings
      /\ resolving' = resolving /\ resolved' = resolved
  BY DEF Enter
<1>3. calls' \in 0 .. MaxCalls
  BY DEF Enter, SyscallInv, Typed, Sized
<1>4. Typed'
  BY <1>1, <1>2, <1>3 DEF SyscallInv, Typed, Places
<1>5. Apart(t)
  BY <1>1, <1>2 DEF Apart, SyscallInv, Typed
<1>6. /\ call'[t] = n /\ page'[t] = f /\ pc'[t] \in {"before", "resolve"}
      /\ attempt'[t] = attempt[t]
  BY <1>1, <1>2 DEF SyscallInv, Typed
<1>7. attempt[t] = 0
  BY DEF Enter, SyscallInv, SoundNow, Sound
<1>8. n # None
  BY DEF Sized
<1>9. Shaped(n, f)
  BY <1>8 DEF Shaped
<1>10. SoundNow(t)'
  BY <1>6, <1>7, <1>8, <1>9 DEF SoundNow, Sound, Paid
<1> QED
  BY <1>4, <1>5, <1>10

\* Until the first call nothing is counted.
LEMMA ResolveStep ==
  ASSUME Sized, SyscallInv, NEW t \in Threads,
         SkipResolve(t) \/ SeeFree(t) \/ Claim(t) \/ Dlsym(t) \/ RawCall(t)
  PROVE  Typed' /\ Apart(t) /\ SoundNow(t)'
<1>1. /\ calls' = calls /\ call' = call /\ page' = page /\ attempt' = attempt
      /\ closings' = closings
  BY Zenon DEF SkipResolve, SeeFree, Claim, Dlsym, RawCall
<1>2. \E x \in {"raw", "done", "claim", "dlsym", "before"} : pc' = [pc EXCEPT ![t] = x]
  BY DEF SkipResolve, SeeFree, Claim, Dlsym, RawCall
<1>3. result' = result \/ \E y \in Results \ {"EFAULT"} : result' = [result EXCEPT ![t] = y]
  BY DEF SkipResolve, SeeFree, Claim, Dlsym, RawCall, Results
<1>4. pc[t] \in {"resolve", "claim", "dlsym", "raw"}
  BY DEF SkipResolve, SeeFree, Claim, Dlsym, RawCall
<1>5. call[t] \in Names /\ SoundNow(t)
  BY <1>4 DEF SyscallInv, SoundNow, Sound
<1>6. resolving' \in BOOLEAN /\ resolved' \subseteq Names
  BY <1>5, Zenon DEF SkipResolve, SeeFree, Claim, Dlsym, RawCall, SyscallInv, Typed
<1>7. Typed'
  BY <1>1, <1>2, <1>3, <1>6 DEF SyscallInv, Typed, Places
<1>8. Apart(t)
  BY <1>1, <1>2, <1>3 DEF Apart, SyscallInv, Typed
<1>9. pc'[t] \in {"claim", "dlsym", "before"} => attempt[t] = 0
  BY <1>4, <1>5 DEF SkipResolve, SeeFree, Claim, Dlsym, RawCall, SoundNow, Sound, SyscallInv, Typed
<1>10. pc'[t] = "done" => result'[t] # "EFAULT"
  BY <1>4 DEF SkipResolve, SeeFree, Claim, Dlsym, RawCall, SyscallInv, Typed
<1>11. pc'[t] \in {"raw", "done", "claim", "dlsym", "before"}
  BY <1>2 DEF SyscallInv, Typed
<1>12. Paid(Wrappers[call[t]], pc'[t], page[t], attempt[t], result'[t], closings[t])
  BY <1>10, <1>11 DEF Paid
<1>13. call[t] \in Names \cup {None} /\ call[t] # None /\ Shaped(call[t], page[t])
  BY <1>4, <1>5, Zenon DEF SoundNow, Sound
<1>14. pc'[t] \in {"idle", "resolve", "claim", "dlsym", "before"} => attempt[t] = 0
  BY <1>9, <1>11
<1>15. Sound(call[t], pc'[t], page[t], attempt[t], result'[t], closings[t])
  BY <1>11, <1>12, <1>13, <1>14 DEF Sound
<1>16. SoundNow(t)'
  BY <1>1, <1>15, Zenon DEF SoundNow
<1> QED
  BY <1>7, <1>8, <1>16

\* What a wrapper without a retry touches beforehand is open at its call.
LEMMA BeforeStep ==
  ASSUME Sized, Fits, SyscallInv, NEW t \in Threads, Before(t)
  PROVE  Typed' /\ Apart(t) /\ SoundNow(t)'
<1> DEFINE d == Wrappers[call[t]]
           new == Touched(PeekedOf(page[t], d.pre), d.warm)
<1>1. page' = [page EXCEPT ![t] = new]
  BY Zenon DEF Before, PeekedOf, Peeked
<1>2. \E x \in {"crashed", "call"} : pc' = [pc EXCEPT ![t] = x]
  BY Zenon DEF Before
<1>3. /\ calls' = calls /\ call' = call /\ attempt' = attempt /\ result' = result
      /\ closings' = closings /\ resolving' = resolving /\ resolved' = resolved
  BY Zenon DEF Before
<1>4. pc[t] = "before" /\ SoundNow(t)
  BY DEF Before, SyscallInv
<1>5. call[t] \in Names /\ attempt[t] = 0 /\ Shaped(call[t], page[t])
  BY <1>4 DEF SoundNow, Sound
<1>6. Shaped(call[t], new) /\ (Mapped(new) => Mapped(page[t]))
  BY <1>5, TouchKeeps, Zenon
<1>7. Covered(d) /\ ~d.retry /\ Mapped(new) => Ok(d, new)
  <2>1. SUFFICES ASSUME Covered(d), ~d.retry, Mapped(new) PROVE Ok(d, new)
    BY Zenon
  <2>2. d.writes \subseteq d.warm /\ d.reads \subseteq d.warm \cup d.pre
    BY <1>5, <2>1 DEF Covered, Fits
  <2> QED
    BY <1>5, <1>6, <2>1, <2>2, TouchOpens, Zenon DEF Sized
<1> HIDE DEF new
<1>8. Typed'
  BY <1>1, <1>2, <1>3 DEF SyscallInv, Typed, Places
<1>9. Apart(t)
  BY <1>1, <1>2, <1>3 DEF Apart, SyscallInv, Typed
<1>10. page'[t] = new /\ pc'[t] \in {"crashed", "call"}
  BY <1>1, <1>2 DEF SyscallInv, Typed
<1>11. closings[t] \in Nat
  BY DEF SyscallInv, Typed, Sized
<1>12. SoundNow(t)'
  BY <1>3, <1>5, <1>6, <1>7, <1>10, <1>11 DEF SoundNow, Sound, Paid, Sized
<1> QED
  BY <1>8, <1>9, <1>12

\* A call that fails is retried while attempts are left.
LEMMA CallStep ==
  ASSUME Sized, SyscallInv, NEW t \in Threads, CallKernel(t)
  PROVE  Typed' /\ Apart(t) /\ SoundNow(t)'
<1> DEFINE d == Wrappers[call[t]]
<1>1. /\ calls' = calls /\ call' = call /\ page' = page /\ attempt' = attempt
      /\ closings' = closings /\ resolving' = resolving /\ resolved' = resolved
  BY Zenon DEF CallKernel
<1>2. \E x \in {"walk", "done"} : pc' = [pc EXCEPT ![t] = x]
  BY Zenon DEF CallKernel
<1>3. \E y \in {"ok", "EFAULT"} : result' = [result EXCEPT ![t] = y]
  BY Zenon DEF CallKernel
<1>4. Typed'
  BY <1>1, <1>2, <1>3 DEF SyscallInv, Typed, Places, Results
<1>5. Apart(t)
  BY <1>1, <1>2, <1>3 DEF Apart, SyscallInv, Typed
<1>6. pc[t] = "call" /\ SoundNow(t)
  BY DEF CallKernel, SyscallInv
<1>7. call[t] \in Names /\ call[t] # None /\ Shaped(call[t], page[t])
  BY <1>6 DEF SoundNow, Sound
<1>8. KernelOk(t) <=> Ok(d, page[t])
  BY Zenon DEF KernelOk, Ok
<1>9. /\ pc'[t] = IF ~Ok(d, page[t]) /\ d.retry /\ attempt[t] < MaxAttempts
                  THEN "walk" ELSE "done"
      /\ result'[t] = IF Ok(d, page[t]) THEN "ok" ELSE "EFAULT"
  BY <1>8 DEF CallKernel, SyscallInv, Typed
<1>10. /\ closings[t] \in 0 .. MaxAttempts /\ attempt[t] \in 0 .. MaxAttempts
       /\ MaxAttempts \in Nat \ {0} /\ d.retry \in BOOLEAN
  BY <1>7 DEF SyscallInv, Typed, Sized
<1>11. ASSUME Covered(d), Mapped(page[t])
       PROVE  Paid(d, pc'[t], page[t], attempt[t], result'[t], closings[t])
  <2>1. Paid(d, "call", page[t], attempt[t], result[t], closings[t])
    BY <1>6, <1>7, <1>11, Zenon DEF SoundNow, Sound
  <2> HIDE DEF d
  <2>2. CASE Ok(d, page[t])
    BY <1>9, <2>2 DEF Paid
  <2>3. CASE ~Ok(d, page[t])
    BY <1>9, <1>10, <2>1, <2>3 DEF Paid
  <2> QED
    BY <2>2, <2>3
<1>12. pc'[t] \in {"walk", "done"} /\ (pc'[t] = "walk" => attempt[t] < MaxAttempts)
  BY <1>9
<1>13. Sound(call[t], pc'[t], page[t], attempt[t], result'[t], closings[t])
  BY <1>7, <1>11, <1>12 DEF Sound
<1>14. SoundNow(t)'
  BY <1>1, <1>13, Zenon DEF SoundNow
<1> QED
  BY <1>4, <1>5, <1>14

\* The walk opens the pages of the next attempt.
LEMMA WalkStep ==
  ASSUME Sized, Fits, SyscallInv, NEW t \in Threads, Walk(t)
  PROVE  Typed' /\ Apart(t) /\ SoundNow(t)'
<1> DEFINE d == Wrappers[call[t]]
           peek == IF d.gated /\ \A a \in d.walk : page[t][a] \notin Protections
                   THEN {} ELSE d.peek
           new == Touched(PeekedOf(page[t], peek), d.walk)
<1>1. page' = [page EXCEPT ![t] = new]
  BY Zenon DEF Walk, PeekedOf, Peeked
<1>2. \E x \in {"crashed", "call"} : pc' = [pc EXCEPT ![t] = x]
  BY Zenon DEF Walk
<1>3. /\ calls' = calls /\ call' = call /\ result' = result
      /\ closings' = closings /\ resolving' = resolving /\ resolved' = resolved
      /\ attempt' = [attempt EXCEPT ![t] = @ + 1]
  BY Zenon DEF Walk
<1>4. pc[t] = "walk" /\ SoundNow(t)
  BY DEF Walk, SyscallInv
<1>5. /\ call[t] \in Names /\ call[t] # None /\ Shaped(call[t], page[t])
      /\ attempt[t] < MaxAttempts
  BY <1>4 DEF SoundNow, Sound
<1>6. /\ closings[t] \in 0 .. MaxAttempts /\ attempt[t] \in 0 .. MaxAttempts
      /\ MaxAttempts \in Nat \ {0} /\ d.retry \in BOOLEAN /\ d.gated \in BOOLEAN
  BY <1>5 DEF SyscallInv, Typed, Sized
<1>7. Shaped(call[t], new) /\ (Mapped(new) => Mapped(page[t]))
  BY <1>5, TouchKeeps, Zenon
<1>8. ASSUME Covered(d), Mapped(new)
      PROVE  d.retry /\ attempt[t] <= closings[t] /\ Ok(d, new)
  <2>1. Paid(d, "walk", page[t], attempt[t], result[t], closings[t])
    BY <1>4, <1>5, <1>7, <1>8, Zenon DEF SoundNow, Sound
  <2>2. d.retry /\ attempt[t] <= closings[t]
    BY <1>6, <2>1 DEF Paid
  <2>3. peek = d.peek
    BY <1>5, <1>8, Zenon DEF Fits
  <2>4. d.writes \subseteq d.walk /\ d.reads \subseteq d.walk \cup peek
    BY <1>8, <2>2, <2>3, Zenon DEF Covered
  <2> HIDE DEF peek
  <2>5. Ok(d, new)
    BY <1>5, <1>7, <1>8, <2>4, TouchOpens, Zenon DEF Sized
  <2> QED
    BY <2>2, <2>5
<1> HIDE DEF new, peek
<1>9. Typed'
  <2>1. attempt' \in [Threads -> 0 .. MaxAttempts]
    BY <1>3, <1>5, <1>6 DEF SyscallInv, Typed
  <2> QED
    BY <1>1, <1>2, <1>3, <2>1 DEF SyscallInv, Typed, Places
<1>10. Apart(t)
  BY <1>1, <1>2, <1>3 DEF Apart, SyscallInv, Typed
<1>11. page'[t] = new /\ pc'[t] \in {"crashed", "call"} /\ attempt'[t] = attempt[t] + 1
  BY <1>1, <1>2, <1>3 DEF SyscallInv, Typed
<1>12. ASSUME Covered(d), Mapped(new)
       PROVE  Paid(d, pc'[t], new, attempt'[t], result[t], closings[t])
  BY <1>6, <1>8, <1>11, <1>12 DEF Paid
<1>13. Sound(call[t], pc'[t], new, attempt'[t], result[t], closings[t])
  BY <1>5, <1>7, <1>11, <1>12 DEF Sound
<1>14. SoundNow(t)'
  BY <1>3, <1>11, <1>13, Zenon DEF SoundNow
<1> QED
  BY <1>9, <1>10, <1>14

\* The return clears what the call used.
LEMMA ReturnStep ==
  ASSUME Sized, SyscallInv, NEW t \in Threads, Return(t)
  PROVE  Typed' /\ Apart(t) /\ SoundNow(t)'
<1>1. /\ pc' = [pc EXCEPT ![t] = "idle"] /\ call' = [call EXCEPT ![t] = None]
      /\ page' = [page EXCEPT ![t] = <<>>] /\ attempt' = [attempt EXCEPT ![t] = 0]
      /\ result' = [result EXCEPT ![t] = "none"] /\ closings' = [closings EXCEPT ![t] = 0]
      /\ calls' = calls /\ resolving' = resolving /\ resolved' = resolved
  BY Zenon DEF Return
<1>2. Typed'
  BY <1>1 DEF SyscallInv, Typed, Places, Results, Sized
<1>3. Apart(t)
  BY <1>1 DEF Apart, SyscallInv, Typed
<1>4. /\ pc'[t] = "idle" /\ call'[t] = None /\ page'[t] = <<>> /\ attempt'[t] = 0
  BY <1>1 DEF SyscallInv, Typed
<1>5. Shaped(None, page'[t])
  BY <1>4 DEF Shaped
<1>6. SoundNow(t)'
  BY <1>4, <1>5 DEF SoundNow, Sound
<1> QED
  BY <1>2, <1>3, <1>6

\* A page that the compressor closes pays for one more attempt.
LEMMA ProtectStep ==
  ASSUME Sized, SyscallInv, NEW t \in Threads, NEW a \in DOMAIN page[t], Protect(t, a)
  PROVE  Typed' /\ Apart(t) /\ SoundNow(t)'
<1>1. PICK p \in {"read", "none"} :
        /\ page[t][a] \in {"rw", "read"}
        /\ page' = [page EXCEPT ![t][a] = p]
  BY Zenon DEF Protect
<1>2. /\ closings' = [closings EXCEPT ![t] = IF @ < MaxAttempts THEN @ + 1 ELSE @]
      /\ calls' = calls /\ call' = call /\ pc' = pc /\ attempt' = attempt
      /\ result' = result /\ resolving' = resolving /\ resolved' = resolved
  BY Zenon DEF Protect
<1>3. pc[t] \notin {"idle", "done", "crashed"} /\ SoundNow(t)
  BY DEF Protect, SyscallInv
<1>4. /\ call[t] \in Names /\ call[t] # None /\ Shaped(call[t], page[t])
  BY <1>3 DEF SoundNow, Sound
<1> DEFINE d == Wrappers[call[t]]
           new == [page[t] EXCEPT ![a] = p]
<1>5. /\ closings[t] \in 0 .. MaxAttempts /\ attempt[t] \in 0 .. MaxAttempts
      /\ MaxAttempts \in Nat \ {0} /\ d.retry \in BOOLEAN
  BY <1>4 DEF SyscallInv, Typed, Sized
<1>6. page'[t] = new /\ closings'[t] = IF closings[t] < MaxAttempts THEN closings[t] + 1
                                       ELSE closings[t]
  BY <1>1, <1>2 DEF SyscallInv, Typed
<1>7. Shaped(call[t], new)
  BY <1>4 DEF Shaped, PageKinds, Protections
<1>8. Mapped(new) => Mapped(page[t])
  BY <1>1 DEF Mapped
<1> HIDE DEF new
<1>9. Typed'
  <2>1. closings' \in [Threads -> 0 .. MaxAttempts]
    BY <1>2, <1>5 DEF SyscallInv, Typed
  <2> QED
    BY <1>1, <1>2, <2>1 DEF SyscallInv, Typed
<1>10. Apart(t)
  BY <1>1, <1>2 DEF Apart, SyscallInv, Typed
<1>11. ASSUME Covered(d), Mapped(new)
       PROVE  Paid(d, pc[t], new, attempt[t], result[t], closings'[t])
  <2>1. Paid(d, pc[t], page[t], attempt[t], result[t], closings[t])
    BY <1>3, <1>4, <1>8, <1>11, Zenon DEF SoundNow, Sound
  <2>2. pc[t] # "done"
    BY <1>3
  <2>3. /\ attempt[t] <= closings[t] + 1 => attempt[t] <= closings'[t]
        /\ attempt[t] <= closings[t] => attempt[t] <= closings'[t]
        /\ closings'[t] >= 1
    BY <1>5, <1>6
  <2> HIDE DEF d
  <2> QED
    BY <1>5, <2>1, <2>2, <2>3 DEF Paid
<1>12. Sound(call[t], pc[t], new, attempt[t], result[t], closings'[t])
  <2>1. /\ pc[t] \in {"idle", "resolve", "claim", "dlsym", "before"} => attempt[t] = 0
        /\ pc[t] = "walk" => attempt[t] < MaxAttempts
    BY <1>3, Zenon DEF SoundNow, Sound
  <2> QED
    BY <1>4, <1>7, <1>11, <2>1, Zenon DEF Sound
<1>13. SoundNow(t)'
  BY <1>2, <1>6, <1>12, Zenon DEF SoundNow
<1> QED
  BY <1>9, <1>10, <1>13

-----------------------------------------------------------------------------
(* The theorems.                                                           *)

LEMMA SyscallInit ==
  ASSUME Sized, Init PROVE SyscallInv
<1>0. 0 \in 0 .. MaxAttempts /\ 0 \in 0 .. MaxCalls
  BY DEF Sized
<1>1. Typed
  BY <1>0, Zenon DEF Init, Typed, Places, Results
<1>2. ASSUME NEW t \in Threads PROVE SoundNow(t)
  <2>1. call[t] = None /\ pc[t] = "idle" /\ page[t] = <<>> /\ attempt[t] = 0
    BY DEF Init
  <2>2. Shaped(None, page[t])
    BY <2>1 DEF Shaped
  <2> QED
    BY <2>1, <2>2 DEF SoundNow, Sound
<1> QED
  BY <1>1, <1>2, Zenon DEF SyscallInv

LEMMA SyscallNext ==
  ASSUME Sized, Fits, SyscallInv, [Next]_vars PROVE SyscallInv'
<1>1. CASE Next
  <2>1. PICK t \in Threads : Enter(t) \/ Step(t) \/ \E a \in DOMAIN page[t] : Protect(t, a)
    BY <1>1, Zenon DEF Next
  <2>2. Typed' /\ Apart(t) /\ SoundNow(t)'
    BY <2>1, EnterStep, ResolveStep, BeforeStep, CallStep, WalkStep, ReturnStep, ProtectStep,
       Zenon DEF Step
  <2>3. ASSUME NEW q \in Threads \ {t} PROVE SoundNow(q)'
    BY <2>2, Zenon DEF Apart, SyscallInv, SoundNow
  <2> QED
    BY <2>2, <2>3, Zenon DEF SyscallInv
<1>2. CASE UNCHANGED vars
  BY <1>2, Zenon DEF vars, SyscallInv, Typed, SoundNow
<1> QED
  BY <1>1, <1>2, Zenon

\* The variables have their types: above all the attempts of a call never pass
\* MaxAttempts, however often its pages are closed (retryWithDecompress).
THEOREM SyscallsTyped == ASSUME Sized, Fits PROVE Spec => []TypeOK
<1>1. Init => SyscallInv
  BY SyscallInit
<1>2. SyscallInv /\ [Next]_vars => SyscallInv'
  BY SyscallNext
<1>3. SyscallInv => TypeOK
  BY DEF SyscallInv, Typed, TypeOK, SoundNow, Sound, Shaped, Places, Results
<1> QED
  BY <1>1, <1>2, <1>3, PTL DEF Spec

\* For any threads, any bound on the attempts and any table that fits: a
\* wrapper that covers its arguments reports EFAULT for mapped arguments only
\* after the compressor has closed one of their pages for every attempt
\* (retryWithDecompress), or once since the warming where nothing is retried.
THEOREM FaultsAreOutruns == ASSUME Sized, Fits PROVE Spec => []NoSpuriousFault
<1>1. Init => SyscallInv
  BY SyscallInit
<1>2. SyscallInv /\ [Next]_vars => SyscallInv'
  BY SyscallNext
<1>3. SyscallInv => NoSpuriousFault
  <2> SUFFICES ASSUME SyscallInv, NEW t \in Threads, pc[t] = "done", result[t] = "EFAULT",
                      Covered(Wrappers[call[t]]),
                      \A a \in DOMAIN page[t] : page[t][a] # "bad"
               PROVE  closings[t] >= IF Wrappers[call[t]].retry THEN MaxAttempts ELSE 1
    BY Zenon DEF NoSpuriousFault
  <2>1. Paid(Wrappers[call[t]], "done", page[t], attempt[t], "EFAULT", closings[t])
    BY Zenon DEF SyscallInv, SoundNow, Sound, Mapped
  <2> QED
    BY <2>1, Zenon DEF Paid
<1> QED
  BY <1>1, <1>2, <1>3, PTL DEF Spec

=============================================================================
