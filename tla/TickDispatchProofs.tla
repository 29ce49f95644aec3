------------------------- MODULE TickDispatchProofs -------------------------
(***************************************************************************)
(* Proofs about TickDispatch, for any number of helpers, any bound on the  *)
(* generations and any number of forks, whatever pthread_create, the 50 ms *)
(* cap of pauseForFork and adaptWorkerCount do.                            *)
(***************************************************************************)
EXTENDS TickDispatch, TLAPS

\* What config.h and adaptWorkerCount's clamp guarantee of the sizes.
Sized ==
  /\ MaxHelpers \in Nat
  /\ InitialWorkers \in 1..MaxHelpers + 1
  /\ WorkerCounts \subseteq 1..MaxHelpers + 1
  /\ MaxGen \in Nat
  /\ MaxForks \in Nat

\* A tick that was begun has room for the generations of its phases.
GenRoom ==
  /\ cpc = "check" => gen + 4 <= MaxGen
  /\ cpc \in {"tick", "run", "wait"} => gen + Len(left) <= MaxGen

\* The helpers that exist, and who may be left once stop() has joined them.
PoolInv ==
  /\ \A h \in Helpers : hpc[h] = "none" <=> h >= created
  /\ ~started => cpc = "none" /\ \A h \in Helpers : hpc[h] = "none"
  /\ JoinedMeansQuiet

\* A helper between seeing a generation and acknowledging it.
Busy(h) == hpc[h] \in {"decide", "run", "ack"}

\* The acknowledgements, and what they say of the work.
AckInv ==
  /\ \A h \in Helpers :
       /\ done[h] <= last[h] /\ last[h] <= gen
       /\ IF Busy(h) THEN done[h] < last[h] ELSE done[h] = last[h]
       /\ h + 1 < nw /\ last[h] = gen => hpc[h] \in {"decide", "run"} \/ worked[h] = gen
       /\ h + 1 < nw /\ cpc \notin {"run", "wait"} => done[h] = gen
  /\ cpc \in {"run", "wait"} /\ nw > 1 => active = nw

TickInv == TypeOK /\ GenRoom /\ PoolInv /\ AckInv

\* A helper owes an acknowledgement only for the generation being dispatched,
\* and one that executes a phase for that generation executes its phase.
CountInv ==
  \A h \in Helpers :
    /\ counted[h] <= gen
    /\ done[h] < counted[h] =>
         cpc \in {"run", "wait"} /\ counted[h] = gen /\ h + 1 < nw
    /\ hpc[h] = "run" /\ last[h] = gen => hphase[h] = phase

\* paused_ is set for as long as a thread is forking, in_tick_ for as long as
\* the coordinator is past it, and past the check nobody is forked.
ForkInv ==
  /\ paused <=> fpc # "idle"
  /\ inTick <=> cpc \in {"check", "tick", "run", "wait"}
  /\ fpc = "forked" => cpc \notin {"tick", "run", "wait"}

-----------------------------------------------------------------------------
(* Helper facts.                                                           *)

\* The empty sequence.
LEMMA NoPhases == <<>> \in Seq(Phases) /\ Len(<<>>) = 0
OBVIOUS

\* A tick has at most four phases.
LEMMA TickPhasesType == \A s \in TickPhases : s \in Seq(Phases) /\ Len(s) <= 4
<1>1. <<1>> \in Seq(Phases) /\ Len(<<1>>) = 1
  BY DEF Phases
<1>2. \A monitor \in {<<>>, <<3>>}, b \in {<<>>, <<4>>} :
        /\ <<1>> \o b \o <<2>> \o monitor \in Seq(Phases)
        /\ Len(<<1>> \o b \o <<2>> \o monitor) <= 4
  <2> TAKE monitor \in {<<>>, <<3>>}, b \in {<<>>, <<4>>}
  <2>0. /\ <<3>> \in Seq(Phases) /\ Len(<<3>>) = 1
        /\ <<4>> \in Seq(Phases) /\ Len(<<4>>) = 1
    BY DEF Phases
  <2>1. monitor \in Seq(Phases) /\ Len(monitor) <= 1
    <3>1. CASE monitor = <<>>
      BY <3>1, NoPhases
    <3>2. CASE monitor = <<3>>
      BY <2>0, <3>2
    <3> QED
      BY <3>1, <3>2, Zenon
  <2>2. b \in Seq(Phases) /\ Len(b) <= 1
    <3>1. CASE b = <<>>
      BY <3>1, NoPhases
    <3>2. CASE b = <<4>>
      BY <2>0, <3>2
    <3> QED
      BY <3>1, <3>2, Zenon
  <2>3. <<1>> \o b \in Seq(Phases) /\ Len(<<1>> \o b) <= 2
    BY <1>1, <2>2
  <2>4. <<2>> \in Seq(Phases) /\ Len(<<2>>) = 1
    BY DEF Phases
  <2>5. <<1>> \o b \o <<2>> \in Seq(Phases) /\ Len(<<1>> \o b \o <<2>>) <= 3
    BY <2>3, <2>4
  <2> QED
    BY <2>1, <2>5
<1> QED
  BY <1>1, <1>2, SMT, SMTT(30) DEF TickPhases

-----------------------------------------------------------------------------
(* The barrier and the joins, for a pool of any size that changes at will. *)

\* The initial states satisfy the invariant.
LEMMA TickInit == Sized /\ Init => TickInv
<1> SUFFICES ASSUME Sized, Init PROVE TickInv
  OBVIOUS
<1>1. TypeOK
  <2>1. left \in Seq(Phases) /\ Len(left) <= 4
    BY NoPhases DEF Init
  <2>2. 0 \in 0..MaxGen /\ 0 \in 0..MaxForks /\ 0 \in 0..MaxHelpers /\ 1 \in 1..MaxHelpers + 1
    BY DEF Sized
  <2> QED
    BY <2>1, <2>2, Zenon DEF Sized, Init, TypeOK
<1>2. GenRoom
  BY Zenon DEF Init, GenRoom
<1>3. PoolInv
  BY DEF Sized, Init, PoolInv, JoinedMeansQuiet, Helpers
<1>4. AckInv
  BY DEF Sized, Init, AckInv, Busy, Helpers
<1> QED
  BY <1>1, <1>2, <1>3, <1>4, Zenon DEF TickInv

\* Every step keeps the types, and the room a tick has for its generations.
LEMMA TypeStep ==
  ASSUME Sized, TickInv, [Next]_vars PROVE (TypeOK /\ GenRoom)'
<1> USE DEF flags, pool, coord, helpers, control
<1>0. Sized /\ TypeOK /\ GenRoom
  BY Zenon DEF TickInv
<1>1. ASSUME Start PROVE (TypeOK /\ GenRoom)'
  <2>1. created' \in 0..MaxHelpers
    BY <1>0, <1>1 DEF Start, Sized
  <2>2. hpc' \in [Helpers -> {"none", "poll", "decide", "run", "ack", "exited"}]
    BY <1>1, Zenon DEF Start
  <2>3. started' \in BOOLEAN /\ running' \in BOOLEAN /\ cpc' \in {"sleep", "none"}
    BY <1>1, Zenon DEF Start
  <2> QED
    BY <1>0, <1>1, <2>1, <2>2, <2>3, Zenon DEF Start, TypeOK, GenRoom
<1>2. ASSUME CoordExit PROVE (TypeOK /\ GenRoom)'
  BY <1>0, <1>2, Zenon DEF TypeOK, GenRoom, CoordExit
<1>3. ASSUME CoordWake PROVE (TypeOK /\ GenRoom)'
  BY <1>0, <1>3, Zenon DEF TypeOK, GenRoom, CoordWake
<1>4. ASSUME CoordCheck PROVE (TypeOK /\ GenRoom)'
  <2>1. CASE paused
    BY <1>0, <1>4, <2>1, Zenon DEF TypeOK, GenRoom, CoordCheck
  <2>2. CASE ~paused
    <3>1. left' \in Seq(Phases) /\ Len(left') <= 4 /\ Len(left') \in Nat
      BY <1>4, <2>2, TickPhasesType DEF CoordCheck
    <3> QED
      BY <1>0, <1>4, <2>2, <3>1 DEF Sized, TypeOK, GenRoom, CoordCheck
  <2> QED
    BY <2>1, <2>2, Zenon
<1>5. ASSUME Dispatch PROVE (TypeOK /\ GenRoom)'
  <2>0. /\ cpc = "tick" /\ left # <<>> /\ left' = Tail(left)
        /\ gen' = gen + 1 \/ gen' = gen
        /\ phase' = Head(left) \/ phase' = phase
        /\ nw' = active \/ nw' = 1
    BY <1>5, Zenon DEF Dispatch
  <2>1. /\ gen \in 0..MaxGen /\ phase \in Phases \cup {0} /\ active \in 1..MaxHelpers + 1
        /\ left \in Seq(Phases) /\ MaxGen \in Nat /\ MaxHelpers \in Nat
    BY <1>0, Zenon DEF TypeOK, Sized
  <2>2. left' \in Seq(Phases) /\ Len(left') = Len(left) - 1 /\ Head(left) \in Phases
    BY <2>0, <2>1
  <2>3. gen + Len(left) <= MaxGen /\ Len(left) \in Nat
    BY <1>0, <2>0, <2>1 DEF GenRoom
  <2>4. gen' \in 0..MaxGen /\ gen' + Len(left') <= MaxGen
    <3>1. Len(left) > 0
      BY <2>0, <2>1
    <3> QED
      BY <2>0, <2>1, <2>2, <2>3, <3>1
  <2>5. phase' \in Phases \cup {0} /\ nw' \in 1..MaxHelpers + 1
    BY <2>0, <2>1, <2>2
  <2>6. counted' \in [Helpers -> 0..MaxGen]
    <3>1. CASE UNCHANGED counted
      BY <1>0, <3>1, Zenon DEF TypeOK
    <3>2. CASE /\ gen' = gen + 1
               /\ counted' = [h \in Helpers |-> IF h + 1 < active THEN gen + 1 ELSE counted[h]]
      BY <1>0, <2>4, <3>2, Zenon DEF TypeOK
    <3> QED
      BY <1>5, <3>1, <3>2, Zenon DEF Dispatch
  <2>7. cpc' = "run" /\ UNCHANGED <<flags, active, created, hpc, last, hphase, worked, done, control>>
    BY <1>5, Zenon DEF Dispatch
  <2>8. Len(left') <= 4
    BY <1>0, <2>2, <2>3 DEF TypeOK
  <2> QED
    BY <1>0, <2>2, <2>4, <2>5, <2>6, <2>7, <2>8, ZenonT(40) DEF TypeOK, GenRoom
<1>6. ASSUME RunOwnRange PROVE (TypeOK /\ GenRoom)'
  BY <1>0, <1>6, Zenon DEF TypeOK, GenRoom, RunOwnRange
<1>7. ASSUME AwaitHelpers PROVE (TypeOK /\ GenRoom)'
  BY <1>0, <1>7, Zenon DEF TypeOK, GenRoom, AwaitHelpers
<1>8. ASSUME EndTick PROVE (TypeOK /\ GenRoom)'
  <2>1. PICK n \in WorkerCounts, more \in 0..MaxHelpers :
          /\ created' = more
          /\ hpc' = [h \in Helpers |-> IF h \in created..more - 1 THEN "poll" ELSE hpc[h]]
          /\ active' = IF n > more + 1 THEN more + 1 ELSE n
    BY <1>8, Zenon DEF EndTick
  <2>2. active' \in 1..MaxHelpers + 1 /\ created' \in 0..MaxHelpers
    BY <1>0, <2>1 DEF Sized
  <2>3. hpc' \in [Helpers -> {"none", "poll", "decide", "run", "ack", "exited"}]
    BY <1>0, <2>1, Zenon DEF TypeOK
  <2> QED
    BY <1>0, <1>8, <2>2, <2>3, Zenon DEF EndTick, TypeOK, GenRoom
<1>9. ASSUME NEW h \in Helpers, HelperExit(h) PROVE (TypeOK /\ GenRoom)'
  BY <1>0, <1>9, SMT, SMTT(30) DEF TypeOK, GenRoom, HelperExit
<1>10. ASSUME NEW h \in Helpers, HelperSees(h) PROVE (TypeOK /\ GenRoom)'
  BY <1>0, <1>10, SMT, SMTT(30) DEF TypeOK, GenRoom, HelperSees
<1>11. ASSUME NEW h \in Helpers, HelperDecides(h) PROVE (TypeOK /\ GenRoom)'
  BY <1>0, <1>11, ZenonT(40) DEF TypeOK, GenRoom, HelperDecides
<1>12. ASSUME NEW h \in Helpers, HelperRuns(h) PROVE (TypeOK /\ GenRoom)'
  BY <1>0, <1>12, SMT, SMTT(30) DEF TypeOK, GenRoom, HelperRuns
<1>13. ASSUME NEW h \in Helpers, HelperAcks(h) PROVE (TypeOK /\ GenRoom)'
  BY <1>0, <1>13, SMT, SMTT(30) DEF TypeOK, GenRoom, HelperAcks
<1>14. ASSUME ForkPrepare PROVE (TypeOK /\ GenRoom)'
  BY <1>0, <1>14, Zenon DEF TypeOK, GenRoom, ForkPrepare
<1>15. ASSUME ForkProceeds PROVE (TypeOK /\ GenRoom)'
  BY <1>0, <1>15, Zenon DEF TypeOK, GenRoom, ForkProceeds
<1>16. ASSUME ForkParent PROVE (TypeOK /\ GenRoom)'
  BY <1>0, <1>16, Zenon DEF TypeOK, GenRoom, ForkParent
<1>17. ASSUME ForkChild PROVE (TypeOK /\ GenRoom)'
  <2>1. forks' \in 0..MaxForks
    BY <1>0, <1>17 DEF ForkChild, TypeOK, Sized
  <2>2. left' \in Seq(Phases) /\ Len(left') <= 4
    BY <1>17, NoPhases DEF ForkChild
  <2>3. 0 \in 0..MaxGen /\ 0 \in 0..MaxHelpers /\ 1 \in 1..MaxHelpers + 1
    BY <1>0 DEF Sized
  <2> QED
    BY <1>0, <1>17, <2>1, <2>2, <2>3, Zenon DEF ForkChild, Sized, TypeOK, GenRoom
<1>18. ASSUME StopCalled PROVE (TypeOK /\ GenRoom)'
  BY <1>0, <1>18, Zenon DEF TypeOK, GenRoom, StopCalled
<1>19. ASSUME StopJoins PROVE (TypeOK /\ GenRoom)'
  BY <1>0, <1>19, Zenon DEF TypeOK, GenRoom, StopJoins
<1>u. CASE UNCHANGED vars
  BY <1>0, <1>u DEF vars, TypeOK, GenRoom
<1> QED
  BY <1>1, <1>2, <1>3, <1>4, <1>5, <1>6, <1>7, <1>8, <1>9, <1>10, <1>11,
     <1>12, <1>13, <1>14, <1>15, <1>16, <1>17, <1>18, <1>19, <1>u, Zenon
     DEF Next, CoordStep, HelperStep, ForkStep

\* Every step keeps the helpers that exist below created, and no thread comes
\* back once stop() has joined them.
LEMMA PoolStep ==
  ASSUME Sized, TickInv, [Next]_vars PROVE PoolInv'
<1> USE DEF flags, pool, coord, helpers, control
<1>0. Sized /\ TypeOK /\ PoolInv
  BY Zenon DEF TickInv
<1>1. ASSUME Start PROVE PoolInv'
  BY <1>0, <1>1 DEF TypeOK, Sized, Helpers, PoolInv, JoinedMeansQuiet, Start
<1>2. ASSUME CoordExit PROVE PoolInv'
  BY <1>0, <1>2, Zenon DEF TypeOK, PoolInv, JoinedMeansQuiet, CoordExit
<1>3. ASSUME CoordWake PROVE PoolInv'
  BY <1>0, <1>3, Zenon DEF TypeOK, PoolInv, JoinedMeansQuiet, CoordWake
<1>4. ASSUME CoordCheck PROVE PoolInv'
  BY <1>0, <1>4, Zenon DEF TypeOK, PoolInv, JoinedMeansQuiet, CoordCheck
<1>5. ASSUME Dispatch PROVE PoolInv'
  BY <1>0, <1>5, Zenon DEF TypeOK, PoolInv, JoinedMeansQuiet, Dispatch
<1>6. ASSUME RunOwnRange PROVE PoolInv'
  BY <1>0, <1>6, Zenon DEF TypeOK, PoolInv, JoinedMeansQuiet, RunOwnRange
<1>7. ASSUME AwaitHelpers PROVE PoolInv'
  BY <1>0, <1>7, Zenon DEF TypeOK, PoolInv, JoinedMeansQuiet, AwaitHelpers
<1>8. ASSUME EndTick PROVE PoolInv'
  <2>1. PICK more \in 0..MaxHelpers :
          /\ more >= created /\ created' = more
          /\ hpc' = [h \in Helpers |-> IF h \in created..more - 1 THEN "poll" ELSE hpc[h]]
    BY <1>8, Zenon DEF EndTick
  <2>2. \A h \in Helpers : hpc'[h] = "none" <=> h >= created'
    BY <1>0, <2>1 DEF PoolInv, TypeOK, Sized, Helpers
  <2>3. started
    BY <1>0, <1>8, Zenon DEF EndTick, PoolInv
  <2> QED
    BY <1>0, <1>8, <2>2, <2>3, Zenon DEF EndTick, PoolInv, JoinedMeansQuiet
<1>9. ASSUME NEW h \in Helpers, HelperExit(h) PROVE PoolInv'
  BY <1>0, <1>9, Zenon DEF TypeOK, PoolInv, JoinedMeansQuiet, HelperExit
<1>10. ASSUME NEW h \in Helpers, HelperSees(h) PROVE PoolInv'
  BY <1>0, <1>10, Zenon DEF TypeOK, PoolInv, JoinedMeansQuiet, HelperSees
<1>11. ASSUME NEW h \in Helpers, HelperDecides(h) PROVE PoolInv'
  BY <1>0, <1>11, Zenon DEF TypeOK, PoolInv, JoinedMeansQuiet, HelperDecides
<1>12. ASSUME NEW h \in Helpers, HelperRuns(h) PROVE PoolInv'
  BY <1>0, <1>12, Zenon DEF TypeOK, PoolInv, JoinedMeansQuiet, HelperRuns
<1>13. ASSUME NEW h \in Helpers, HelperAcks(h) PROVE PoolInv'
  BY <1>0, <1>13, Zenon DEF TypeOK, PoolInv, JoinedMeansQuiet, HelperAcks
<1>14. ASSUME ForkPrepare PROVE PoolInv'
  BY <1>0, <1>14, Zenon DEF TypeOK, PoolInv, JoinedMeansQuiet, ForkPrepare
<1>15. ASSUME ForkProceeds PROVE PoolInv'
  BY <1>0, <1>15, Zenon DEF TypeOK, PoolInv, JoinedMeansQuiet, ForkProceeds
<1>16. ASSUME ForkParent PROVE PoolInv'
  BY <1>0, <1>16, Zenon DEF TypeOK, PoolInv, JoinedMeansQuiet, ForkParent
<1>17. ASSUME ForkChild PROVE PoolInv'
  BY <1>0, <1>17 DEF Sized, Helpers, PoolInv, JoinedMeansQuiet, ForkChild
<1>18. ASSUME StopCalled PROVE PoolInv'
  BY <1>0, <1>18, Zenon DEF TypeOK, PoolInv, JoinedMeansQuiet, StopCalled
<1>19. ASSUME StopJoins PROVE PoolInv'
  <2>1. \A h \in Helpers : hpc[h] \in {"none", "exited"}
    BY <1>0, <1>19 DEF StopJoins, PoolInv, TypeOK, Helpers, Sized
  <2>2. cpc = "exited" /\ UNCHANGED <<cpc, hpc, created, started>>
    BY <1>19, Zenon DEF StopJoins
  <2> QED
    BY <1>0, <2>1, <2>2, Zenon DEF PoolInv, JoinedMeansQuiet
<1>u. CASE UNCHANGED vars
  BY <1>0, <1>u, Zenon DEF vars, PoolInv, JoinedMeansQuiet
<1> QED
  BY <1>1, <1>2, <1>3, <1>4, <1>5, <1>6, <1>7, <1>8, <1>9, <1>10, <1>11,
     <1>12, <1>13, <1>14, <1>15, <1>16, <1>17, <1>18, <1>19, <1>u, Zenon
     DEF Next, CoordStep, HelperStep, ForkStep

\* Every step keeps the acknowledgements true: a generation that a counted helper
\* has acknowledged is one whose share it has done.
LEMMA AckStep ==
  ASSUME Sized, TickInv, [Next]_vars PROVE AckInv'
<1> USE DEF flags, pool, coord, helpers, control
<1>0. Sized /\ TypeOK /\ PoolInv /\ AckInv
  BY Zenon DEF TickInv
<1>1. ASSUME Start PROVE AckInv'
  <2>1. cpc = "none" /\ cpc' \in {"none", "sleep"}
    BY <1>0, <1>1, Zenon DEF Start, PoolInv
  <2>2. \A h \in Helpers : hpc[h] = "none" /\ hpc'[h] \in {"none", "poll"}
    BY <1>0, <1>1, Zenon DEF Start, PoolInv
  <2>3. UNCHANGED <<done, last, gen, nw, worked, active>>
    BY <1>1, Zenon DEF Start
  <2> QED
    BY <1>0, <2>1, <2>2, <2>3, Zenon DEF AckInv, Busy
<1>2. ASSUME CoordExit PROVE AckInv'
  BY <1>0, <1>2, Zenon DEF TypeOK, Sized, Helpers, AckInv, Busy, CoordExit
<1>3. ASSUME CoordWake PROVE AckInv'
  BY <1>0, <1>3, Zenon DEF TypeOK, Sized, Helpers, AckInv, Busy, CoordWake
<1>4. ASSUME CoordCheck PROVE AckInv'
  BY <1>0, <1>4, Zenon DEF AckInv, Busy, CoordCheck
<1>5. ASSUME Dispatch PROVE AckInv'
  <2>1. cpc' = "run" /\ UNCHANGED <<active, done, last, hpc, worked>>
    BY <1>5, Zenon DEF Dispatch
  <2>2. \A h \in Helpers : Busy(h)' <=> Busy(h)
    BY <2>1, Zenon DEF Busy
  <2>3. CASE nw' = active /\ gen' = gen + 1
    <3>1. \A h \in Helpers : last[h] # gen' /\ last[h] <= gen'
      BY <1>0, <2>3 DEF TypeOK, AckInv
    <3> QED
      BY <1>0, <2>1, <2>2, <2>3, <3>1, Zenon DEF AckInv
  <2>4. CASE nw' = 1 /\ gen' = gen
    <3>1. \A h \in Helpers : ~(h + 1 < nw')
      BY <1>0, <2>4 DEF Helpers, Sized
    <3> QED
      BY <1>0, <2>1, <2>2, <2>4, <3>1 DEF AckInv
  <2> QED
    BY <1>5, <2>3, <2>4, Zenon DEF Dispatch
<1>6. ASSUME RunOwnRange PROVE AckInv'
  BY <1>0, <1>6 DEF TypeOK, Sized, Helpers, AckInv, Busy, RunOwnRange
<1>7. ASSUME AwaitHelpers PROVE AckInv'
  BY <1>0, <1>7 DEF TypeOK, Sized, Helpers, AckInv, Busy, AwaitHelpers
<1>8. ASSUME EndTick PROVE AckInv'
  <2>1. PICK more \in 0..MaxHelpers :
          hpc' = [h \in Helpers |-> IF h \in created..more - 1 THEN "poll" ELSE hpc[h]]
    BY <1>8, Zenon DEF EndTick
  <2>2. \A h \in Helpers : h \in created..more - 1 => hpc[h] = "none"
    BY <1>0 DEF PoolInv, TypeOK, Helpers, Sized
  <2>3. \A h \in Helpers : hpc'[h] # hpc[h] => hpc[h] = "none" /\ hpc'[h] = "poll"
    BY <2>1, <2>2, Zenon
  <2>4. \A h \in Helpers : Busy(h)' <=> Busy(h)
    BY <2>3, Zenon DEF Busy
  <2>5. \A h \in Helpers : hpc[h] \in {"decide", "run"} => hpc'[h] \in {"decide", "run"}
    BY <2>3, Zenon
  <2> QED
    BY <1>0, <1>8, <2>4, <2>5, Zenon DEF EndTick, AckInv
<1>9. ASSUME NEW h \in Helpers, HelperExit(h) PROVE AckInv'
  BY <1>0, <1>9, Zenon DEF TypeOK, Sized, Helpers, AckInv, Busy, HelperExit
<1>10. ASSUME NEW h \in Helpers, HelperSees(h) PROVE AckInv'
  BY <1>0, <1>10 DEF TypeOK, Sized, Helpers, AckInv, Busy, HelperSees
<1>11. ASSUME NEW h \in Helpers, HelperDecides(h) PROVE AckInv'
  <2>1. UNCHANGED <<done, last, worked, gen, nw, active, cpc>>
    BY <1>11, Zenon DEF HelperDecides
  <2>2. Busy(h) /\ Busy(h)' /\ \A i \in Helpers : i # h => hpc'[i] = hpc[i]
    BY <1>0, <1>11, Zenon DEF HelperDecides, Busy, TypeOK
  <2>3. h + 1 < nw /\ last[h] = gen => hpc'[h] = "run"
    <3> SUFFICES ASSUME h + 1 < nw, last[h] = gen PROVE hpc'[h] = "run"
      OBVIOUS
    <3>1. done[h] < gen
      BY <1>0, <2>2, Zenon DEF AckInv
    <3>2. cpc \in {"run", "wait"}
      BY <1>0, <3>1 DEF AckInv, TypeOK
    <3>3. nw > 1
      BY <1>0 DEF Helpers, Sized, TypeOK
    <3>4. h + 1 < active
      BY <1>0, <3>2, <3>3, Zenon DEF AckInv
    <3> QED
      BY <1>0, <1>11, <3>4, Zenon DEF HelperDecides, TypeOK
  <2>4. \A i \in Helpers : Busy(i)' <=> Busy(i)
    BY <2>2, Zenon DEF Busy
  <2> QED
    BY <1>0, <2>1, <2>2, <2>3, <2>4, Zenon DEF AckInv
<1>12. ASSUME NEW h \in Helpers, HelperRuns(h) PROVE AckInv'
  BY <1>0, <1>12, Zenon DEF TypeOK, Sized, Helpers, AckInv, Busy, HelperRuns
<1>13. ASSUME NEW h \in Helpers, HelperAcks(h) PROVE AckInv'
  <2>1. UNCHANGED <<last, worked, gen, nw, active, cpc>>
    BY <1>13, Zenon DEF HelperAcks
  <2>2. \A i \in Helpers : i # h => hpc'[i] = hpc[i] /\ done'[i] = done[i]
    BY <1>0, <1>13, Zenon DEF HelperAcks, TypeOK
  <2>3. /\ hpc[h] = "ack" /\ hpc'[h] = "poll" /\ done'[h] = last[h]
        /\ last[h] \in Nat /\ done[h] \in Nat /\ gen \in Nat
    BY <1>0, <1>13 DEF HelperAcks, TypeOK, Sized
  <2>4. done[h] < last[h] /\ last[h] <= gen
    BY <1>0, <2>3, Zenon DEF AckInv, Busy
  <2>5. \A i \in Helpers : i # h => (Busy(i)' <=> Busy(i))
    BY <2>2, Zenon DEF Busy
  <2>6. h + 1 < nw /\ cpc \notin {"run", "wait"} => FALSE
    BY <1>0, <2>3, <2>4 DEF AckInv
  <2> QED
    BY <1>0, <2>1, <2>2, <2>3, <2>4, <2>5, <2>6 DEF AckInv, Busy
<1>14. ASSUME ForkPrepare PROVE AckInv'
  BY <1>0, <1>14, Zenon DEF TypeOK, Sized, Helpers, AckInv, Busy, ForkPrepare
<1>15. ASSUME ForkProceeds PROVE AckInv'
  BY <1>0, <1>15, Zenon DEF TypeOK, Sized, Helpers, AckInv, Busy, ForkProceeds
<1>16. ASSUME ForkParent PROVE AckInv'
  BY <1>0, <1>16, Zenon DEF TypeOK, Sized, Helpers, AckInv, Busy, ForkParent
<1>17. ASSUME ForkChild PROVE AckInv'
  BY <1>0, <1>17 DEF Sized, TypeOK, Helpers, AckInv, Busy, ForkChild
<1>18. ASSUME StopCalled PROVE AckInv'
  BY <1>0, <1>18, Zenon DEF TypeOK, Sized, Helpers, AckInv, Busy, StopCalled
<1>19. ASSUME StopJoins PROVE AckInv'
  BY <1>0, <1>19, Zenon DEF TypeOK, Sized, Helpers, AckInv, Busy, StopJoins
<1>u. CASE UNCHANGED vars
  BY <1>0, <1>u, Zenon DEF vars, AckInv, Busy
<1> QED
  BY <1>1, <1>2, <1>3, <1>4, <1>5, <1>6, <1>7, <1>8, <1>9, <1>10, <1>11,
     <1>12, <1>13, <1>14, <1>15, <1>16, <1>17, <1>18, <1>19, <1>u, Zenon
     DEF Next, CoordStep, HelperStep, ForkStep

\* The invariant holds in every reachable state.
THEOREM Barrier == ASSUME Sized PROVE Spec => []TickInv
<1>1. Init => TickInv
  BY TickInit, Zenon
<1>2. TickInv /\ [Next]_vars => TickInv'
  BY TypeStep, PoolStep, AckStep, Zenon DEF TickInv
<1> QED
  BY <1>1, <1>2, PTL DEF Spec

\* Every variable of the dispatch keeps its type: no generation is handed out
\* beyond the bound, and the worker count stays within the pool (dispatch,
\* adaptWorkerCount, resetForFork).
THEOREM TickTyped == ASSUME Sized PROVE Spec => []TypeOK
<1>1. TickInv => TypeOK
  BY Zenon DEF TickInv
<1> QED
  BY <1>1, Barrier, PTL

\* When the coordinator leaves a dispatch every helper counted in it has done
\* its range for this generation, however the pool was resized before, whatever
\* threads could not be made, and in a forked child (dispatch, helperEntry).
THEOREM SharesDone == ASSUME Sized PROVE Spec => []EveryShareDone
<1>1. TickInv => EveryShareDone
  <2> SUFFICES ASSUME TickInv, cpc = "tick", NEW h \in Helpers, h + 1 < nw
               PROVE  worked[h] = gen
    BY Zenon DEF EveryShareDone
  <2>1. done[h] = gen /\ done[h] <= last[h] /\ last[h] <= gen
    BY Zenon DEF TickInv, AckInv
  <2>2. last[h] = gen
    BY <2>1 DEF TickInv, TypeOK
  <2>3. ~Busy(h)
    BY <2>1, <2>2 DEF TickInv, AckInv, TypeOK
  <2> QED
    BY <2>2, <2>3, Zenon DEF TickInv, AckInv, Busy
<1> QED
  BY <1>1, Barrier, PTL

\* Once stop() has joined the threads, none of the compressor is left and none
\* comes back (stop, adaptWorkerCount, start).
THEOREM StopLeavesNobody == ASSUME Sized PROVE Spec => []JoinedMeansQuiet
<1>1. TickInv => JoinedMeansQuiet
  BY Zenon DEF TickInv, PoolInv
<1> QED
  BY <1>1, Barrier, PTL

-----------------------------------------------------------------------------
(* The helpers a dispatch counts.                                          *)

\* A step that leaves the dispatch and the helpers alone keeps CountInv.
LEMMA CountFrame ==
  ASSUME CountInv, UNCHANGED <<gen, phase, nw, counted, done, last, hphase>>,
         \A h \in Helpers : hpc'[h] = "run" => hpc[h] = "run",
         cpc \in {"run", "wait"} => cpc' \in {"run", "wait"}
  PROVE  CountInv'
BY ZenonT(40) DEF CountInv

\* Every step keeps the helpers a dispatch counts in step with it.
LEMMA CountStep ==
  ASSUME Sized, TickInv, CountInv, [Next]_vars PROVE CountInv'
<1> USE DEF flags, pool, coord, helpers, control
<1>0. Sized /\ TypeOK /\ PoolInv /\ AckInv /\ CountInv
  BY Zenon DEF TickInv
<1>1. ASSUME Start PROVE CountInv'
  <2>1. cpc = "none" /\ \A h \in Helpers : hpc'[h] \in {"none", "poll"}
    BY <1>0, <1>1, Zenon DEF Start, PoolInv
  <2>2. UNCHANGED <<gen, phase, nw, counted, done, last, hphase>>
    BY <1>1, Zenon DEF Start
  <2> QED
    BY <1>0, <2>1, <2>2, CountFrame, Zenon
<1>2. ASSUME CoordExit PROVE CountInv'
  BY <1>0, <1>2, CountFrame, Zenon DEF CoordExit
<1>3. ASSUME CoordWake PROVE CountInv'
  BY <1>0, <1>3, CountFrame, Zenon DEF CoordWake
<1>4. ASSUME CoordCheck PROVE CountInv'
  BY <1>0, <1>4, CountFrame, Zenon DEF CoordCheck
<1>5. ASSUME Dispatch PROVE CountInv'
  <2>1. cpc' = "run" /\ UNCHANGED <<active, done, last, hpc, hphase>> /\ cpc = "tick"
    BY <1>5, Zenon DEF Dispatch
  <2>2. \A h \in Helpers : ~(done[h] < counted[h])
    BY <1>0, <2>1, Zenon DEF CountInv
  <2>3. CASE UNCHANGED <<phase, gen, counted>>
    BY <1>0, <2>1, <2>2, <2>3, ZenonT(40) DEF CountInv
  <2>4. CASE /\ nw' = active /\ gen' = gen + 1
             /\ counted' = [h \in Helpers |-> IF h + 1 < active THEN gen + 1 ELSE counted[h]]
    <3> SUFFICES ASSUME NEW h \in Helpers
                 PROVE  /\ counted'[h] <= gen'
                        /\ done'[h] < counted'[h] =>
                             cpc' \in {"run", "wait"} /\ counted'[h] = gen' /\ h + 1 < nw'
                        /\ hpc'[h] = "run" /\ last'[h] = gen' => hphase'[h] = phase'
      BY Zenon DEF CountInv
    <3>1. last[h] # gen + 1 /\ counted[h] <= gen + 1 /\ gen + 1 <= gen + 1
      BY <1>0 DEF AckInv, CountInv, TypeOK
    <3>2. counted'[h] = IF h + 1 < active THEN gen + 1 ELSE counted[h]
      BY <2>4, Zenon
    <3> QED
      BY <2>1, <2>2, <2>4, <3>1, <3>2, Zenon
  <2> QED
    BY <1>5, <2>3, <2>4, Zenon DEF Dispatch
<1>6. ASSUME RunOwnRange PROVE CountInv'
  <2>1. cpc' \in {"run", "wait"} \/ ~(nw > 1)
    BY <1>6, Zenon DEF RunOwnRange
  <2>2. UNCHANGED <<gen, phase, nw, counted, done, last, hphase, hpc>>
    BY <1>6, Zenon DEF RunOwnRange
  <2>3. \A h \in Helpers : h + 1 < nw => nw > 1
    BY <1>0 DEF TypeOK, Helpers, Sized
  <2> QED
    BY <1>0, <2>1, <2>2, <2>3, ZenonT(40) DEF CountInv
<1>7. ASSUME AwaitHelpers PROVE CountInv'
  <2>1. UNCHANGED <<gen, phase, nw, counted, done, last, hphase, hpc>>
    BY <1>7, Zenon DEF AwaitHelpers
  <2>2. \A h \in Helpers : h + 1 < nw => done[h] >= gen
    BY <1>7, Zenon DEF AwaitHelpers
  <2>3. \A h \in Helpers : done[h] >= gen => ~(done[h] < gen)
    BY <1>0 DEF TypeOK
  <2>4. \A h \in Helpers : ~(done[h] < counted[h])
    BY <1>0, <2>2, <2>3, Zenon DEF CountInv
  <2> QED
    BY <1>0, <2>1, <2>4, ZenonT(40) DEF CountInv
<1>8. ASSUME EndTick PROVE CountInv'
  <2>1. \A h \in Helpers : hpc'[h] = "run" => hpc[h] = "run"
    BY <1>8, Zenon DEF EndTick
  <2>2. cpc = "tick" /\ UNCHANGED <<gen, phase, nw, counted, done, last, hphase>>
    BY <1>8, Zenon DEF EndTick
  <2> QED
    BY <1>0, <2>1, <2>2, CountFrame, Zenon
<1>9. ASSUME NEW h \in Helpers, HelperExit(h) PROVE CountInv'
  BY <1>0, <1>9, CountFrame, Zenon DEF HelperExit, TypeOK
<1>10. ASSUME NEW h \in Helpers, HelperSees(h) PROVE CountInv'
  <2>1. UNCHANGED <<gen, phase, nw, counted, done, hphase, cpc>>
    BY <1>10, Zenon DEF HelperSees
  <2>2. /\ hpc'[h] = "decide"
        /\ \A i \in Helpers : i # h => hpc'[i] = hpc[i] /\ last'[i] = last[i]
    BY <1>0, <1>10, Zenon DEF HelperSees, TypeOK
  <2> QED
    BY <1>0, <2>1, <2>2, ZenonT(40) DEF CountInv
<1>11. ASSUME NEW h \in Helpers, HelperDecides(h) PROVE CountInv'
  <2>1. UNCHANGED <<gen, phase, nw, counted, done, last, cpc>>
    BY <1>11, Zenon DEF HelperDecides
  <2>2. /\ hpc'[h] = "run" => hphase'[h] = phase
        /\ \A i \in Helpers : i # h => hpc'[i] = hpc[i] /\ hphase'[i] = hphase[i]
    BY <1>0, <1>11, ZenonT(40) DEF HelperDecides, TypeOK
  <2> QED
    BY <1>0, <2>1, <2>2, ZenonT(40) DEF CountInv
<1>12. ASSUME NEW h \in Helpers, HelperRuns(h) PROVE CountInv'
  BY <1>0, <1>12, CountFrame, Zenon DEF HelperRuns, TypeOK
<1>13. ASSUME NEW h \in Helpers, HelperAcks(h) PROVE CountInv'
  <2>1. UNCHANGED <<gen, phase, nw, counted, last, hphase, cpc>>
    BY <1>13, Zenon DEF HelperAcks
  <2>2. /\ hpc[h] = "ack" /\ hpc'[h] = "poll" /\ done'[h] = last[h]
        /\ \A i \in Helpers : i # h => hpc'[i] = hpc[i] /\ done'[i] = done[i]
    BY <1>0, <1>13, Zenon DEF HelperAcks, TypeOK
  <2>3. done[h] < last[h]
    BY <1>0, <2>2, Zenon DEF AckInv, Busy
  <2>4. done'[h] < counted[h] => done[h] < counted[h]
    BY <1>0, <2>2, <2>3 DEF TypeOK
  <2> QED
    BY <1>0, <2>1, <2>2, <2>4, ZenonT(40) DEF CountInv
<1>14. ASSUME ForkPrepare PROVE CountInv'
  BY <1>0, <1>14, CountFrame, Zenon DEF ForkPrepare
<1>15. ASSUME ForkProceeds PROVE CountInv'
  BY <1>0, <1>15, CountFrame, Zenon DEF ForkProceeds
<1>16. ASSUME ForkParent PROVE CountInv'
  BY <1>0, <1>16, CountFrame, Zenon DEF ForkParent
<1>17. ASSUME ForkChild PROVE CountInv'
  <2>1. \A h \in Helpers : counted'[h] = 0 /\ done'[h] = 0 /\ hpc'[h] = "none"
    BY <1>17, Zenon DEF ForkChild
  <2>2. gen' = 0 /\ 0 <= 0 /\ ~(0 < 0)
    BY <1>17 DEF ForkChild
  <2> QED
    BY <2>1, <2>2, Zenon DEF CountInv
<1>18. ASSUME StopCalled PROVE CountInv'
  BY <1>0, <1>18, CountFrame, Zenon DEF StopCalled
<1>19. ASSUME StopJoins PROVE CountInv'
  BY <1>0, <1>19, CountFrame, Zenon DEF StopJoins
<1>u. CASE UNCHANGED vars
  BY <1>0, <1>u, CountFrame, Zenon DEF vars
<1> QED
  BY <1>1, <1>2, <1>3, <1>4, <1>5, <1>6, <1>7, <1>8, <1>9, <1>10, <1>11,
     <1>12, <1>13, <1>14, <1>15, <1>16, <1>17, <1>18, <1>19, <1>u, Zenon
     DEF Next, CoordStep, HelperStep, ForkStep

\* The helpers a dispatch counts stay in step with it in every reachable state.
THEOREM Steadiness == ASSUME Sized PROVE Spec => [](TickInv /\ CountInv)
<1>1. Init => CountInv
  BY DEF Sized, Init, CountInv, Helpers
<1>2. TickInv /\ CountInv /\ [Next]_vars => CountInv'
  BY CountStep, Zenon
<1> QED
  BY <1>1, <1>2, Barrier, PTL DEF Spec

\* A helper at work that is not late has not acknowledged the generation being
\* dispatched.
LEMMA AtWork ==
  ASSUME TickInv, CountInv, NEW h \in Helpers, hpc[h] = "run", ~Late(h)
  PROVE  cpc \in {"run", "wait"} /\ last[h] = gen /\ hphase[h] = phase
<1>1. last[h] = counted[h]
  BY Zenon DEF Late
<1>2. done[h] < counted[h]
  BY <1>1, Zenon DEF TickInv, AckInv, Busy
<1> QED
  BY <1>1, <1>2, Zenon DEF CountInv

\* However the pool is resized, no helper counted in a dispatch is still
\* executing a phase when the coordinator has gone on: it runs the phase and the
\* generation that are being dispatched (dispatch, helperEntry,
\* adaptWorkerCount).
THEOREM PhasesApart == ASSUME Sized PROVE Spec => []PhaseBarrier
<1>1. TickInv /\ CountInv => PhaseBarrier
  BY AtWork, Zenon DEF PhaseBarrier
<1> QED
  BY <1>1, Steadiness, PTL

-----------------------------------------------------------------------------
(* fork().                                                                 *)

\* Every step keeps the handshake of pauseForFork and coordEntry.
LEMMA ForkStepInv ==
  ASSUME TypeOK, PoolInv, ForkInv, [Next]_vars PROVE ForkInv'
<1> USE DEF flags, pool, coord, helpers, control
<1>0. TypeOK /\ PoolInv /\ ForkInv
  OBVIOUS
<1>1. ASSUME Start PROVE ForkInv'
  <2>1. cpc = "none" /\ cpc' \in {"none", "sleep"}
    BY <1>0, <1>1, Zenon DEF Start, PoolInv
  <2>2. UNCHANGED <<paused, fpc, inTick>>
    BY <1>1, Zenon DEF Start
  <2> QED
    BY <1>0, <2>1, <2>2, Zenon DEF ForkInv
<1>2. ASSUME CoordExit PROVE ForkInv'
  BY <1>0, <1>2, Zenon DEF TypeOK, ForkInv, CoordExit
<1>3. ASSUME CoordWake PROVE ForkInv'
  BY <1>0, <1>3, Zenon DEF TypeOK, ForkInv, CoordWake
<1>4. ASSUME CoordCheck PROVE ForkInv'
  BY <1>0, <1>4, Zenon DEF TypeOK, ForkInv, CoordCheck
<1>5. ASSUME Dispatch PROVE ForkInv'
  BY <1>0, <1>5, Zenon DEF TypeOK, ForkInv, Dispatch
<1>6. ASSUME RunOwnRange PROVE ForkInv'
  BY <1>0, <1>6, Zenon DEF TypeOK, ForkInv, RunOwnRange
<1>7. ASSUME AwaitHelpers PROVE ForkInv'
  BY <1>0, <1>7, Zenon DEF TypeOK, ForkInv, AwaitHelpers
<1>8. ASSUME EndTick PROVE ForkInv'
  BY <1>0, <1>8, Zenon DEF TypeOK, ForkInv, EndTick
<1>9. ASSUME NEW h \in Helpers, HelperExit(h) PROVE ForkInv'
  BY <1>0, <1>9, Zenon DEF TypeOK, ForkInv, HelperExit
<1>10. ASSUME NEW h \in Helpers, HelperSees(h) PROVE ForkInv'
  BY <1>0, <1>10, Zenon DEF TypeOK, ForkInv, HelperSees
<1>11. ASSUME NEW h \in Helpers, HelperDecides(h) PROVE ForkInv'
  BY <1>0, <1>11, Zenon DEF TypeOK, ForkInv, HelperDecides
<1>12. ASSUME NEW h \in Helpers, HelperRuns(h) PROVE ForkInv'
  BY <1>0, <1>12, Zenon DEF TypeOK, ForkInv, HelperRuns
<1>13. ASSUME NEW h \in Helpers, HelperAcks(h) PROVE ForkInv'
  BY <1>0, <1>13, Zenon DEF TypeOK, ForkInv, HelperAcks
<1>14. ASSUME ForkPrepare PROVE ForkInv'
  BY <1>0, <1>14, Zenon DEF TypeOK, ForkInv, ForkPrepare
<1>15. ASSUME ForkProceeds PROVE ForkInv'
  BY <1>0, <1>15, Zenon DEF TypeOK, ForkInv, ForkProceeds
<1>16. ASSUME ForkParent PROVE ForkInv'
  BY <1>0, <1>16, Zenon DEF TypeOK, ForkInv, ForkParent
<1>17. ASSUME ForkChild PROVE ForkInv'
  BY <1>0, <1>17, Zenon DEF TypeOK, ForkInv, ForkChild
<1>18. ASSUME StopCalled PROVE ForkInv'
  BY <1>0, <1>18, Zenon DEF TypeOK, ForkInv, StopCalled
<1>19. ASSUME StopJoins PROVE ForkInv'
  BY <1>0, <1>19, Zenon DEF TypeOK, ForkInv, StopJoins
<1>u. CASE UNCHANGED vars
  BY <1>0, <1>u, Zenon DEF vars, ForkInv
<1> QED
  BY <1>1, <1>2, <1>3, <1>4, <1>5, <1>6, <1>7, <1>8, <1>9, <1>10, <1>11,
     <1>12, <1>13, <1>14, <1>15, <1>16, <1>17, <1>18, <1>19, <1>u, Zenon
     DEF Next, CoordStep, HelperStep, ForkStep

\* paused_ and in_tick_ keep a fork out of the ticks: a thread that has seen
\* in_tick_ clear forks outside a tick, and the coordinator that has seen paused_
\* clear runs its tick before the fork.  However the pool is resized, no helper
\* is at work either but one no dispatch has counted (pauseForFork, coordEntry,
\* resumeAfterFork, adaptWorkerCount).
THEOREM ForksBetweenTicks == ASSUME Sized PROVE Spec => []ForkOutsideTick
<1>1. Init => ForkInv
  BY Zenon DEF Init, ForkInv
<1>2. TickInv /\ ForkInv /\ [Next]_vars => ForkInv'
  BY ForkStepInv, Zenon DEF TickInv
<1>3. TickInv /\ CountInv /\ ForkInv => ForkOutsideTick
  BY AtWork, Zenon DEF ForkInv, ForkOutsideTick
<1> QED
  BY <1>1, <1>2, <1>3, Steadiness, PTL DEF Spec
=============================================================================
