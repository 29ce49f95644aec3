--------------------------- MODULE MCPageLifecycle ---------------------------
(***************************************************************************)
(* PageLifecycle for TLC.  A run covers a set of modes: a behaviour is in  *)
(* one of them, chosen at the start and kept.  The initial states do not   *)
(* depend on the mode.                                                     *)
(***************************************************************************)
EXTENDS PageLifecycle, TLC

CONSTANT Modes   \* the modes of a run: "configured", "standard" or both
VARIABLE mode

\* "configured" has the constants of the run; "standard" is without deferred
\* reclaim and with pages that always compress.
StandardMode == INSTANCE PageLifecycle WITH Deferred <- FALSE, Incompressible <- FALSE

ModesNext ==
  /\ mode' = mode
  /\ \/ mode = "configured" /\ Next
     \/ mode = "standard" /\ StandardMode!Next

ModesSpec == Init /\ mode \in Modes /\ [][ModesNext]_<<vars, mode>>

\* Threads are interchangeable: nothing in the model tells one from another.
ThreadSymmetry == Permutations(Threads)
=============================================================================
