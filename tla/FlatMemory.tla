----------------------------- MODULE FlatMemory -----------------------------
(***************************************************************************)
(* What smash promises the application: slots that can be allocated, freed *)
(* and accessed, and that keep what was stored last.  The contents change  *)
(* only when a store that a thread has issued completes, or by a free.     *)
(***************************************************************************)
CONSTANTS Pages, Slots, Threads, Values, Undef, NoAccess

VARIABLES
  live,      \* allocated slots
  acc,       \* per thread: the load (val = Undef) or store it is executing
  contents   \* per page and slot: last value stored, Undef if none

Access == [page : Pages, slot : Slots, val : Values \cup {Undef}]

Init ==
  /\ live = {}
  /\ acc = [t \in Threads |-> NoAccess]
  /\ contents = [p \in Pages |-> [s \in Slots |-> Undef]]

Alloc(p, s) ==
  /\ <<p, s>> \notin live
  /\ live' = live \cup {<<p, s>>}
  /\ UNCHANGED <<acc, contents>>

\* The application does not free what it is accessing.
Free(p, s) ==
  /\ <<p, s>> \in live
  /\ \A t \in Threads : acc[t] # NoAccess => <<acc[t].page, acc[t].slot>> # <<p, s>>
  /\ live' = live \ {<<p, s>>}
  /\ contents' = [contents EXCEPT ![p][s] = Undef]
  /\ UNCHANGED acc

Begin(t, a) ==
  /\ acc[t] = NoAccess
  /\ <<a.page, a.slot>> \in live
  /\ acc' = [acc EXCEPT ![t] = a]
  /\ UNCHANGED <<live, contents>>

Complete(t) ==
  /\ acc[t] # NoAccess
  /\ contents' = IF acc[t].val = Undef
                   THEN contents
                   ELSE [contents EXCEPT ![acc[t].page][acc[t].slot] = acc[t].val]
  /\ acc' = [acc EXCEPT ![t] = NoAccess]
  /\ UNCHANGED live

Next ==
  \/ \E p \in Pages, s \in Slots : Alloc(p, s) \/ Free(p, s)
  \/ \E t \in Threads : Complete(t) \/ \E a \in Access : Begin(t, a)

Spec == Init /\ [][Next]_<<live, acc, contents>>
=============================================================================
