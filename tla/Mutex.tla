------------------------------- MODULE Mutex -------------------------------
(***************************************************************************)
(* What struct lock promises its callers: "a lock can only be owned by a   *)
(* single thread at a time", and only the owner gives it up (the comment   *)
(* on lock_init in cs439/proj1/threads/synch.c).                           *)
(***************************************************************************)
CONSTANTS Thread, NoThread, Lock

VARIABLE owner

Init == owner = [l \in Lock |-> NoThread]

Acquire(t, l) ==
  /\ owner[l] = NoThread
  /\ owner' = [owner EXCEPT ![l] = t]

Release(t, l) ==
  /\ owner[l] = t
  /\ owner' = [owner EXCEPT ![l] = NoThread]

Next == \E t \in Thread, l \in Lock : Acquire(t, l) \/ Release(t, l)

Spec == Init /\ [][Next]_owner
=============================================================================
