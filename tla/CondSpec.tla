------------------------------ MODULE CondSpec ------------------------------
(***************************************************************************)
(* What a condition variable promises (the comments on cond_wait,          *)
(* cond_signal and cond_broadcast in cs439/proj1/threads/synch.c): the     *)
(* lock is released and the caller becomes a waiter in one step, a signal  *)
(* of the lock's owner picks one waiter, and a waiter that was picked      *)
(* takes the lock again before it goes on.                                 *)
(***************************************************************************)
CONSTANTS Thread, NoThread

VARIABLES
  owner,        \* the owner of the monitor lock
  waiting,      \* waiters not signaled yet
  picked        \* waiters that were signaled and do not own the lock yet

vars == <<owner, waiting, picked>>

Init ==
  /\ owner = NoThread
  /\ waiting = {}
  /\ picked = {}

Enter(t) ==
  /\ owner = NoThread
  /\ t \notin waiting \cup picked
  /\ owner' = t
  /\ UNCHANGED <<waiting, picked>>

Leave(t) ==
  /\ owner = t
  /\ owner' = NoThread
  /\ UNCHANGED <<waiting, picked>>

Wait(t) ==
  /\ owner = t
  /\ owner' = NoThread
  /\ waiting' = waiting \cup {t}
  /\ UNCHANGED picked

Signal(t, u) ==
  /\ owner = t
  /\ u \in waiting
  /\ waiting' = waiting \ {u}
  /\ picked' = picked \cup {u}
  /\ UNCHANGED owner

Resume(t) ==
  /\ owner = NoThread
  /\ t \in picked
  /\ owner' = t
  /\ picked' = picked \ {t}
  /\ UNCHANGED waiting

Next == \E t \in Thread :
  \/ Enter(t) \/ Leave(t) \/ Wait(t) \/ Resume(t)
  \/ \E u \in Thread : Signal(t, u)

Spec == Init /\ [][Next]_vars
=============================================================================
