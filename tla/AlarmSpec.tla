----------------------------- MODULE AlarmSpec -----------------------------
(***************************************************************************)
(* What timer_sleep(n) promises: the caller sleeps until n timer ticks     *)
(* have passed, or one tick for n <= 0, and not less.                      *)
(***************************************************************************)
EXTENDS Naturals

CONSTANTS Thread, MaxTicks

VARIABLES
  sleeping,     \* the threads inside timer_sleep
  left          \* ticks each of them still has to wait

Init ==
  /\ sleeping = {}
  /\ left = [t \in Thread |-> 0]

Sleep(t, n) ==
  /\ t \notin sleeping
  /\ sleeping' = sleeping \cup {t}
  /\ left' = [left EXCEPT ![t] = n]

Tick ==
  /\ left' = [t \in Thread |-> IF left[t] > 0 THEN left[t] - 1 ELSE 0]
  /\ UNCHANGED sleeping

Return(t) ==
  /\ t \in sleeping
  /\ left[t] = 0
  /\ sleeping' = sleeping \ {t}
  /\ UNCHANGED left

Next ==
  \/ \E t \in Thread, n \in 1..MaxTicks : Sleep(t, n)
  \/ Tick
  \/ \E t \in Thread : Return(t)

Spec == Init /\ [][Next]_<<sleeping, left>>
=============================================================================
