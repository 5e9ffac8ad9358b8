----------------------------- MODULE AlarmClock -----------------------------
(***************************************************************************)
(* The alarm clock of the first kernel project: timer_sleep and the timer  *)
(* interrupt of cs439/proj1/devices/timer.c.                               *)
(*                                                                         *)
(* A sleeper stores the ticks to wait in its struct thread and downs its   *)
(* own semaphore; the interrupt counts the ticks down and ups it.  Nothing *)
(* is disabled in timer_sleep, so the interrupt comes between any two of   *)
(* its steps, also between the two 32-bit halves of the store to the       *)
(* 64-bit member ticks.  Which runnable thread goes next is left open.     *)
(***************************************************************************)
EXTENDS Integers

CONSTANTS
  Thread,
  MaxTicks,     \* bound on the argument of timer_sleep
  Huge          \* ticks with the new upper and the old lower half: 2^32 - 1

ASSUME MaxTicksAssumption == MaxTicks \in Nat \ {0}
ASSUME HugeAssumption == Huge \in Nat /\ Huge > MaxTicks

VARIABLES
  ticks,        \* ticks of each thread, -1 when it does not sleep
  value,        \* value of each thread's own semaphore
  asleep,       \* the threads on the wait list of their own semaphore
  pc,           \* where each thread is in timer_sleep
  arg           \* the value timer_sleep stores

vars == <<ticks, value, asleep, pc, arg>>

Init ==
  /\ ticks = [t \in Thread |-> -1]
  /\ value = [t \in Thread |-> 0]
  /\ asleep = {}
  /\ pc = [t \in Thread |-> "run"]
  /\ arg = [t \in Thread |-> 0]

\* Broken: a negative argument is stored as it is.
UnclampedSleep(t, n) ==
  /\ pc[t] = "run"
  /\ arg' = [arg EXCEPT ![t] = n]
  /\ \E torn \in {-1, Huge} : ticks' = [ticks EXCEPT ![t] = torn]
  /\ pc' = [pc EXCEPT ![t] = "store"]
  /\ UNCHANGED <<value, asleep>>

\* timer_sleep(n) up to the first half of the store, in either order.
TimerSleep(t, n) ==
  /\ pc[t] = "run"
  /\ arg' = [arg EXCEPT ![t] = IF n < 0 THEN 0 ELSE n]
  /\ \E torn \in {-1, Huge} : ticks' = [ticks EXCEPT ![t] = torn]
  /\ pc' = [pc EXCEPT ![t] = "store"]
  /\ UNCHANGED <<value, asleep>>

Store(t) ==
  /\ pc[t] = "store"
  /\ ticks' = [ticks EXCEPT ![t] = arg[t]]
  /\ pc' = [pc EXCEPT ![t] = "down"]
  /\ UNCHANGED <<value, asleep, arg>>

\* sema_down of the thread's own semaphore.
DownWait(t) ==
  /\ pc[t] = "down" /\ t \notin asleep
  /\ value[t] = 0
  /\ asleep' = asleep \cup {t}
  /\ UNCHANGED <<ticks, value, pc, arg>>

DownTake(t) ==
  /\ pc[t] = "down" /\ t \notin asleep
  /\ value[t] > 0
  /\ value' = [value EXCEPT ![t] = @ - 1]
  /\ pc' = [pc EXCEPT ![t] = "run"]
  /\ UNCHANGED <<ticks, asleep, arg>>

\* Broken: the count is not reset to -1, or runs out one tick early.
StickyTicks(t) == IF ticks[t] > 0 /\ ticks[t] # Huge THEN ticks[t] - 1 ELSE ticks[t]
DueEarly(t) == ticks[t] \in 0..2

\* The threads decr_ticks ups: the count is 0, or is 0 after the decrement.
Due(t) == ticks[t] \in {0, 1}

\* The count after decr_ticks.  Huge stands for any value near 2^32 here.
Decremented(t) ==
  IF Due(t) THEN -1
  ELSE IF ticks[t] > 0 /\ ticks[t] # Huge THEN ticks[t] - 1
  ELSE ticks[t]

TimerInterrupt ==
  /\ ticks' = [t \in Thread |-> Decremented(t)]
  /\ value' = [t \in Thread |-> IF Due(t) THEN value[t] + 1 ELSE value[t]]
  /\ asleep' = {t \in asleep : ~Due(t)}
  /\ UNCHANGED <<pc, arg>>

Continue(t) == Store(t) \/ DownWait(t) \/ DownTake(t)

Next ==
  \/ TimerInterrupt
  \/ \E t \in Thread : Continue(t)
  \/ \E t \in Thread, n \in -1..MaxTicks : TimerSleep(t, n)

Spec == Init /\ [][Next]_vars

\* The timer keeps interrupting and a runnable thread gets the processor.
FairSpec == Spec /\ WF_vars(TimerInterrupt) /\ \A t \in Thread : WF_vars(Continue(t))

-----------------------------------------------------------------------------
(* Properties. *)

\* The type of every variable.
TypeOK ==
  /\ ticks \in [Thread -> -1..MaxTicks \cup {Huge}]
  /\ value \in [Thread -> Nat]
  /\ asleep \subseteq Thread
  /\ pc \in [Thread -> {"run", "store", "down"}]
  /\ arg \in [Thread -> 0..MaxTicks]

\* Each call of timer_sleep that has stored its ticks is owed exactly one up:
\* either its count is running or its semaphore holds the up.  No up is left
\* over for a later call and none is missing.
OneWakePerSleep ==
  \A t \in Thread :
    IF pc[t] = "down"
      THEN \/ value[t] = 0 /\ ticks[t] \in 0..MaxTicks
           \/ value[t] = 1 /\ ticks[t] = -1 /\ t \notin asleep
      ELSE value[t] = 0 /\ ticks[t] \in {-1, Huge} /\ t \notin asleep

\* A caller of timer_sleep returns.
EverySleepEnds == \A t \in Thread : pc[t] # "run" ~> pc[t] = "run"

\* Ticks left to a sleeper, read off its count and its semaphore.
TicksLeft(t) ==
  IF pc[t] # "down" \/ value[t] > 0 THEN 0
  ELSE IF ticks[t] = 0 THEN 1 ELSE ticks[t]

\* timer_sleep waits for exactly the ticks it was called with: it implements
\* the promise of AlarmSpec.
A == INSTANCE AlarmSpec WITH
       sleeping <- {t \in Thread : pc[t] = "down"},
       left <- [t \in Thread |-> TicksLeft(t)]
ImplementsAlarm == A!Spec
=============================================================================
