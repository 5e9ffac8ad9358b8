-------------------------- MODULE AlarmClockProofs --------------------------
(***************************************************************************)
(* Proofs about AlarmClock, for any threads and any bound on the argument: *)
(* every sleep is woken exactly once, and the alarm clock implements the   *)
(* promise of AlarmSpec.                                                   *)
(***************************************************************************)
EXTENDS AlarmClock, TLAPS

Inv == TypeOK /\ OneWakePerSleep

LEMMA InitInv == Init => Inv
BY MaxTicksAssumption, HugeAssumption DEF Init, Inv, TypeOK, OneWakePerSleep

LEMMA StepInv == Inv /\ [Next]_vars => Inv'
<1> SUFFICES ASSUME Inv, [Next]_vars PROVE Inv'
  OBVIOUS
<1> USE MaxTicksAssumption, HugeAssumption DEF Inv, TypeOK
<1>1. ASSUME NEW t \in Thread, NEW n \in -1..MaxTicks, TimerSleep(t, n)
      PROVE  Inv'
  <2>1. TypeOK'
    BY <1>1 DEF TimerSleep
  <2>2. OneWakePerSleep'
    BY <1>1 DEF TimerSleep, OneWakePerSleep
  <2> QED  BY <2>1, <2>2
<1>2. ASSUME NEW t \in Thread, Store(t)
      PROVE  Inv'
  <2>1. TypeOK'
    BY <1>2 DEF Store
  <2>2. OneWakePerSleep'
    BY <1>2 DEF Store, OneWakePerSleep
  <2> QED  BY <2>1, <2>2
<1>3. ASSUME NEW t \in Thread, DownWait(t)
      PROVE  Inv'
  BY <1>3 DEF DownWait, OneWakePerSleep
<1>4. ASSUME NEW t \in Thread, DownTake(t)
      PROVE  Inv'
  <2>1. TypeOK'
    BY <1>4 DEF DownTake
  <2>2. OneWakePerSleep'
    BY <1>4 DEF DownTake, OneWakePerSleep
  <2> QED  BY <2>1, <2>2
<1>5. ASSUME TimerInterrupt
      PROVE  Inv'
  <2>1. TypeOK'
    BY <1>5 DEF TimerInterrupt, Decremented, Due
  <2>2. OneWakePerSleep'
    BY <1>5 DEF TimerInterrupt, Decremented, Due, OneWakePerSleep
  <2> QED  BY <2>1, <2>2
<1>6. CASE UNCHANGED vars
  BY <1>6 DEF vars, OneWakePerSleep
<1> QED  BY <1>1, <1>2, <1>3, <1>4, <1>5, <1>6 DEF Next, Continue

\* The inductive invariant holds wherever the interrupt comes in timer_sleep.
THEOREM Invariance == Spec => []Inv
BY InitInv, StepInv, PTL DEF Spec

\* The clock and the ticks of each sleeper (timer.c) keep their types: the
\* count is clamped and never falls below zero.
THEOREM TypeCorrect == Spec => []TypeOK
<1>1. Inv => TypeOK
  BY DEF Inv
<1> QED  BY <1>1, Invariance, PTL

\* Every call of timer_sleep is owed exactly one up of the thread's semaphore,
\* so a sleeper is neither forgotten nor woken by an up of an earlier call.
THEOREM OneWakeCorrect == Spec => []OneWakePerSleep
<1>1. Inv => OneWakePerSleep
  BY DEF Inv
<1> QED  BY <1>1, Invariance, PTL

-----------------------------------------------------------------------------
(* The alarm clock implements AlarmSpec. *)

Sleeping == {t \in Thread : pc[t] = "down"}
Left == [t \in Thread |-> TicksLeft(t)]

LEMMA InitRefines == Init => A!Init
BY DEF Init, A!Init, TicksLeft

LEMMA StepRefines ==
  ASSUME Inv, [Next]_vars
  PROVE  [A!Next]_<<Sleeping, Left>>
<1> USE MaxTicksAssumption, HugeAssumption DEF Inv, TypeOK
<1>1. ASSUME NEW t \in Thread, NEW n \in -1..MaxTicks, TimerSleep(t, n)
      PROVE  UNCHANGED <<Sleeping, Left>>
  BY <1>1 DEF TimerSleep, Sleeping, Left, TicksLeft
<1>2. ASSUME NEW t \in Thread, Store(t)
      PROVE  A!Next
  <2> DEFINE n == IF arg[t] = 0 THEN 1 ELSE arg[t]
  <2>1. n \in 1..MaxTicks
    OBVIOUS
  <2>2. Sleeping' = Sleeping \cup {t} /\ t \notin Sleeping
    BY <1>2 DEF Store, Sleeping
  <2>3. value[t] = 0
    BY <1>2 DEF Store, OneWakePerSleep
  <2>4. ASSUME NEW u \in Thread
        PROVE  TicksLeft(u)' = IF u = t THEN n ELSE TicksLeft(u)
    <3>1. CASE u = t
      BY <1>2, <2>3, <3>1 DEF Store, TicksLeft
    <3>2. CASE u # t
      BY <1>2, <3>2 DEF Store, TicksLeft
    <3> QED  BY <3>1, <3>2
  <2>5. Left' = [Left EXCEPT ![t] = n]
    BY <2>4 DEF Left
  <2>6. A!Sleep(t, n)
    BY <2>2, <2>5 DEF A!Sleep, Sleeping, Left
  <2>7. \E m \in 1..MaxTicks : A!Sleep(t, m)
    <3> HIDE DEF n
    <3> QED  BY <2>1, <2>6 DEF A!Sleep
  <2> QED  BY <2>7 DEF A!Next
<1>3. ASSUME NEW t \in Thread, DownWait(t)
      PROVE  UNCHANGED <<Sleeping, Left>>
  BY <1>3 DEF DownWait, Sleeping, Left, TicksLeft
<1>4. ASSUME NEW t \in Thread, DownTake(t)
      PROVE  A!Next
  <2>1. value[t] = 1 /\ pc[t] = "down"
    BY <1>4 DEF DownTake, OneWakePerSleep
  <2>2. t \in Sleeping /\ Left[t] = 0 /\ Sleeping' = Sleeping \ {t}
    BY <1>4, <2>1 DEF DownTake, Sleeping, Left, TicksLeft
  <2>3. Left' = Left
    BY <1>4, <2>1 DEF DownTake, Left, TicksLeft
  <2>4. A!Return(t)
    BY <2>2, <2>3 DEF A!Return, Sleeping, Left
  <2> QED  BY <2>4 DEF A!Next
<1>5. ASSUME TimerInterrupt
      PROVE  A!Next
  <2>1. Sleeping' = Sleeping
    BY <1>5 DEF TimerInterrupt, Sleeping
  <2>2. ASSUME NEW t \in Thread
        PROVE  TicksLeft(t)' = IF TicksLeft(t) > 0 THEN TicksLeft(t) - 1 ELSE 0
    BY <1>5 DEF TimerInterrupt, TicksLeft, Decremented, Due, OneWakePerSleep
  <2>3. Left' = [t \in Thread |-> IF Left[t] > 0 THEN Left[t] - 1 ELSE 0]
    BY <2>2 DEF Left
  <2>4. A!Tick
    BY <2>1, <2>3 DEF A!Tick, Sleeping, Left
  <2> QED  BY <2>4 DEF A!Next
<1>6. CASE UNCHANGED vars
  BY <1>6 DEF vars, Sleeping, Left, TicksLeft
<1> QED  BY <1>1, <1>2, <1>3, <1>4, <1>5, <1>6 DEF Next, Continue

\* timer_sleep(n) returns after n ticks and not before, wherever the timer
\* interrupts it.
THEOREM AlarmRefinement == Spec => ImplementsAlarm
<1>1. Init => A!Init
  BY InitRefines
<1>2. Inv /\ [Next]_vars => [A!Next]_<<Sleeping, Left>>
  BY StepRefines
<1> QED
  BY <1>1, <1>2, Invariance, PTL DEF Spec, ImplementsAlarm, A!Spec, Sleeping, Left
=============================================================================
