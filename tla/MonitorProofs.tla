--------------------------- MODULE MonitorProofs ---------------------------
(***************************************************************************)
(* Proofs about Monitor, for any threads and priorities: no signal of a    *)
(* condition variable is lost or given twice, and condition variables      *)
(* implement CondSpec.                                                     *)
(***************************************************************************)
EXTENDS Monitor, SequenceTheorems, TLAPS

\* A thread is in the monitor exactly while it owns the lock.
OwnerInv ==
  \A t \in Thread : pc[t] \in {"in", "release", "broadcast"} <=> owner = t

\* A waiter cannot be signaled before it has released the lock.
ReleaseInv == \A t \in Thread : pc[t] = "release" => t \notin up

Inv == TypeOK /\ OwnerInv /\ OneSignalEach /\ ReleaseInv

ThreadsOf(q) == {q[i].thread : i \in DOMAIN q}
Distinct(q) == \A i, j \in DOMAIN q : q[i].thread = q[j].thread => i = j

\* A thread is listed, upped, or neither, as its position says.
Balance(L, U, p) ==
  \A t \in Thread :
    IF p[t] \in {"release", "down"} THEN t \in L <=> t \notin U
                                    ELSE t \notin L \cup U

\* What is left of a list: every other element, once, in its order.
LEMMA RemoveAtElements ==
  ASSUME NEW S, NEW q \in Seq(S), NEW i \in DOMAIN q
  PROVE  /\ RemoveAt(q, i) \in Seq(S)
         /\ DOMAIN RemoveAt(q, i) = 1..(Len(q) - 1)
         /\ \A j \in 1..(Len(q) - 1) : RemoveAt(q, i)[j] = IF j < i THEN q[j] ELSE q[j + 1]
<1> DEFINE l == SubSeq(q, 1, i - 1)
           r == SubSeq(q, i + 1, Len(q))
<1>1. i \in 1..Len(q) /\ Len(q) \in Nat
  OBVIOUS
<1>2. l \in Seq(S) /\ Len(l) = i - 1 /\ \A j \in 1..(i - 1) : l[j] = q[j]
  BY <1>1, SubSeqProperties
<1>3. r \in Seq(S) /\ Len(r) = Len(q) - i /\ \A j \in 1..(Len(q) - i) : r[j] = q[i + j]
  BY <1>1, SubSeqProperties
<1>4. RemoveAt(q, i) = l \o r
  BY DEF RemoveAt
<1> HIDE DEF l, r
<1>5. /\ l \o r \in Seq(S)
      /\ Len(l \o r) = Len(l) + Len(r)
      /\ \A j \in 1..(Len(l) + Len(r)) :
           (l \o r)[j] = IF j <= Len(l) THEN l[j] ELSE r[j - Len(l)]
  BY <1>2, <1>3, ConcatProperties
<1>6. Len(l) + Len(r) = Len(q) - 1
  BY <1>1, <1>2, <1>3
<1>7. ASSUME NEW j \in 1..(Len(q) - 1), j < i
      PROVE  (l \o r)[j] = q[j]
  <2>1. j \in 1..(i - 1) /\ j <= Len(l) /\ j \in 1..(Len(l) + Len(r))
    BY <1>1, <1>2, <1>6, <1>7
  <2> QED  BY <1>2, <1>5, <2>1
<1>8. ASSUME NEW j \in 1..(Len(q) - 1), ~(j < i)
      PROVE  (l \o r)[j] = q[j + 1]
  <2> DEFINE k == j - Len(l)
  <2>1. k \in 1..(Len(q) - i) /\ i + k = j + 1 /\ ~(j <= Len(l)) /\ j \in 1..(Len(l) + Len(r))
    BY <1>1, <1>2, <1>6, <1>8, SMTT(20)
  <2>2. (l \o r)[j] = r[k]
    BY <1>5, <2>1
  <2> HIDE DEF k
  <2>3. r[k] = q[i + k]
    BY <1>3, <2>1
  <2> QED  BY <2>1, <2>2, <2>3
<1>9. DOMAIN (l \o r) = 1..(Len(q) - 1)
  BY <1>5, <1>6
<1> QED  BY <1>4, <1>5, <1>7, <1>8, <1>9

\* Removing an element removes its thread, and only that, from a list that
\* holds no thread twice.
LEMMA RemoveAtThreads ==
  ASSUME NEW S, NEW q \in Seq(S), NEW i \in DOMAIN q, Distinct(q)
  PROVE  /\ ThreadsOf(RemoveAt(q, i)) = ThreadsOf(q) \ {q[i].thread}
         /\ Distinct(RemoveAt(q, i))
<1> DEFINE n == Len(q)
           s == RemoveAt(q, i)
           from(j) == IF j < i THEN j ELSE j + 1
<1>1. i \in 1..n /\ n \in Nat /\ DOMAIN q = 1..n
  OBVIOUS
<1>2. DOMAIN s = 1..(n - 1) /\ \A j \in 1..(n - 1) : s[j] = q[from(j)]
  BY RemoveAtElements
<1> HIDE DEF s, n
<1>3. \A j \in 1..(n - 1) : from(j) \in 1..n /\ from(j) # i
  BY <1>1
<1>4. \A j, k \in 1..(n - 1) : from(j) = from(k) => j = k
  BY <1>1
<1>5. \A k \in 1..n : k # i => \E j \in 1..(n - 1) : from(j) = k
  <2> SUFFICES ASSUME NEW k \in 1..n, k # i
               PROVE  \E j \in 1..(n - 1) : from(j) = k
    OBVIOUS
  <2>1. CASE k < i
    <3>1. k \in 1..(n - 1) /\ from(k) = k
      BY <1>1, <2>1
    <3> QED  BY <3>1
  <2>2. CASE k > i
    <3>1. k - 1 \in 1..(n - 1) /\ from(k - 1) = k
      BY <1>1, <2>2
    <3> QED  BY <3>1
  <2> QED  BY <1>1, <2>1, <2>2
<1> HIDE DEF from
<1>6. Distinct(s)
  BY <1>1, <1>2, <1>3, <1>4 DEF Distinct
<1>7. ASSUME NEW x \in ThreadsOf(s)
      PROVE  x \in ThreadsOf(q) \ {q[i].thread}
  <2>1. PICK j \in 1..(n - 1) : x = q[from(j)].thread
    BY <1>2, <1>7 DEF ThreadsOf
  <2> QED  BY <1>1, <1>3, <2>1 DEF Distinct, ThreadsOf
<1>8. ASSUME NEW x \in ThreadsOf(q), x # q[i].thread
      PROVE  x \in ThreadsOf(s)
  <2>1. PICK k \in 1..n : x = q[k].thread
    BY <1>1, <1>8 DEF ThreadsOf
  <2>2. PICK j \in 1..(n - 1) : from(j) = k
    BY <1>5, <1>8, <2>1
  <2> QED  BY <1>2, <2>1, <2>2 DEF ThreadsOf
<1> QED  BY <1>6, <1>7, <1>8 DEF s

\* Appending adds the thread of the new element.
LEMMA AppendThreads ==
  ASSUME NEW S, NEW q \in Seq(S), NEW e \in S, Distinct(q), e.thread \notin ThreadsOf(q)
  PROVE  /\ ThreadsOf(Append(q, e)) = ThreadsOf(q) \cup {e.thread}
         /\ Distinct(Append(q, e))
<1> DEFINE n == Len(q)
           s == Append(q, e)
<1>1. /\ n \in Nat /\ DOMAIN q = 1..n /\ DOMAIN s = 1..(n + 1)
      /\ \A j \in 1..n : s[j] = q[j]
      /\ s[n + 1] = e
  BY AppendProperties
<1> HIDE DEF n, s
<1>2. \A j \in 1..(n + 1) : j \in 1..n \/ j = n + 1
  BY <1>1
<1>3. 1..n \subseteq 1..(n + 1) /\ n + 1 \in 1..(n + 1)
  BY <1>1
<1>4. Distinct(s)
  BY <1>1, <1>2 DEF Distinct, ThreadsOf
<1>5. ThreadsOf(s) = ThreadsOf(q) \cup {e.thread}
  <2>1. ASSUME NEW x \in ThreadsOf(s)
        PROVE  x \in ThreadsOf(q) \cup {e.thread}
    <3>1. PICK j \in 1..(n + 1) : x = s[j].thread
      BY <1>1 DEF ThreadsOf
    <3> QED  BY <1>1, <1>2, <3>1 DEF ThreadsOf
  <2>2. ASSUME NEW x \in ThreadsOf(q)
        PROVE  x \in ThreadsOf(s)
    <3>1. PICK j \in 1..n : x = q[j].thread
      BY <1>1 DEF ThreadsOf
    <3> QED  BY <1>1, <1>3, <3>1 DEF ThreadsOf
  <2>3. e.thread \in ThreadsOf(s)
    BY <1>1, <1>3 DEF ThreadsOf
  <2> QED  BY <2>1, <2>2, <2>3
<1> QED  BY <1>4, <1>5 DEF s

\* OneSignalEach in the terms of the lemmas.
LEMMA OneSignalEachParts ==
  OneSignalEach <=> Balance(ThreadsOf(list), up, pc) /\ Distinct(list)
BY DEF OneSignalEach, Balance, Distinct, ThreadsOf, Listed

-----------------------------------------------------------------------------
(* Effect of the steps on the list, shared by the proofs below. *)

\* cond_signal takes one listed thread off the list and ups its semaphore.
LEMMA SignalEffect ==
  ASSUME Inv, SignalTop
  PROVE  \E u \in ThreadsOf(list) :
           /\ u \in Thread
           /\ list' \in Seq([thread : Thread, priority : Priority])
           /\ ThreadsOf(list') = ThreadsOf(list) \ {u}
           /\ Distinct(list')
           /\ up' = up \cup {u}
<1> DEFINE E == [thread : Thread, priority : Priority]
<1>1. list \in Seq(E) /\ Distinct(list)
  BY OneSignalEachParts DEF Inv, TypeOK
<1>2. PICK i \in DOMAIN list : list' = RemoveAt(list, i) /\ up' = up \cup {list[i].thread}
  BY DEF SignalTop
<1> HIDE DEF E
<1>3. list[i] \in E
  BY <1>1, <1>2
<1>4. /\ list' \in Seq(E)
      /\ ThreadsOf(list') = ThreadsOf(list) \ {list[i].thread}
      /\ Distinct(list')
  BY <1>1, <1>2, RemoveAtElements, RemoveAtThreads
<1>5. list[i].thread \in ThreadsOf(list) /\ list[i].thread \in Thread
  BY <1>2, <1>3 DEF ThreadsOf, E
<1> QED  BY <1>2, <1>4, <1>5 DEF E

\* cond_wait puts its caller on the list.
LEMMA EnqueueEffect ==
  ASSUME Inv, NEW t \in Thread, WaitEnqueue(t)
  PROVE  /\ t \notin ThreadsOf(list)
         /\ list' \in Seq([thread : Thread, priority : Priority])
         /\ ThreadsOf(list') = ThreadsOf(list) \cup {t}
         /\ Distinct(list')
<1> DEFINE E == [thread : Thread, priority : Priority]
           e == [thread |-> t, priority |-> prio[t]]
<1>1. list \in Seq(E) /\ Distinct(list) /\ e \in E /\ e.thread = t /\ list' = Append(list, e)
  BY OneSignalEachParts DEF Inv, TypeOK, WaitEnqueue
<1>2. t \notin ThreadsOf(list)
  BY OneSignalEachParts DEF Inv, WaitEnqueue, Balance
<1> HIDE DEF E, e
<1>3. list' \in Seq(E) /\ ThreadsOf(list') = ThreadsOf(list) \cup {t} /\ Distinct(list')
  BY <1>1, <1>2, AppendThreads, AppendProperties
<1> QED  BY <1>2, <1>3 DEF E

-----------------------------------------------------------------------------
(* Invariance, one lemma per kind of step. *)

\* Steps that leave the list and the semaphores alone.
LEMMA LockStep ==
  ASSUME Inv, NEW t \in Thread,
         Enter(t) \/ Leave(t) \/ WaitRelease(t) \/ WaitReacquire(t) \/ BroadcastStart(t)
  PROVE  Inv'
<1>1. TypeOK'
  BY ThreadAssumption DEF Inv, TypeOK, Enter, Leave, WaitRelease, WaitReacquire, BroadcastStart, Goto
<1>2. OwnerInv'
  BY ThreadAssumption DEF Inv, TypeOK, OwnerInv, Enter, Leave, WaitRelease, WaitReacquire, BroadcastStart, Goto
<1>3. ReleaseInv'
  BY DEF Inv, TypeOK, ReleaseInv, Enter, Leave, WaitRelease, WaitReacquire, BroadcastStart, Goto
<1>4. UNCHANGED <<list, up>>
  BY DEF Enter, Leave, WaitRelease, WaitReacquire, BroadcastStart
<1>5. Balance(ThreadsOf(list), up, pc')
  BY OneSignalEachParts
  DEF Inv, TypeOK, Balance, Enter, Leave, WaitRelease, WaitReacquire, BroadcastStart, Goto
<1>6. OneSignalEach'
  BY <1>4, <1>5, OneSignalEachParts DEF Inv, OneSignalEach, Balance, Distinct, ThreadsOf, Listed
<1> QED  BY <1>1, <1>2, <1>3, <1>6 DEF Inv

\* What is left to show of OneSignalEach' once the parts are known.
LEMMA OneSignalEachNext ==
  ASSUME Balance(ThreadsOf(list'), up', pc'), Distinct(list')
  PROVE  OneSignalEach'
BY DEF OneSignalEach, Balance, Distinct, ThreadsOf, Listed

LEMMA EnqueueStep ==
  ASSUME Inv, NEW t \in Thread, WaitEnqueue(t)
  PROVE  Inv'
<1>1. TypeOK'
  BY EnqueueEffect DEF Inv, TypeOK, WaitEnqueue, Goto
<1>2. OwnerInv'
  BY DEF Inv, TypeOK, OwnerInv, WaitEnqueue, Goto
<1>3. ReleaseInv'
  BY DEF Inv, TypeOK, ReleaseInv, WaitEnqueue, Goto
<1>4. Balance(ThreadsOf(list'), up', pc')
  <2> DEFINE L == ThreadsOf(list)
             M == ThreadsOf(list')
  <2>1. M = L \cup {t} /\ Balance(L, up, pc)
    BY EnqueueEffect, OneSignalEachParts DEF Inv
  <2> HIDE DEF L, M
  <2>2. Balance(M, up', pc')
    BY <2>1 DEF Inv, TypeOK, Balance, WaitEnqueue, Goto
  <2> QED  BY <2>2 DEF M
<1>5. OneSignalEach'
  BY <1>4, EnqueueEffect, OneSignalEachNext
<1> QED  BY <1>1, <1>2, <1>3, <1>5 DEF Inv

LEMMA DownStep ==
  ASSUME Inv, NEW t \in Thread, WaitDown(t)
  PROVE  Inv'
<1>1. TypeOK'
  BY DEF Inv, TypeOK, WaitDown, Goto
<1>2. OwnerInv' /\ ReleaseInv'
  BY DEF Inv, TypeOK, OwnerInv, ReleaseInv, WaitDown, Goto
<1>3. Balance(ThreadsOf(list), up', pc') /\ Distinct(list)
  <2> DEFINE L == ThreadsOf(list)
  <2>1. Balance(L, up, pc) /\ Distinct(list)
    BY OneSignalEachParts DEF Inv
  <2> HIDE DEF L
  <2>2. Balance(L, up', pc')
    BY <2>1 DEF Inv, TypeOK, Balance, WaitDown, Goto
  <2> QED  BY <2>1, <2>2 DEF L
<1>4. list' = list
  BY DEF WaitDown
<1>5. OneSignalEach'
  BY <1>3, <1>4, OneSignalEachNext
<1> QED  BY <1>1, <1>2, <1>5 DEF Inv

\* A signal of t, alone or as one turn of a broadcast.
LEMMA SignalStep ==
  ASSUME Inv, NEW t \in Thread, pc[t] \in {"in", "broadcast"}, SignalTop,
         UNCHANGED <<owner, prio, pc>>
  PROVE  Inv'
<1>1. PICK u \in ThreadsOf(list) :
        /\ u \in Thread
        /\ list' \in Seq([thread : Thread, priority : Priority])
        /\ ThreadsOf(list') = ThreadsOf(list) \ {u}
        /\ Distinct(list')
        /\ up' = up \cup {u}
  BY SignalEffect
<1>2. Balance(ThreadsOf(list), up, pc)
  BY OneSignalEachParts DEF Inv
<1>3. pc[u] \in {"release", "down"} /\ u \notin up
  BY <1>1, <1>2 DEF Balance
<1>4. pc[u] = "down"
  BY <1>1, <1>3 DEF Inv, OwnerInv
<1>5. TypeOK'
  BY <1>1 DEF Inv, TypeOK
<1>6. OwnerInv'
  BY DEF Inv, OwnerInv
<1>7. ReleaseInv'
  BY <1>1, <1>4 DEF Inv, ReleaseInv
<1>8. Balance(ThreadsOf(list) \ {u}, up \cup {u}, pc)
  BY <1>1, <1>2, <1>3 DEF Balance
<1>9. OneSignalEach'
  BY <1>1, <1>8, OneSignalEachNext
<1> QED  BY <1>5, <1>6, <1>7, <1>9 DEF Inv

\* The last turn of a broadcast, and a change of a priority.
LEMMA OtherStep ==
  ASSUME Inv, NEW t \in Thread,
         \/ BroadcastTurn(t) /\ list = <<>>
         \/ \E p \in Priority : Reprioritize(t, p)
  PROVE  Inv'
<1>1. TypeOK'
  BY DEF Inv, TypeOK, BroadcastTurn, Reprioritize, Goto
<1>2. OwnerInv' /\ ReleaseInv'
  BY DEF Inv, TypeOK, OwnerInv, ReleaseInv, BroadcastTurn, Reprioritize, Goto
<1>3. UNCHANGED <<list, up>>
  BY DEF BroadcastTurn, Reprioritize
<1>4. Balance(ThreadsOf(list), up, pc') /\ Distinct(list)
  <2>1. Balance(ThreadsOf(list), up, pc) /\ Distinct(list)
    BY OneSignalEachParts DEF Inv
  <2> QED  BY <2>1 DEF Inv, TypeOK, Balance, BroadcastTurn, Reprioritize, Goto
<1>5. OneSignalEach'
  BY <1>3, <1>4, OneSignalEachNext
<1> QED  BY <1>1, <1>2, <1>5 DEF Inv

\* The inductive invariant holds of every reachable state.
THEOREM Invariance == Spec => []Inv
<1>1. Init => Inv
  BY ThreadAssumption DEF Init, Inv, TypeOK, OwnerInv, ReleaseInv, OneSignalEach, Listed
<1>2. Inv /\ [Next]_vars => Inv'
  <2> SUFFICES ASSUME Inv, [Next]_vars
               PROVE  Inv'
    OBVIOUS
  <2>1. CASE UNCHANGED vars
    BY <2>1 DEF vars, Inv, TypeOK, OwnerInv, ReleaseInv, OneSignalEach, Listed
  <2>2. ASSUME NEW t \in Thread, Signal(t)
        PROVE  Inv'
    BY <2>2, SignalStep DEF Signal
  <2>3. ASSUME NEW t \in Thread, BroadcastTurn(t), list # <<>>
        PROVE  Inv'
    BY <2>3, SignalStep DEF BroadcastTurn
  <2> QED
    BY <2>1, <2>2, <2>3, LockStep, EnqueueStep, DownStep, OtherStep DEF Next, Continue
<1> QED  BY <1>1, <1>2, PTL DEF Spec

\* The list of a condition variable, the priorities copied into it and the
\* state of each thread in the calls of synch.c keep their types.
THEOREM TypeCorrect == Spec => []TypeOK
<1>1. Inv => TypeOK
  BY DEF Inv
<1> QED  BY <1>1, Invariance, PTL

\* Every thread inside cond_wait is listed or upped, never both, and nobody
\* is listed twice, for any threads and priorities.
THEOREM OneSignalCorrect == Spec => []OneSignalEach
BY Invariance, PTL DEF Inv

\* When a broadcast is over nobody is on the list, and each thread that sleeps
\* has its signal, although other threads ran between the ups.
THEOREM BroadcastCorrect == Spec => BroadcastReachesAll
<1>1. Inv /\ [Next]_vars =>
        [\A t, u \in Thread :
           pc[t] = "broadcast" /\ pc'[t] = "in" /\ pc[u] = "down" => u \in up]_vars
  <2> SUFFICES ASSUME Inv, Next, NEW t \in Thread, NEW u \in Thread,
                      pc[t] = "broadcast", pc'[t] = "in", pc[u] = "down"
               PROVE  u \in up
    BY DEF vars
  <2>1. PICK s \in Thread :
          \/ Enter(s) \/ Leave(s) \/ WaitEnqueue(s) \/ Signal(s) \/ BroadcastStart(s) \/ Continue(s)
          \/ \E p \in Priority : Reprioritize(s, p)
    BY DEF Next
  <2>2. list = <<>>
    <3>1. pc[t] # pc'[t]
      OBVIOUS
    <3>2. s = t
      BY <2>1, <3>1 DEF Enter, Leave, WaitEnqueue, Signal, BroadcastStart, Continue, WaitRelease,
            WaitDown, WaitReacquire, BroadcastTurn, Reprioritize, Goto, Inv, TypeOK
    <3>3. BroadcastTurn(t)
      BY <2>1, <3>1, <3>2 DEF Enter, Leave, WaitEnqueue, Signal, BroadcastStart, Continue, WaitRelease,
            WaitDown, WaitReacquire, Reprioritize
    <3> QED  BY <3>1, <3>3 DEF BroadcastTurn
  <2>3. u \notin Listed
    BY <2>2, EmptySeq DEF Listed
  <2> QED  BY <2>3 DEF Inv, OneSignalEach
<1> QED  BY <1>1, Invariance, PTL DEF Spec, BroadcastReachesAll

-----------------------------------------------------------------------------
(* Condition variables implement CondSpec. *)

Waiting == {t \in Thread : pc[t] = "down" /\ t \notin up}
Picked == {t \in Thread : pc[t] = "reacquire" \/ t \in up}

\* A signal moves one waiter to those picked.
LEMMA SignalMaps ==
  ASSUME Inv, NEW t \in Thread, pc[t] \in {"in", "broadcast"}, SignalTop,
         UNCHANGED <<owner, prio, pc>>
  PROVE  \E u \in Thread : C!Signal(t, u)
<1>1. PICK u \in ThreadsOf(list) : u \in Thread /\ up' = up \cup {u}
  BY SignalEffect
<1>2. pc[u] \in {"release", "down"} /\ u \notin up
  BY <1>1, OneSignalEachParts DEF Inv, Balance
<1>3. pc[u] = "down" /\ owner = t
  BY <1>1, <1>2 DEF Inv, OwnerInv
<1>4. C!Signal(t, u)
  BY <1>1, <1>2, <1>3 DEF C!Signal
<1> QED  BY <1>1, <1>4

\* Every step maps to a step of CondSpec or changes nothing there.
LEMMA StepMaps ==
  ASSUME Inv, [Next]_vars
  PROVE  [C!Next]_(C!vars)
<1> DEFINE Same == UNCHANGED <<owner, Waiting, Picked>>
<1>1. ASSUME Same
      PROVE  UNCHANGED C!vars
  BY <1>1 DEF C!vars, Waiting, Picked
<1>2. CASE UNCHANGED vars
  <2>1. Same
    BY <1>2 DEF vars, Waiting, Picked
  <2> QED  BY <1>1, <2>1
<1>3. ASSUME NEW t \in Thread, Enter(t)
      PROVE  C!Next
  <2>1. t \notin up
    BY <1>3 DEF Enter, Inv, OneSignalEach
  <2>2. C!Enter(t)
    BY <1>3, <2>1 DEF Enter, Goto, Inv, TypeOK, C!Enter
  <2> QED  BY <2>2 DEF C!Next
<1>4. ASSUME NEW t \in Thread, Leave(t)
      PROVE  C!Next
  <2>1. C!Leave(t)
    BY <1>4 DEF Leave, Goto, Inv, TypeOK, OwnerInv, C!Leave
  <2> QED  BY <2>1 DEF C!Next
<1>5. ASSUME NEW t \in Thread, WaitRelease(t)
      PROVE  C!Next
  <2>1. t \notin up /\ owner = t
    BY <1>5 DEF WaitRelease, Inv, ReleaseInv, OwnerInv
  <2>2. C!Wait(t)
    BY <1>5, <2>1 DEF WaitRelease, Goto, Inv, TypeOK, C!Wait
  <2> QED  BY <2>2 DEF C!Next
<1>6. ASSUME NEW t \in Thread, WaitReacquire(t)
      PROVE  C!Next
  <2>1. t \notin up
    BY <1>6 DEF WaitReacquire, Inv, OneSignalEach
  <2>2. C!Resume(t)
    BY <1>6, <2>1 DEF WaitReacquire, Goto, Inv, TypeOK, C!Resume
  <2> QED  BY <2>2 DEF C!Next
<1>7. ASSUME NEW t \in Thread, WaitEnqueue(t)
      PROVE  Same
  <2>1. t \notin up
    BY <1>7 DEF WaitEnqueue, Inv, OneSignalEach
  <2> QED  BY <1>7, <2>1 DEF WaitEnqueue, Goto, Inv, TypeOK, Waiting, Picked
<1>8. ASSUME NEW t \in Thread, WaitDown(t)
      PROVE  Same
  BY <1>8 DEF WaitDown, Goto, Inv, TypeOK, Waiting, Picked
<1>9. ASSUME NEW t \in Thread, Signal(t)
      PROVE  C!Next
  BY <1>9, SignalMaps DEF Signal, C!Next
<1>10. ASSUME NEW t \in Thread, BroadcastTurn(t), list # <<>>
       PROVE  C!Next
  BY <1>10, SignalMaps DEF BroadcastTurn, C!Next
<1>11. ASSUME NEW t \in Thread,
              \/ BroadcastStart(t)
              \/ BroadcastTurn(t) /\ list = <<>>
              \/ \E p \in Priority : Reprioritize(t, p)
       PROVE  Same
  BY <1>11 DEF BroadcastStart, BroadcastTurn, Reprioritize, Goto, Inv, TypeOK, Waiting, Picked
<1> HIDE DEF Same
<1> QED
  BY <1>1, <1>2, <1>3, <1>4, <1>5, <1>6, <1>7, <1>8, <1>9, <1>10, <1>11 DEF Next, Continue

\* The condition variable as built, a list of semaphores and four separate
\* calls, is a condition variable: to the other threads, releasing the lock
\* and waiting are one step, and a signal picks one waiter.
THEOREM CondRefinement == Spec => ImplementsCond
<1>1. Init => C!Init
  BY DEF Init, C!Init
<1>2. Inv /\ [Next]_vars => [C!Next]_(C!vars)
  BY StepMaps
<1> QED  BY <1>1, <1>2, Invariance, PTL DEF Spec, ImplementsCond, C!Spec
=============================================================================
