------------------------- MODULE PintosSynchProofs -------------------------
(***************************************************************************)
(* Proofs about PintosSynch, for any number of threads, locks and          *)
(* priorities: the mutual exclusion of its locks, which implement Mutex,   *)
(* what donation does to priorities, on which list each thread is, and     *)
(* that no sema_up is lost.                                                *)
(***************************************************************************)
EXTENDS PintosSynch, SequenceTheorems, TLAPS

-----------------------------------------------------------------------------
(* Lists *)

\* What list_remove leaves: every other element, once, in its order.
LEMMA RemoveAtElements ==
  ASSUME NEW S, NEW q \in Seq(S), NEW i \in DOMAIN q
  PROVE  /\ RemoveAt(q, i) \in Seq(S)
         /\ DOMAIN RemoveAt(q, i) = 1..(Len(q) - 1)
         /\ \A j \in 1..(Len(q) - 1) : RemoveAt(q, i)[j] = IF j < i THEN q[j] ELSE q[j + 1]
<1> DEFINE l == SubSeq(q, 1, i - 1)
           r == SubSeq(q, i + 1, Len(q))
<1>1. i \in 1..Len(q) /\ Len(q) \in Nat
  OBVIOUS
<1>2. l \in Seq(S) /\ Len(l) = i - 1 /\ \A j \in 1..(i - 1) : l[j] = q[j]
  BY <1>1, SubSeqProperties
<1>3. r \in Seq(S) /\ Len(r) = Len(q) - i /\ \A j \in 1..(Len(q) - i) : r[j] = q[i + j]
  BY <1>1, SubSeqProperties
<1>4. RemoveAt(q, i) = l \o r
  BY DEF RemoveAt
<1> HIDE DEF l, r
<1>5. /\ l \o r \in Seq(S)
      /\ Len(l \o r) = Len(l) + Len(r)
      /\ \A j \in 1..(Len(l) + Len(r)) :
           (l \o r)[j] = IF j <= Len(l) THEN l[j] ELSE r[j - Len(l)]
  BY <1>2, <1>3, ConcatProperties
<1>6. Len(l) + Len(r) = Len(q) - 1
  BY <1>1, <1>2, <1>3
<1>7. ASSUME NEW j \in 1..(Len(q) - 1), j < i
      PROVE  (l \o r)[j] = q[j]
  <2>1. j \in 1..(i - 1) /\ j <= Len(l) /\ j \in 1..(Len(l) + Len(r))
    BY <1>1, <1>2, <1>6, <1>7
  <2> QED  BY <1>2, <1>5, <2>1
<1>8. ASSUME NEW j \in 1..(Len(q) - 1), ~(j < i)
      PROVE  (l \o r)[j] = q[j + 1]
  <2> DEFINE k == j - Len(l)
  <2>1. k \in 1..(Len(q) - i) /\ i + k = j + 1 /\ ~(j <= Len(l)) /\ j \in 1..(Len(l) + Len(r))
    BY <1>1, <1>2, <1>6, <1>8, SMTT(20)
  <2>2. (l \o r)[j] = r[k]
    BY <1>5, <2>1
  <2> HIDE DEF k
  <2>3. r[k] = q[i + k]
    BY <1>3, <2>1
  <2> QED  BY <2>1, <2>2, <2>3
<1>9. DOMAIN (l \o r) = 1..(Len(q) - 1)
  BY <1>5, <1>6
<1> QED  BY <1>4, <1>5, <1>7, <1>8, <1>9

\* Removing an element of a list without repetitions removes it from the set
\* of its elements, and repeats none.
LEMMA RemoveAtSet ==
  ASSUME NEW S, NEW q \in Seq(S), NEW i \in DOMAIN q, IsInjective(q)
  PROVE  /\ RemoveAt(q, i) \in Seq(S)
         /\ ToSet(RemoveAt(q, i)) = ToSet(q) \ {q[i]}
         /\ IsInjective(RemoveAt(q, i))
<1> DEFINE n == Len(q)
           s == RemoveAt(q, i)
           from(j) == IF j < i THEN j ELSE j + 1
<1>1. i \in 1..n /\ n \in Nat /\ DOMAIN q = 1..n
  OBVIOUS
<1>2. s \in Seq(S) /\ DOMAIN s = 1..(n - 1) /\ \A j \in 1..(n - 1) : s[j] = q[from(j)]
  BY RemoveAtElements
<1> HIDE DEF s, n
<1>3. \A j \in 1..(n - 1) : from(j) \in 1..n /\ from(j) # i
  BY <1>1
<1>4. \A j, k \in 1..(n - 1) : from(j) = from(k) => j = k
  BY <1>1
<1>5. \A k \in 1..n : k # i => \E j \in 1..(n - 1) : from(j) = k
  <2> SUFFICES ASSUME NEW k \in 1..n, k # i
               PROVE  \E j \in 1..(n - 1) : from(j) = k
    OBVIOUS
  <2>1. CASE k < i
    <3>1. k \in 1..(n - 1) /\ from(k) = k
      BY <1>1, <2>1
    <3> QED  BY <3>1
  <2>2. CASE k > i
    <3>1. k - 1 \in 1..(n - 1) /\ from(k - 1) = k
      BY <1>1, <2>2
    <3> QED  BY <3>1
  <2> QED  BY <1>1, <2>1, <2>2
<1> HIDE DEF from
<1>6. IsInjective(s)
  BY <1>1, <1>2, <1>3, <1>4 DEF IsInjective
<1>7. ASSUME NEW x \in ToSet(s)
      PROVE  x \in ToSet(q) \ {q[i]}
  <2>1. PICK j \in 1..(n - 1) : x = q[from(j)]
    BY <1>2, <1>7 DEF ToSet
  <2> QED  BY <1>1, <1>3, <2>1 DEF IsInjective, ToSet
<1>8. ASSUME NEW x \in ToSet(q), x # q[i]
      PROVE  x \in ToSet(s)
  <2>1. PICK k \in 1..n : x = q[k]
    BY <1>1, <1>8 DEF ToSet
  <2>2. PICK j \in 1..(n - 1) : from(j) = k
    BY <1>5, <1>8, <2>1
  <2> QED  BY <1>2, <2>1, <2>2 DEF ToSet
<1> QED  BY <1>2, <1>6, <1>7, <1>8 DEF s

\* Appending a new element adds it to the set, and repeats none.
LEMMA AppendSet ==
  ASSUME NEW S, NEW q \in Seq(S), NEW e \in S, IsInjective(q), e \notin ToSet(q)
  PROVE  /\ Append(q, e) \in Seq(S)
         /\ ToSet(Append(q, e)) = ToSet(q) \cup {e}
         /\ IsInjective(Append(q, e))
<1> DEFINE n == Len(q)
           s == Append(q, e)
<1>1. /\ n \in Nat /\ DOMAIN q = 1..n /\ DOMAIN s = 1..(n + 1)
      /\ s \in Seq(S)
      /\ \A j \in 1..n : s[j] = q[j]
      /\ s[n + 1] = e
  BY AppendProperties
<1> HIDE DEF n, s
<1>2. \A j \in 1..(n + 1) : j \in 1..n \/ j = n + 1
  BY <1>1
<1>3. 1..n \subseteq 1..(n + 1) /\ n + 1 \in 1..(n + 1)
  BY <1>1
<1>4. IsInjective(s)
  BY <1>1, <1>2 DEF IsInjective, ToSet
<1>5. ToSet(s) = ToSet(q) \cup {e}
  <2>1. ASSUME NEW x \in ToSet(s)
        PROVE  x \in ToSet(q) \cup {e}
    <3>1. PICK j \in 1..(n + 1) : x = s[j]
      BY <1>1 DEF ToSet
    <3> QED  BY <1>1, <1>2, <3>1 DEF ToSet
  <2>2. ASSUME NEW x \in ToSet(q)
        PROVE  x \in ToSet(s)
    <3>1. PICK j \in 1..n : x = q[j]
      BY <1>1 DEF ToSet
    <3> QED  BY <1>1, <1>3, <3>1 DEF ToSet
  <2>3. e \in ToSet(s)
    BY <1>1, <1>3 DEF ToSet
  <2> QED  BY <2>1, <2>2, <2>3
<1> QED  BY <1>1, <1>4, <1>5 DEF s

\* The empty list has no elements.
LEMMA EmptySet == ToSet(<<>>) = {} /\ IsInjective(<<>>)
BY DEF ToSet, IsInjective

-----------------------------------------------------------------------------
(* The scheduler *)

Statuses == {"unborn", "running", "ready", "blocked", "dying"}

\* Taking an element out of a list of threads leaves a list of threads.
LEMMA RemoveAtType ==
  ASSUME NEW q \in Seq(Thread), NEW i \in DOMAIN q
  PROVE  RemoveAt(q, i) \in Seq(Thread)
BY RemoveAtElements

\* schedule() keeps the types of the scheduler's state.
LEMMA ScheduleType ==
  ASSUME NEW q \in Seq(Thread), NEW p, NEW st \in [Thread -> Statuses],
         Schedule(q, p, st)
  PROVE  /\ current' \in OptThread
         /\ ready' \in Seq(Thread)
         /\ status' \in [Thread -> Statuses]
<1>1. CASE q = <<>> /\ current' = NoThread /\ ready' = <<>> /\ status' = st
  BY <1>1 DEF OptThread
<1>2. CASE \E i \in DOMAIN q : /\ IsTop(i, q, p)
                               /\ current' = q[i]
                               /\ ready' = RemoveAt(q, i)
                               /\ status' = [st EXCEPT ![q[i]] = "running"]
  <2>1. PICK i \in DOMAIN q : /\ current' = q[i]
                              /\ ready' = RemoveAt(q, i)
                              /\ status' = [st EXCEPT ![q[i]] = "running"]
    BY <1>2
  <2>2. q[i] \in Thread  OBVIOUS
  <2> QED  BY <2>1, <2>2, RemoveAtType DEF OptThread, Statuses
<1> QED  BY <1>1, <1>2 DEF Schedule

LEMMA YieldType ==
  ASSUME NEW t \in Thread, NEW q \in Seq(Thread), NEW p,
         NEW st \in [Thread -> Statuses], Yield(t, q, p, st)
  PROVE  /\ current' \in OptThread
         /\ ready' \in Seq(Thread)
         /\ status' \in [Thread -> Statuses]
<1>1. Append(q, t) \in Seq(Thread)  OBVIOUS
<1>2. [st EXCEPT ![t] = "ready"] \in [Thread -> Statuses]  BY DEF Statuses
<1>3. Schedule(Append(q, t), p, [st EXCEPT ![t] = "ready"])  BY DEF Yield
<1> HIDE DEF Schedule
<1> QED  BY <1>1, <1>2, <1>3, ScheduleType

\* What the state after thread_unblock has for types.
LEMMA UnblockType ==
  ASSUME TypeOK, NEW w \in OptThread
  PROVE  /\ Enqueued(w) \in Seq(Thread)
         /\ Unblocked(w) \in [Thread -> Statuses]
BY DEF TypeOK, OptThread, Enqueued, Unblocked, Statuses

LEMMA RaiseType ==
  ASSUME TypeOK, NEW s \in Sema, NEW w, Raise(s, w)
  PROVE  /\ value' \in [Sema -> Nat]
         /\ waiters' \in [Sema -> Seq(Thread)]
         /\ w \in OptThread
<1>1. value' \in [Sema -> Nat]  BY DEF Raise, TypeOK
<1>2. CASE waiters[s] = <<>> /\ w = NoThread /\ UNCHANGED waiters
  BY <1>1, <1>2 DEF TypeOK, OptThread
<1>3. CASE \E i \in DOMAIN waiters[s] :
             /\ IsTop(i, waiters[s], prio)
             /\ w = waiters[s][i]
             /\ waiters' = [waiters EXCEPT ![s] = RemoveAt(@, i)]
  <2>1. PICK i \in DOMAIN waiters[s] :
             /\ w = waiters[s][i]
             /\ waiters' = [waiters EXCEPT ![s] = RemoveAt(waiters[s], i)]
    BY <1>3
  <2>2. waiters[s] \in Seq(Thread)  BY DEF TypeOK
  <2>3. RemoveAt(waiters[s], i) \in Seq(Thread)  BY <2>2, RemoveAtType
  <2>4. w \in Thread  BY <2>1, <2>2
  <2> QED  BY <1>1, <2>1, <2>3, <2>4 DEF TypeOK, OptThread
<1> QED  BY <1>2, <1>3 DEF Raise

-----------------------------------------------------------------------------
(* The inductive invariant. *)

\* What the locals of each routine point at.
LocalsOK ==
  \A t \in Thread :
    /\ pc[t] = "down" => target[t] \in Sema
    /\ pc[t] \in {"set_wait", "walk", "follow", "set_holder", "clear_wait",
                  "try_holder", "recompute", "up"} => target[t] \in Lock
    /\ pc[t] \in {"walk", "follow"} /\ ~panic => idx[t] \in Thread
    /\ pc[t] \in {"recompute", "up"} => target[t] \in held[t]

\* The semaphore of a lock is 1 exactly when nobody owns the lock.
OneToken ==
  \A l \in Lock :
    /\ value[l] \in {0, 1}
    /\ value[l] = 1 => \A t \in Thread : ~Owns(t, l)

\* holder names the owner from the assignment in lock_acquire to the one in
\* lock_release, whatever else the owner does in between.
HolderOK ==
  \A l \in Lock, t \in Thread :
    /\ holder[l] = t => Owns(t, l)
    /\ l \in held[t] /\ ~(pc[t] = "up" /\ target[t] = l) => holder[l] = t
    /\ pc[t] = "clear_wait" /\ target[t] = l => holder[l] = t
    /\ pc[t] = "up" /\ target[t] = l => holder[l] # t

LockInv == TypeOK /\ LocalsOK /\ OneToken /\ MutualExclusion /\ HolderOK

\* thread_init and lock_init leave every lock free, as the invariant asks.
THEOREM InitLockInv == Init => LockInv
<1> SUFFICES ASSUME Init PROVE LockInv
  OBVIOUS
<1> USE ThreadAssumption, SemaAssumption, PriorityAssumption DEF Init
<1>1. TypeOK
  <2>1. current \in OptThread /\ ready \in Seq(Thread)
    BY DEF OptThread
  <2>2. status \in [Thread -> {"unborn", "running", "ready", "blocked", "dying"}]
    OBVIOUS
  <2>3. prio \in [Thread -> Priority \cup {PRI_MIN}] /\ base \in [Thread -> Priority \cup {PRI_MIN}]
    OBVIOUS
  <2>4. value \in [Sema -> Nat] /\ waiters \in [Sema -> Seq(Thread)]
    OBVIOUS
  <2> QED  BY <2>1, <2>2, <2>3, <2>4 DEF TypeOK, OptThread, Labels
<1>2. \A t \in Thread, l \in Lock : ~Owns(t, l)
  BY DEF Owns
<1>3. LocalsOK
  BY DEF LocalsOK
<1>4. OneToken
  BY <1>2 DEF OneToken, Sema
<1>5. HolderOK
  BY <1>2 DEF HolderOK
<1> QED  BY <1>1, <1>2, <1>3, <1>4, <1>5 DEF LockInv, MutualExclusion

-----------------------------------------------------------------------------
(* Types. *)

\* Every step keeps the types.
LEMMA TypeStep ==
  ASSUME TypeOK, LocalsOK, Next
  PROVE  TypeOK'
<1> USE ThreadAssumption, SemaAssumption, PriorityAssumption DEF At, Goto
<1>1. ASSUME NEW t \in Thread, Preempt(t)
      PROVE  TypeOK'
  <2>1. ready \in Seq(Thread) /\ status \in [Thread -> Statuses]
    BY DEF TypeOK, Statuses
  <2>2. current' \in OptThread /\ ready' \in Seq(Thread) /\ status' \in [Thread -> Statuses]
    BY <1>1, <2>1, YieldType DEF Preempt
  <2> QED  BY <1>1, <2>2 DEF Preempt, TypeOK, Statuses, sems, locals
<1>2. ASSUME IdleBlock
      PROVE  TypeOK'
  <2>1. ready \in Seq(Thread) /\ status \in [Thread -> Statuses]
    BY DEF TypeOK, Statuses
  <2>2. current' \in OptThread /\ ready' \in Seq(Thread) /\ status' \in [Thread -> Statuses]
    BY <1>2, <2>1, ScheduleType DEF IdleBlock
  <2> QED  BY <1>2, <2>2 DEF IdleBlock, TypeOK, Statuses, sems, locals
<1>3. ASSUME NEW t \in Thread, NEW u \in Thread, NEW p \in Priority, ThreadCreate(t, u, p)
      PROVE  TypeOK'
  <2>1. Append(ready, u) \in Seq(Thread) /\ [status EXCEPT ![u] = "ready"] \in [Thread -> Statuses]
    BY DEF TypeOK, Statuses
  <2>2. current' \in OptThread /\ ready' \in Seq(Thread) /\ status' \in [Thread -> Statuses]
    BY <1>3, <2>1, YieldType DEF ThreadCreate
  <2> QED  BY <1>3, <2>2 DEF ThreadCreate, TypeOK, Statuses, sems, locals
<1>4. ASSUME NEW t \in Thread, ThreadExit(t)
      PROVE  TypeOK'
  <2>1. ready \in Seq(Thread) /\ [status EXCEPT ![t] = "dying"] \in [Thread -> Statuses]
    BY DEF TypeOK, Statuses
  <2>2. current' \in OptThread /\ ready' \in Seq(Thread) /\ status' \in [Thread -> Statuses]
    BY <1>4, <2>1, ScheduleType DEF ThreadExit
  <2> QED  BY <1>4, <2>2 DEF ThreadExit, TypeOK, Statuses, sems, locals
<1>5. ASSUME NEW t \in Thread, NEW p \in Priority, SetPriority(t, p)
      PROVE  TypeOK'
  BY <1>5 DEF SetPriority, TypeOK, Labels, sched, sems
<1>6. ASSUME NEW t \in Thread, SetPriorityEnd(t)
      PROVE  TypeOK'
  <2>1. ready \in Seq(Thread) /\ status \in [Thread -> Statuses]
    BY DEF TypeOK, Statuses
  <2>2. current' \in OptThread /\ ready' \in Seq(Thread) /\ status' \in [Thread -> Statuses]
    <3>1. CASE Yield(t, ready, prio', status)
      BY <3>1, <2>1, YieldType
    <3>2. CASE UNCHANGED sched
      BY <3>2, <2>1 DEF sched, TypeOK
    <3> QED  BY <1>6, <3>1, <3>2 DEF SetPriorityEnd
  <2> QED  BY <1>6, <2>2 DEF SetPriorityEnd, TypeOK, Statuses, Labels, sems
<1>7. ASSUME NEW t \in Thread, NEW s \in Event, SemaUp(t, s)
      PROVE  TypeOK'
  <2>1. PICK w \in OptThread : Raise(s, w) /\ Yield(t, Enqueued(w), prio, Unblocked(w))
    BY <1>7 DEF SemaUp
  <2>2. value' \in [Sema -> Nat] /\ waiters' \in [Sema -> Seq(Thread)]
    BY <2>1, RaiseType DEF Sema
  <2>3. current' \in OptThread /\ ready' \in Seq(Thread) /\ status' \in [Thread -> Statuses]
    BY <2>1, UnblockType, YieldType
  <2> QED  BY <1>7, <2>2, <2>3 DEF SemaUp, TypeOK, Statuses, locals
<1>8. ASSUME NEW s \in Event, InterruptUp(s)
      PROVE  TypeOK'
  <2>1. PICK w \in OptThread : Raise(s, w) /\ ready' = Enqueued(w) /\ status' = Unblocked(w)
    BY <1>8 DEF InterruptUp
  <2>2. value' \in [Sema -> Nat] /\ waiters' \in [Sema -> Seq(Thread)]
    BY <2>1, RaiseType DEF Sema
  <2>3. ready' \in Seq(Thread) /\ status' \in [Thread -> Statuses]
    BY <2>1, UnblockType
  <2> QED  BY <1>8, <2>2, <2>3 DEF InterruptUp, TypeOK, Statuses, locals
<1>9. ASSUME NEW t \in Thread, NEW s \in Event, SemaDown(t, s)
      PROVE  TypeOK'
  BY <1>9 DEF SemaDown, TypeOK, Labels, Sema, sched, sems, locals
<1>10. ASSUME NEW t \in Thread, DownWait(t)
       PROVE  TypeOK'
  <2>1. ready \in Seq(Thread) /\ [status EXCEPT ![t] = "blocked"] \in [Thread -> Statuses]
    BY DEF TypeOK, Statuses
  <2>2. current' \in OptThread /\ ready' \in Seq(Thread) /\ status' \in [Thread -> Statuses]
    BY <1>10, <2>1, ScheduleType DEF DownWait, Block
  <2>3. waiters' \in [Sema -> Seq(Thread)]
    BY <1>10 DEF DownWait, TypeOK, LocalsOK
  <2> QED  BY <1>10, <2>2, <2>3 DEF DownWait, TypeOK, Statuses, locals
<1>11. ASSUME NEW t \in Thread, DownTake(t)
       PROVE  TypeOK'
  <2>1. target[t] \in Sema
    BY <1>11 DEF DownTake, LocalsOK
  <2>2. value' \in [Sema -> Nat]
    BY <1>11, <2>1 DEF DownTake, TypeOK
  <2> QED  BY <1>11, <2>2 DEF DownTake, TypeOK, Labels, sched, locals
<1>12. ASSUME NEW t \in Thread, NEW s \in Event, SemaTryDown(t, s)
       PROVE  TypeOK'
  <2>1. value' \in [Sema -> Nat]
    BY <1>12 DEF SemaTryDown, TypeOK, Sema
  <2> QED  BY <1>12, <2>1 DEF SemaTryDown, TypeOK, sched, locals
<1>13. ASSUME NEW t \in Thread, NEW l \in Lock, LockAcquire(t, l)
       PROVE  TypeOK'
  BY <1>13 DEF LockAcquire, TypeOK, Labels, Sema, sched, sems
<1>14. ASSUME NEW t \in Thread, SetWait(t)
       PROVE  TypeOK'
  BY <1>14 DEF SetWait, TypeOK, Labels, OptThread, sched, sems
<1>15. ASSUME NEW t \in Thread, Donate(t)
       PROVE  TypeOK'
  <2>1. idx[t] \in Thread
    BY <1>15 DEF Donate, LocalsOK
  <2> QED  BY <1>15, <2>1 DEF Donate, TypeOK, Labels, sched, sems, locals
<1>16. ASSUME NEW t \in Thread, WalkEnd(t)
       PROVE  TypeOK'
  BY <1>16 DEF WalkEnd, TypeOK, Labels, OptThread, sched, sems
<1>17. ASSUME NEW t \in Thread, Follow(t)
       PROVE  TypeOK'
  <2>1. idx[t] \in Thread /\ waitThread[idx[t]] \in OptThread
    BY <1>17 DEF Follow, LocalsOK, TypeOK
  <2> DEFINE i == waitThread[idx[t]]
  <2>2. idx' = [idx EXCEPT ![t] = i]
    BY <1>17 DEF Follow
  <2>3. \/ panic' = TRUE /\ pc' = pc /\ next' = next
        \/ /\ i \in Thread
           /\ next' = [next EXCEPT ![t] = waitThread[i]]
           /\ pc' = [pc EXCEPT ![t] = "walk"]
           /\ panic' = panic
    BY <1>17, <2>1 DEF Follow, OptThread
  <2>4. i \in OptThread /\ (i \in Thread => waitThread[i] \in OptThread)
    BY <2>1 DEF TypeOK
  <2> HIDE DEF i
  <2>5. idx' \in [Thread -> OptThread] /\ next' \in [Thread -> OptThread]
    BY <2>2, <2>3, <2>4 DEF TypeOK
  <2>6. pc' \in [Thread -> Labels] /\ panic' \in BOOLEAN
    BY <2>3 DEF TypeOK, Labels
  <2>7. UNCHANGED <<sched, prio, base, waitThread, sems, holder, target, maxPrio, oldPrio, held>>
    BY <1>17 DEF Follow
  <2> QED  BY <2>5, <2>6, <2>7 DEF TypeOK, sched, sems
<1>18. ASSUME NEW t \in Thread, SetHolder(t)
       PROVE  TypeOK'
  BY <1>18 DEF SetHolder, TypeOK, Labels, OptThread, sched, sems, locals
<1>19. ASSUME NEW t \in Thread, AcquireEnd(t)
       PROVE  TypeOK'
  <2>1. target[t] \in Lock
    BY <1>19 DEF AcquireEnd, LocalsOK
  <2> QED  BY <1>19, <2>1 DEF AcquireEnd, TypeOK, Labels, OptThread, sched, sems, locals
<1>20. ASSUME NEW t \in Thread, NEW l \in Lock, LockTryAcquire(t, l)
       PROVE  TypeOK'
  <2>1. value' \in [Sema -> Nat]
    BY <1>20 DEF LockTryAcquire, TypeOK, Sema
  <2> QED  BY <1>20, <2>1 DEF LockTryAcquire, TypeOK, Labels, Sema, sched, locals
<1>21. ASSUME NEW t \in Thread, TryEnd(t)
       PROVE  TypeOK'
  <2>1. target[t] \in Lock
    BY <1>21 DEF TryEnd, LocalsOK
  <2> QED  BY <1>21, <2>1 DEF TryEnd, TypeOK, Labels, OptThread, sched, sems, locals
<1>22. ASSUME NEW t \in Thread, NEW l \in Lock, LockRelease(t, l)
       PROVE  TypeOK'
  <2>1. waitThread' \in [Thread -> OptThread]
    BY <1>22 DEF LockRelease, Retarget, TypeOK, OptThread
  <2> QED  BY <1>22, <2>1 DEF LockRelease, TypeOK, Labels, Sema, sched, sems, locals
<1>23. ASSUME NEW t \in Thread, ClearHolder(t)
       PROVE  TypeOK'
  <2>1. maxPrio' \in [Thread -> Priority \cup {PRI_MIN}]
    BY <1>23 DEF ClearHolder, TypeOK
  <2>2. holder' \in [Lock -> OptThread] /\ pc' \in [Thread -> Labels]
    BY <1>23 DEF ClearHolder, TypeOK, Labels, OptThread
  <2> QED  BY <1>23, <2>1, <2>2 DEF ClearHolder, TypeOK, sched, sems
<1>24. ASSUME NEW t \in Thread, ReleaseUp(t)
       PROVE  TypeOK'
  <2>1. PICK w \in OptThread : Raise(target[t], w) /\ Yield(t, Enqueued(w), prio, Unblocked(w))
    BY <1>24 DEF ReleaseUp
  <2>2. target[t] \in Sema
    BY <1>24 DEF ReleaseUp, LocalsOK, Sema
  <2>3. value' \in [Sema -> Nat] /\ waiters' \in [Sema -> Seq(Thread)]
    BY <2>1, <2>2, RaiseType
  <2>4. current' \in OptThread /\ ready' \in Seq(Thread) /\ status' \in [Thread -> Statuses]
    BY <2>1, UnblockType, YieldType
  <2> QED  BY <1>24, <2>3, <2>4 DEF ReleaseUp, TypeOK, Statuses, Labels, locals
<1>25. ASSUME NEW t \in Thread, ReleaseEnd(t)
       PROVE  TypeOK'
  <2>1. ready \in Seq(Thread) /\ status \in [Thread -> Statuses]
    BY DEF TypeOK, Statuses
  <2>2. current' \in OptThread /\ ready' \in Seq(Thread) /\ status' \in [Thread -> Statuses]
    BY <1>25, <2>1, YieldType DEF ReleaseEnd
  <2> QED  BY <1>25, <2>2 DEF ReleaseEnd, TypeOK, Statuses, Labels, sems
<1> QED
  BY <1>1, <1>2, <1>3, <1>4, <1>5, <1>6, <1>7, <1>8, <1>9, <1>10, <1>11, <1>12,
     <1>13, <1>14, <1>15, <1>16, <1>17, <1>18, <1>19, <1>20, <1>21, <1>22, <1>23,
     <1>24, <1>25
  DEF Next, ThreadOps, Continue

-----------------------------------------------------------------------------
(* Locks. *)

\* The labels at which a thread is neither taking nor giving up a lock.
Outside == {"run", "set_priority", "down", "set_wait", "walk", "follow", "set_prio"}

LocksOK == OneToken /\ MutualExclusion /\ HolderOK

\* A step of t outside the two ends of a critical section leaves the locks
\* as they are.
LEMMA OutsideStep ==
  ASSUME TypeOK, LocksOK, NEW t \in Thread,
         pc[t] \in Outside, pc'[t] \in Outside,
         \A u \in Thread \ {t} : pc'[u] = pc[u] /\ target'[u] = target[u],
         \A l \in Lock : value'[l] = value[l],
         UNCHANGED <<holder, held>>
  PROVE  LocksOK'
<1>1. \A u \in Thread, l \in Lock : Owns(u, l)' <=> Owns(u, l)
  BY DEF Owns, Outside
<1>2. OneToken' /\ MutualExclusion'
  BY <1>1 DEF LocksOK, OneToken, MutualExclusion
<1>3. HolderOK'
  <2> SUFFICES ASSUME NEW l \in Lock, NEW u \in Thread
      PROVE  /\ holder'[l] = u => Owns(u, l)'
             /\ l \in held'[u] /\ ~(pc'[u] = "up" /\ target'[u] = l) => holder'[l] = u
             /\ pc'[u] = "clear_wait" /\ target'[u] = l => holder'[l] = u
             /\ pc'[u] = "up" /\ target'[u] = l => holder'[l] # u
    BY DEF HolderOK
  <2>1. CASE u = t
    BY <1>1, <2>1 DEF LocksOK, HolderOK, Outside
  <2>2. CASE u # t
    BY <1>1, <2>2 DEF LocksOK, HolderOK
  <2> QED  BY <2>1, <2>2
<1> QED  BY <1>2, <1>3 DEF LocksOK

\* A step that touches none of the variables of locks.
LEMMA FrameStep ==
  ASSUME LocksOK, \A l \in Lock : value'[l] = value[l],
         UNCHANGED <<holder, held, pc, target>>
  PROVE  LocksOK'
BY DEF LocksOK, OneToken, MutualExclusion, HolderOK, Owns

\* The step that takes the token of lock l.
LEMMA TakeStep ==
  ASSUME TypeOK, LocksOK, NEW t \in Thread, NEW l \in Lock,
         value[l] > 0, value' = [value EXCEPT ![l] = @ - 1],
         pc[t] \in Outside, pc'[t] \in {"set_holder", "try_holder"}, target'[t] = l,
         \A u \in Thread \ {t} : pc'[u] = pc[u] /\ target'[u] = target[u],
         UNCHANGED <<holder, held>>
  PROVE  LocksOK'
<1>1. value[l] = 1 /\ \A u \in Thread : ~Owns(u, l)
  BY DEF LocksOK, OneToken
<1>2. value'[l] = 0 /\ \A k \in Lock \ {l} : value'[k] = value[k]
  BY <1>1 DEF TypeOK, Sema
<1>3. \A u \in Thread, k \in Lock : Owns(u, k)' <=> Owns(u, k) \/ (u = t /\ k = l)
  BY DEF Owns, Outside
<1>4. OneToken' /\ MutualExclusion'
  BY <1>1, <1>2, <1>3 DEF LocksOK, OneToken, MutualExclusion
<1>5. HolderOK'
  <2> SUFFICES ASSUME NEW k \in Lock, NEW u \in Thread
      PROVE  /\ holder'[k] = u => Owns(u, k)'
             /\ k \in held'[u] /\ ~(pc'[u] = "up" /\ target'[u] = k) => holder'[k] = u
             /\ pc'[u] = "clear_wait" /\ target'[u] = k => holder'[k] = u
             /\ pc'[u] = "up" /\ target'[u] = k => holder'[k] # u
    BY DEF HolderOK
  <2>1. CASE u = t
    BY <1>3, <2>1 DEF LocksOK, HolderOK, Outside
  <2>2. CASE u # t
    BY <1>3, <2>2 DEF LocksOK, HolderOK
  <2> QED  BY <2>1, <2>2
<1> QED  BY <1>4, <1>5 DEF LocksOK

\* Every step keeps the locks in order.
LEMMA LocksStep ==
  ASSUME TypeOK, LocalsOK, LocksOK, Next
  PROVE  LocksOK'
<1> USE SemaAssumption DEF At, Goto
<1>1. ASSUME NEW t \in Thread,
             \/ Preempt(t)
             \/ \E u \in Thread, p \in Priority : ThreadCreate(t, u, p)
             \/ ThreadExit(t)
      PROVE  LocksOK'
  BY <1>1, FrameStep DEF Preempt, ThreadCreate, ThreadExit, sems
<1>2. ASSUME IdleBlock
      PROVE  LocksOK'
  BY <1>2, FrameStep DEF IdleBlock, sems
<1>3. ASSUME NEW s \in Event,
             InterruptUp(s) \/ \E t \in Thread : SemaUp(t, s) \/ SemaTryDown(t, s)
      PROVE  LocksOK'
  <2>1. \A l \in Lock : value'[l] = value[l]
    BY <1>3 DEF SemaUp, SemaTryDown, InterruptUp, Raise, TypeOK, Sema
  <2> QED  BY <1>3, <2>1, FrameStep DEF SemaUp, SemaTryDown, InterruptUp
<1>4. ASSUME NEW t \in Thread,
             \/ \E p \in Priority : SetPriority(t, p)
             \/ SetPriorityEnd(t) \/ SetWait(t) \/ Donate(t) \/ WalkEnd(t)
             \/ DownWait(t)
             \/ \E s \in Event : SemaDown(t, s)
             \/ \E l \in Lock : LockAcquire(t, l)
      PROVE  LocksOK'
  <2>1. pc[t] \in Outside /\ pc'[t] \in Outside
    BY <1>4 DEF SetPriority, SetPriorityEnd, SetWait, Donate, WalkEnd, DownWait, SemaDown,
                LockAcquire, Outside, TypeOK
  <2>2. \A u \in Thread \ {t} : pc'[u] = pc[u] /\ target'[u] = target[u]
    BY <1>4 DEF SetPriority, SetPriorityEnd, SetWait, Donate, WalkEnd, DownWait, SemaDown,
                LockAcquire, TypeOK
  <2>3. value' = value /\ UNCHANGED <<holder, held>>
    BY <1>4 DEF SetPriority, SetPriorityEnd, SetWait, Donate, WalkEnd, DownWait, SemaDown,
                LockAcquire, sems
  <2> QED  BY <2>1, <2>2, <2>3, OutsideStep
<1>5. ASSUME NEW t \in Thread, Follow(t)
      PROVE  LocksOK'
  <2>1. pc[t] = "follow" /\ (pc' = pc \/ pc' = [pc EXCEPT ![t] = "walk"])
    BY <1>5 DEF Follow
  <2>2. pc[t] \in Outside /\ pc'[t] \in Outside /\ \A u \in Thread \ {t} : pc'[u] = pc[u]
    BY <2>1 DEF Outside, TypeOK
  <2>3. UNCHANGED <<target, value, holder, held>>
    BY <1>5 DEF Follow, sems
  <2> QED  BY <2>2, <2>3, OutsideStep
<1>6. ASSUME NEW t \in Thread, DownTake(t)
      PROVE  LocksOK'
  <2>1. target[t] \in Sema
    BY <1>6 DEF DownTake, LocalsOK
  <2>2. CASE target[t] \in Lock
    BY <1>6, <2>2, TakeStep DEF DownTake, TypeOK, Outside
  <2>3. CASE target[t] \notin Lock
    <3>1. \A l \in Lock : value'[l] = value[l]
      BY <1>6, <2>3 DEF DownTake, TypeOK, Sema
    <3> QED  BY <1>6, <2>3, <3>1, OutsideStep DEF DownTake, TypeOK, Outside
  <2> QED  BY <2>2, <2>3
<1>7. ASSUME NEW t \in Thread, NEW l \in Lock, LockTryAcquire(t, l)
      PROVE  LocksOK'
  BY <1>7, TakeStep DEF LockTryAcquire, TypeOK, Outside
<1>8. ASSUME NEW t \in Thread, SetHolder(t)
      PROVE  LocksOK'
  <2> DEFINE l == target[t]
  <2>1. /\ l \in Lock /\ pc[t] = "set_holder" /\ Owns(t, l)
        /\ pc' = [pc EXCEPT ![t] = "clear_wait"]
        /\ holder' = [holder EXCEPT ![l] = t]
        /\ UNCHANGED <<target, held, value>>
    BY <1>8 DEF SetHolder, LocalsOK, Owns, sems
  <2>2. \A u \in Thread, k \in Lock : Owns(u, k)' <=> Owns(u, k)
    BY <2>1 DEF Owns, TypeOK
  <2>3. OneToken' /\ MutualExclusion'
    BY <2>1, <2>2 DEF LocksOK, OneToken, MutualExclusion
  <2>4. HolderOK'
    <3> SUFFICES ASSUME NEW k \in Lock, NEW u \in Thread
        PROVE  /\ holder'[k] = u => Owns(u, k)'
               /\ k \in held'[u] /\ ~(pc'[u] = "up" /\ target'[u] = k) => holder'[k] = u
               /\ pc'[u] = "clear_wait" /\ target'[u] = k => holder'[k] = u
               /\ pc'[u] = "up" /\ target'[u] = k => holder'[k] # u
      BY DEF HolderOK
    <3>1. CASE u = t
      BY <2>1, <2>2, <3>1 DEF LocksOK, HolderOK, MutualExclusion, Owns, TypeOK
    <3>2. CASE u # t
      BY <2>1, <2>2, <3>2 DEF LocksOK, HolderOK, MutualExclusion, Owns, TypeOK
    <3> QED  BY <3>1, <3>2
  <2> QED  BY <2>3, <2>4 DEF LocksOK
<1>9. ASSUME NEW t \in Thread, AcquireEnd(t) \/ TryEnd(t)
      PROVE  LocksOK'
  <2> DEFINE l == target[t]
  <2>1. /\ l \in Lock /\ pc[t] \in {"clear_wait", "try_holder"} /\ Owns(t, l)
        /\ pc' = [pc EXCEPT ![t] = "run"]
        /\ held' = [held EXCEPT ![t] = @ \cup {l}]
        /\ target' = [target EXCEPT ![t] = NoSema]
        /\ value' = value
        /\ \/ holder' = holder /\ pc[t] = "clear_wait"
           \/ holder' = [holder EXCEPT ![l] = t]
    BY <1>9 DEF AcquireEnd, TryEnd, LocalsOK, Owns, sems
  <2>2. \A u \in Thread, k \in Lock : Owns(u, k)' <=> Owns(u, k)
    BY <2>1 DEF Owns, TypeOK
  <2>3. OneToken' /\ MutualExclusion'
    BY <2>1, <2>2 DEF LocksOK, OneToken, MutualExclusion
  <2>4. HolderOK'
    <3> SUFFICES ASSUME NEW k \in Lock, NEW u \in Thread
        PROVE  /\ holder'[k] = u => Owns(u, k)'
               /\ k \in held'[u] /\ ~(pc'[u] = "up" /\ target'[u] = k) => holder'[k] = u
               /\ pc'[u] = "clear_wait" /\ target'[u] = k => holder'[k] = u
               /\ pc'[u] = "up" /\ target'[u] = k => holder'[k] # u
      BY DEF HolderOK
    <3>1. CASE u = t
      BY <2>1, <2>2, <3>1 DEF LocksOK, HolderOK, MutualExclusion, Owns, TypeOK
    <3>2. CASE u # t
      BY <2>1, <2>2, <3>2 DEF LocksOK, HolderOK, MutualExclusion, Owns, TypeOK
    <3> QED  BY <3>1, <3>2
  <2> QED  BY <2>3, <2>4 DEF LocksOK
<1>10. ASSUME NEW t \in Thread, NEW l \in Lock, LockRelease(t, l)
       PROVE  LocksOK'
  <2>1. /\ pc[t] = "run" /\ l \in held[t]
        /\ pc' = [pc EXCEPT ![t] = "recompute"]
        /\ target' = [target EXCEPT ![t] = l]
        /\ UNCHANGED <<value, holder, held>>
    BY <1>10 DEF LockRelease, sems
  <2>2. \A u \in Thread, k \in Lock : Owns(u, k)' <=> Owns(u, k)
    BY <2>1 DEF Owns, TypeOK
  <2>3. OneToken' /\ MutualExclusion'
    BY <2>1, <2>2 DEF LocksOK, OneToken, MutualExclusion
  <2>4. HolderOK'
    <3> SUFFICES ASSUME NEW k \in Lock, NEW u \in Thread
        PROVE  /\ holder'[k] = u => Owns(u, k)'
               /\ k \in held'[u] /\ ~(pc'[u] = "up" /\ target'[u] = k) => holder'[k] = u
               /\ pc'[u] = "clear_wait" /\ target'[u] = k => holder'[k] = u
               /\ pc'[u] = "up" /\ target'[u] = k => holder'[k] # u
      BY DEF HolderOK
    <3>1. CASE u = t
      BY <2>1, <2>2, <3>1 DEF LocksOK, HolderOK, MutualExclusion, Owns, TypeOK
    <3>2. CASE u # t
      BY <2>1, <2>2, <3>2 DEF LocksOK, HolderOK, MutualExclusion, Owns, TypeOK
    <3> QED  BY <3>1, <3>2
  <2> QED  BY <2>3, <2>4 DEF LocksOK
<1>11. ASSUME NEW t \in Thread, ClearHolder(t)
       PROVE  LocksOK'
  <2> DEFINE l == target[t]
  <2>1. /\ l \in Lock /\ l \in held[t] /\ pc[t] = "recompute" /\ Owns(t, l)
        /\ pc' = [pc EXCEPT ![t] = "up"]
        /\ holder' = [holder EXCEPT ![l] = NoThread]
        /\ UNCHANGED <<target, value, held>>
    BY <1>11 DEF ClearHolder, LocalsOK, Owns, sems
  <2>2. \A u \in Thread, k \in Lock : Owns(u, k)' <=> Owns(u, k)
    BY <2>1 DEF Owns, TypeOK
  <2>3. OneToken' /\ MutualExclusion'
    BY <2>1, <2>2 DEF LocksOK, OneToken, MutualExclusion
  <2>4. HolderOK'
    <3> SUFFICES ASSUME NEW k \in Lock, NEW u \in Thread
        PROVE  /\ holder'[k] = u => Owns(u, k)'
               /\ k \in held'[u] /\ ~(pc'[u] = "up" /\ target'[u] = k) => holder'[k] = u
               /\ pc'[u] = "clear_wait" /\ target'[u] = k => holder'[k] = u
               /\ pc'[u] = "up" /\ target'[u] = k => holder'[k] # u
      BY DEF HolderOK
    <3>1. CASE u = t
      BY <2>1, <2>2, ThreadAssumption, <3>1 DEF LocksOK, HolderOK, MutualExclusion, Owns, TypeOK
    <3>2. CASE u # t
      BY <2>1, <2>2, ThreadAssumption, <3>2 DEF LocksOK, HolderOK, MutualExclusion, Owns, TypeOK
    <3> QED  BY <3>1, <3>2
  <2> QED  BY <2>3, <2>4 DEF LocksOK
<1>12. ASSUME NEW t \in Thread, ReleaseUp(t)
       PROVE  LocksOK'
  <2> DEFINE l == target[t]
  <2>1. /\ l \in Lock /\ l \in held[t] /\ pc[t] = "up" /\ Owns(t, l)
        /\ pc' = [pc EXCEPT ![t] = "set_prio"]
        /\ target' = [target EXCEPT ![t] = NoSema]
        /\ held' = [held EXCEPT ![t] = @ \ {l}]
        /\ value' = [value EXCEPT ![l] = @ + 1]
        /\ holder' = holder
    BY <1>12 DEF ReleaseUp, Raise, LocalsOK, Owns
  <2>2. \A u \in Thread, k \in Lock : Owns(u, k)' <=> Owns(u, k) /\ ~(u = t /\ k = l)
    BY <2>1 DEF Owns, TypeOK
  <2>3. value[l] = 0
    BY <2>1 DEF LocksOK, OneToken
  <2>4. OneToken' /\ MutualExclusion'
    BY <2>1, <2>2, <2>3 DEF LocksOK, OneToken, MutualExclusion, TypeOK, Sema
  <2>5. HolderOK'
    <3> SUFFICES ASSUME NEW k \in Lock, NEW u \in Thread
        PROVE  /\ holder'[k] = u => Owns(u, k)'
               /\ k \in held'[u] /\ ~(pc'[u] = "up" /\ target'[u] = k) => holder'[k] = u
               /\ pc'[u] = "clear_wait" /\ target'[u] = k => holder'[k] = u
               /\ pc'[u] = "up" /\ target'[u] = k => holder'[k] # u
      BY DEF HolderOK
    <3>1. CASE u = t
      BY <2>1, <2>2, <3>1 DEF LocksOK, HolderOK, MutualExclusion, Owns, TypeOK
    <3>2. CASE u # t
      BY <2>1, <2>2, <3>2 DEF LocksOK, HolderOK, MutualExclusion, Owns, TypeOK
    <3> QED  BY <3>1, <3>2
  <2> QED  BY <2>4, <2>5 DEF LocksOK
<1>13. ASSUME NEW t \in Thread, ReleaseEnd(t)
       PROVE  LocksOK'
  BY <1>13, OutsideStep DEF ReleaseEnd, Outside, TypeOK, sems
<1> QED
  BY <1>1, <1>2, <1>3, <1>4, <1>5, <1>6, <1>7, <1>8, <1>9, <1>10, <1>11, <1>12, <1>13
  DEF Next, ThreadOps, Continue

-----------------------------------------------------------------------------
(* Locals. *)

\* A step of t keeps the locals of the other threads meaningful.
LEMMA LocalsFrame ==
  ASSUME LocalsOK, NEW t \in Thread,
         \A u \in Thread \ {t} : /\ pc'[u] = pc[u] /\ target'[u] = target[u]
                                 /\ idx'[u] = idx[u] /\ held'[u] = held[u],
         panic => panic',
         pc'[t] = "down" => target'[t] \in Sema,
         pc'[t] \in {"set_wait", "walk", "follow", "set_holder", "clear_wait",
                     "try_holder", "recompute", "up"} => target'[t] \in Lock,
         pc'[t] \in {"walk", "follow"} /\ ~panic' => idx'[t] \in Thread,
         pc'[t] \in {"recompute", "up"} => target'[t] \in held'[t]
  PROVE  LocalsOK'
BY DEF LocalsOK

LEMMA LocalsStep ==
  ASSUME TypeOK, LocalsOK, Next
  PROVE  LocalsOK'
<1> USE DEF At, Goto
<1>1. ASSUME NEW t \in Thread,
             \/ Preempt(t)
             \/ \E u \in Thread, p \in Priority : ThreadCreate(t, u, p)
             \/ ThreadExit(t)
             \/ \E s \in Event : SemaUp(t, s) \/ SemaTryDown(t, s)
             \/ DownWait(t)
      PROVE  LocalsOK'
  BY <1>1 DEF LocalsOK, Preempt, ThreadCreate, ThreadExit, SemaUp, SemaTryDown, DownWait, locals
<1>2. ASSUME IdleBlock \/ \E s \in Event : InterruptUp(s)
      PROVE  LocalsOK'
  BY <1>2 DEF LocalsOK, IdleBlock, InterruptUp, locals
<1>3. ASSUME NEW t \in Thread,
             \/ \E p \in Priority : SetPriority(t, p)
             \/ SetPriorityEnd(t)
             \/ \E s \in Event : SemaDown(t, s)
      PROVE  LocalsOK'
  <2>1. pc'[t] \in {"set_priority", "run"} \/ (pc'[t] = "down" /\ target'[t] \in Event)
    BY <1>3 DEF SetPriority, SetPriorityEnd, SemaDown, TypeOK
  <2>2. \A u \in Thread \ {t} : pc'[u] = pc[u] /\ target'[u] = target[u]
    BY <1>3 DEF SetPriority, SetPriorityEnd, SemaDown, TypeOK
  <2>3. UNCHANGED <<idx, held, panic>>
    BY <1>3 DEF SetPriority, SetPriorityEnd, SemaDown, locals
  <2> QED  BY <2>1, <2>2, <2>3, LocalsFrame DEF Sema
<1>4. ASSUME NEW t \in Thread, DownTake(t)
      PROVE  LocalsOK'
  <2>1. \/ target[t] \in Lock /\ pc' = [pc EXCEPT ![t] = "set_holder"] /\ target' = target
        \/ pc' = [pc EXCEPT ![t] = "run"] /\ target' = [target EXCEPT ![t] = NoSema]
    BY <1>4 DEF DownTake
  <2>2. UNCHANGED <<idx, held, panic>>
    BY <1>4 DEF DownTake, locals
  <2> QED  BY <2>1, <2>2, LocalsFrame DEF TypeOK
<1>5. ASSUME NEW t \in Thread, NEW l \in Lock, LockAcquire(t, l) \/ LockTryAcquire(t, l)
      PROVE  LocalsOK'
  <2>1. /\ target' = [target EXCEPT ![t] = l]
        /\ \E p \in {"down", "set_wait", "try_holder"} : pc' = [pc EXCEPT ![t] = p]
        /\ UNCHANGED <<idx, held, panic>>
    BY <1>5 DEF LockAcquire, LockTryAcquire, locals
  <2> QED  BY <2>1, LocalsFrame DEF TypeOK, Sema
<1>6. ASSUME NEW t \in Thread, SetWait(t)
      PROVE  LocalsOK'
  <2>1. pc[t] = "set_wait" /\ target[t] \in Lock
    BY <1>6 DEF SetWait, LocalsOK
  <2> QED  BY <1>6, <2>1, LocalsFrame DEF SetWait, TypeOK
<1>7. ASSUME NEW t \in Thread, Donate(t)
      PROVE  LocalsOK'
  <2>1. target[t] \in Lock /\ idx[t] \in Thread
    BY <1>7 DEF Donate, LocalsOK
  <2> QED  BY <1>7, <2>1, LocalsFrame DEF Donate, TypeOK, locals
<1>8. ASSUME NEW t \in Thread, WalkEnd(t)
      PROVE  LocalsOK'
  <2>1. target[t] \in Lock
    BY <1>8 DEF WalkEnd, LocalsOK
  <2> QED  BY <1>8, <2>1, LocalsFrame DEF WalkEnd, TypeOK, Sema
<1>9. ASSUME NEW t \in Thread, Follow(t)
      PROVE  LocalsOK'
  <2>1. target[t] \in Lock /\ idx[t] \in Thread /\ pc[t] = "follow" /\ ~panic
    BY <1>9 DEF Follow, LocalsOK
  <2>2. waitThread[idx[t]] \in OptThread
    BY <2>1 DEF TypeOK
  <2>3. \/ panic' = TRUE /\ pc' = pc
        \/ pc' = [pc EXCEPT ![t] = "walk"] /\ waitThread[idx[t]] \in Thread
    BY <1>9, <2>2 DEF Follow, OptThread
  <2>4. idx' = [idx EXCEPT ![t] = waitThread[idx[t]]] /\ UNCHANGED <<target, held>>
    BY <1>9 DEF Follow
  <2> QED  BY <2>1, <2>3, <2>4, LocalsFrame DEF TypeOK
<1>10. ASSUME NEW t \in Thread, SetHolder(t)
       PROVE  LocalsOK'
  <2>1. target[t] \in Lock
    BY <1>10 DEF SetHolder, LocalsOK
  <2> QED  BY <1>10, <2>1, LocalsFrame DEF SetHolder, TypeOK, locals
<1>11. ASSUME NEW t \in Thread, AcquireEnd(t) \/ TryEnd(t) \/ ReleaseUp(t) \/ ReleaseEnd(t)
       PROVE  LocalsOK'
  <2>1. pc'[t] \in {"run", "set_prio"} /\ UNCHANGED <<idx, panic>>
    BY <1>11 DEF AcquireEnd, TryEnd, ReleaseUp, ReleaseEnd, TypeOK, locals
  <2>2. \A u \in Thread \ {t} : pc'[u] = pc[u] /\ target'[u] = target[u] /\ held'[u] = held[u]
    BY <1>11 DEF AcquireEnd, TryEnd, ReleaseUp, ReleaseEnd, TypeOK, locals
  <2> QED  BY <2>1, <2>2, LocalsFrame
<1>12. ASSUME NEW t \in Thread, NEW l \in Lock, LockRelease(t, l)
       PROVE  LocalsOK'
  BY <1>12, LocalsFrame DEF LockRelease, TypeOK, locals
<1>13. ASSUME NEW t \in Thread, ClearHolder(t)
       PROVE  LocalsOK'
  <2>1. target[t] \in held[t] /\ target[t] \in Lock
    BY <1>13 DEF ClearHolder, LocalsOK
  <2> QED  BY <1>13, <2>1, LocalsFrame DEF ClearHolder, TypeOK
<1> QED
  BY <1>1, <1>2, <1>3, <1>4, <1>5, <1>6, <1>7, <1>8, <1>9, <1>10, <1>11, <1>12, <1>13
  DEF Next, ThreadOps, Continue

-----------------------------------------------------------------------------
(* The theorems. *)

\* A step that changes no variable keeps the invariant.
LEMMA StutterLockInv ==
  ASSUME LockInv, UNCHANGED vars
  PROVE  LockInv'
BY DEF LockInv, TypeOK, LocalsOK, OneToken, MutualExclusion, HolderOK, Owns, vars

\* lock_acquire, lock_try_acquire and lock_release keep it in any order of
\* their steps and those of the scheduler (synch.c, thread.c).
THEOREM LockInvariant == Spec => []LockInv
<1>1. Init => LockInv
  BY InitLockInv
<1>2. LockInv /\ [Next]_vars => LockInv'
  <2> SUFFICES ASSUME LockInv, [Next]_vars PROVE LockInv'
    OBVIOUS
  <2>1. CASE Next
    BY <2>1, TypeStep, LocalsStep, LocksStep DEF LockInv, LocksOK
  <2>2. CASE UNCHANGED vars
    BY <2>2, StutterLockInv
  <2> QED  BY <2>1, <2>2
<1> QED  BY <1>1, <1>2, PTL DEF Spec

\* Every variable keeps its type.
THEOREM TypeCorrect == Spec => []TypeOK
<1>1. LockInv => TypeOK
  BY DEF LockInv
<1> QED  BY <1>1, LockInvariant, PTL

\* At most one thread at a time is inside the critical section of a lock, for
\* any number of threads and locks and whatever the timer interleaves.
THEOREM MutualExclusionCorrect == Spec => []MutualExclusion
<1>1. LockInv => MutualExclusion
  BY DEF LockInv
<1> QED  BY <1>1, LockInvariant, PTL

\* lock->holder is the owner whenever the code tests it.
THEOREM HolderCorrect == Spec => []HolderIsOwner
<1>1. LockInv => HolderIsOwner
  BY DEF LockInv, HolderOK, HolderIsOwner
<1> QED  BY <1>1, LockInvariant, PTL
-----------------------------------------------------------------------------
(* The locks implement Mutex. *)

Gains(t, l) == \A u \in Thread, k \in Lock : Owns(u, k)' <=> Owns(u, k) \/ (u = t /\ k = l)
Loses(t, l) == \A u \in Thread, k \in Lock : Owns(u, k)' <=> Owns(u, k) /\ ~(u = t /\ k = l)
Same == \A u \in Thread, k \in Lock : Owns(u, k)' <=> Owns(u, k)

\* A step leaves all ownership alone, or gives a free lock to one thread, or
\* takes a lock from its owner.
LEMMA OwnershipStep ==
  ASSUME TypeOK, LocalsOK, Next
  PROVE  \/ Same
         \/ \E t \in Thread, l \in Lock : value[l] > 0 /\ Gains(t, l)
         \/ \E t \in Thread, l \in Lock : Owns(t, l) /\ Loses(t, l)
<1> USE DEF At, Goto
<1>1. ASSUME \/ \E t \in Thread : Preempt(t) \/ ThreadExit(t) \/ DownWait(t)
             \/ \E t, u \in Thread, p \in Priority : ThreadCreate(t, u, p)
             \/ \E t \in Thread, s \in Event : SemaUp(t, s) \/ SemaTryDown(t, s)
             \/ \E s \in Event : InterruptUp(s)
             \/ IdleBlock
      PROVE  Same
  <2>1. UNCHANGED <<pc, target, held>>
    BY <1>1 DEF Preempt, ThreadExit, DownWait, ThreadCreate, SemaUp, SemaTryDown, InterruptUp, IdleBlock
  <2> QED  BY <2>1 DEF Owns, Same
<1>2. ASSUME NEW t \in Thread,
             \/ \E p \in Priority : SetPriority(t, p)
             \/ \E s \in Event : SemaDown(t, s)
             \/ \E l \in Lock : LockAcquire(t, l) \/ LockRelease(t, l)
             \/ SetPriorityEnd(t) \/ SetWait(t) \/ Donate(t) \/ WalkEnd(t) \/ Follow(t)
             \/ ClearHolder(t) \/ ReleaseEnd(t)
      PROVE  Same
  <2>1. /\ held' = held
        /\ pc[t] \notin {"set_holder", "clear_wait", "try_holder"}
        /\ pc'[t] \notin {"set_holder", "clear_wait", "try_holder"}
        /\ \A u \in Thread \ {t} : pc'[u] = pc[u] /\ target'[u] = target[u]
    BY <1>2 DEF SetPriority, SemaDown, LockAcquire, LockRelease, SetPriorityEnd, SetWait, Donate,
         WalkEnd, Follow, ClearHolder, ReleaseEnd, TypeOK
  <2> QED  BY <2>1 DEF Owns, Same
<1>3. ASSUME NEW t \in Thread, SetHolder(t)
      PROVE  Same
  BY <1>3 DEF SetHolder, TypeOK, Owns, Same
<1>4. ASSUME NEW t \in Thread, AcquireEnd(t) \/ TryEnd(t)
      PROVE  Same
  <2>1. /\ pc[t] \in {"clear_wait", "try_holder"}
        /\ held' = [held EXCEPT ![t] = @ \cup {target[t]}]
        /\ pc' = [pc EXCEPT ![t] = "run"]
        /\ target' = [target EXCEPT ![t] = NoSema]
    BY <1>4 DEF AcquireEnd, TryEnd
  <2> QED  BY <2>1 DEF TypeOK, Owns, Same
<1>5. ASSUME NEW t \in Thread, DownTake(t), target[t] \notin Lock
      PROVE  Same
  BY <1>5 DEF DownTake, TypeOK, Owns, Same
<1>6. ASSUME NEW t \in Thread, DownTake(t), target[t] \in Lock
      PROVE  value[target[t]] > 0 /\ Gains(t, target[t])
  BY <1>6 DEF DownTake, TypeOK, Owns, Gains
<1>7. ASSUME NEW t \in Thread, NEW l \in Lock, LockTryAcquire(t, l)
      PROVE  value[l] > 0 /\ Gains(t, l)
  BY <1>7 DEF LockTryAcquire, TypeOK, Owns, Gains
<1>8. ASSUME NEW t \in Thread, ReleaseUp(t)
      PROVE  target[t] \in Lock /\ Owns(t, target[t]) /\ Loses(t, target[t])
  <2>1. target[t] \in Lock /\ target[t] \in held[t]
    BY <1>8 DEF ReleaseUp, LocalsOK
  <2> QED  BY <1>8, <2>1 DEF ReleaseUp, TypeOK, Owns, Loses
<1> QED
  BY <1>1, <1>2, <1>3, <1>4, <1>5, <1>6, <1>7, <1>8 DEF Next, ThreadOps, Continue

\* The owner is the one thread that owns the lock.
LEMMA OwnerIs ==
  ASSUME MutualExclusion, NEW l \in Lock
  PROVE  /\ \A t \in Thread : Owns(t, l) => Owner[l] = t
         /\ (\A t \in Thread : ~Owns(t, l)) => Owner[l] = NoThread
BY DEF Owner, MutualExclusion

LEMMA OwnerIsNext ==
  ASSUME MutualExclusion', NEW l \in Lock
  PROVE  /\ \A t \in Thread : Owns(t, l)' => Owner'[l] = t
         /\ (\A t \in Thread : ~Owns(t, l)') => Owner'[l] = NoThread
BY DEF Owner, MutualExclusion

LEMMA OwnerMaps ==
  ASSUME LockInv, LockInv', Next
  PROVE  [M!Next]_Owner
<1> USE OwnerIs, OwnerIsNext DEF LockInv
<1>1. Owner = [l \in Lock |-> Owner[l]] /\ Owner' = [l \in Lock |-> Owner'[l]]
  BY DEF Owner
<1>2. CASE Same
  <2>1. ASSUME NEW l \in Lock
        PROVE  Owner'[l] = Owner[l]
    <3>1. CASE \E t \in Thread : Owns(t, l)
      <4>1. PICK t \in Thread : Owns(t, l)
        BY <3>1
      <4>2. Owns(t, l)'
        BY <1>2, <4>1 DEF Same
      <4> QED  BY <4>1, <4>2
    <3>2. CASE \A t \in Thread : ~Owns(t, l)
      <4>1. \A t \in Thread : ~Owns(t, l)'
        BY <1>2, <3>2 DEF Same
      <4> QED  BY <3>2, <4>1
    <3> QED  BY <3>1, <3>2
  <2> QED  BY <1>1, <2>1
<1>3. ASSUME NEW t \in Thread, NEW l \in Lock, value[l] > 0, Gains(t, l)
      PROVE  M!Acquire(t, l)
  <2>1. \A u \in Thread : ~Owns(u, l)
    BY <1>3 DEF OneToken
  <2>2. Owner[l] = NoThread
    BY <2>1
  <2>3. Owns(t, l)'
    BY <1>3 DEF Gains
  <2>4. Owner'[l] = t
    BY <2>3
  <2>5. ASSUME NEW k \in Lock \ {l}
        PROVE  Owner'[k] = Owner[k]
    <3>1. \A u \in Thread : Owns(u, k)' <=> Owns(u, k)
      BY <1>3, <2>5 DEF Gains
    <3>2. CASE \E u \in Thread : Owns(u, k)
      BY <3>1, <3>2
    <3>3. CASE \A u \in Thread : ~Owns(u, k)
      BY <3>1, <3>3
    <3> QED  BY <3>2, <3>3
  <2> QED  BY <1>1, <2>2, <2>4, <2>5 DEF M!Acquire
<1>4. ASSUME NEW t \in Thread, NEW l \in Lock, Owns(t, l), Loses(t, l)
      PROVE  M!Release(t, l)
  <2>1. Owner[l] = t
    BY <1>4
  <2>2. \A u \in Thread : ~Owns(u, l)'
    BY <1>4 DEF Loses, MutualExclusion
  <2>3. Owner'[l] = NoThread
    BY <2>2
  <2>4. ASSUME NEW k \in Lock \ {l}
        PROVE  Owner'[k] = Owner[k]
    <3>1. \A u \in Thread : Owns(u, k)' <=> Owns(u, k)
      BY <1>4, <2>4 DEF Loses
    <3>2. CASE \E u \in Thread : Owns(u, k)
      BY <3>1, <3>2
    <3>3. CASE \A u \in Thread : ~Owns(u, k)
      BY <3>1, <3>3
    <3> QED  BY <3>2, <3>3
  <2> QED  BY <1>1, <2>1, <2>3, <2>4 DEF M!Release
<1> QED  BY <1>2, <1>3, <1>4, OwnershipStep DEF M!Next

\* Acquire, try and release, in all their steps, are the steps of a lock with
\* one owner: every module above may use the abstract lock.
THEOREM MutexRefinement == Spec => ImplementsMutex
<1>1. Init => M!Init
  <2> SUFFICES ASSUME Init PROVE M!Init
    OBVIOUS
  <2>1. \A t \in Thread, l \in Lock : ~Owns(t, l)
    BY DEF Init, Owns
  <2> QED  BY <2>1 DEF M!Init, Owner
<1>2. LockInv /\ LockInv' /\ [Next]_vars => [M!Next]_Owner
  <2> SUFFICES ASSUME LockInv, LockInv', [Next]_vars PROVE [M!Next]_Owner
    OBVIOUS
  <2>1. CASE UNCHANGED vars
    BY <2>1 DEF vars, Owner, Owns
  <2> QED  BY <2>1, OwnerMaps
<1> QED  BY <1>1, <1>2, LockInvariant, PTL DEF Spec, ImplementsMutex, M!Spec

-----------------------------------------------------------------------------
(* Donation. *)

\* A thread that has not been created is not running, and in no routine.
Created ==
  \A t \in Thread : /\ current = t => status[t] # "unborn"
                    /\ status[t] = "unborn" => pc[t] = "run"

\* The maximum a thread carries over a yield is not below its base priority.
MaxAboveBase ==
  \A t \in Thread :
    pc[t] \in {"set_priority", "up", "set_prio"} => maxPrio[t] >= base[t]

DonationInv == Created /\ MaxAboveBase /\ PriorityAboveBase

\* No thread becomes unborn, and the one that runs next was created.
LEMMA ScheduleCreates ==
  ASSUME NEW q \in Seq(Thread), NEW p, NEW st \in [Thread -> Statuses],
         Schedule(q, p, st), NoThread \notin Thread
  PROVE  \A u \in Thread : /\ current' = u => status'[u] # "unborn"
                           /\ status'[u] = "unborn" => st[u] = "unborn"
<1>1. CASE q = <<>> /\ current' = NoThread /\ status' = st
  BY <1>1
<1>2. CASE \E i \in DOMAIN q : current' = q[i] /\ status' = [st EXCEPT ![q[i]] = "running"]
  BY <1>2
<1> QED  BY <1>1, <1>2 DEF Schedule

LEMMA YieldCreates ==
  ASSUME NEW t \in Thread, NEW q \in Seq(Thread), NEW p,
         NEW st \in [Thread -> Statuses], Yield(t, q, p, st), NoThread \notin Thread
  PROVE  \A u \in Thread : /\ current' = u => status'[u] # "unborn"
                           /\ status'[u] = "unborn" => st[u] = "unborn"
<1>1. Append(q, t) \in Seq(Thread) /\ [st EXCEPT ![t] = "ready"] \in [Thread -> Statuses]
  BY DEF Statuses
<1>2. Schedule(Append(q, t), p, [st EXCEPT ![t] = "ready"])
  BY DEF Yield
<1> HIDE DEF Schedule
<1> QED  BY <1>1, <1>2, ScheduleCreates

\* Every step keeps threads created, and only the running one moves.
LEMMA CreatedStep ==
  ASSUME TypeOK, LocalsOK, Created, Next
  PROVE  Created'
<1> USE ThreadAssumption
<1>1. ready \in Seq(Thread) /\ status \in [Thread -> Statuses] /\ pc \in [Thread -> Labels]
  BY DEF TypeOK, Statuses
<1>2. \A w \in OptThread : /\ Enqueued(w) \in Seq(Thread)
                           /\ Unblocked(w) \in [Thread -> Statuses]
                           /\ \A u \in Thread : Unblocked(w)[u] = "unborn" => status[u] = "unborn"
  BY UnblockType DEF Unblocked
<1> DEFINE Keeps == \A u \in Thread : /\ current' = u => status'[u] # "unborn"
                                      /\ status'[u] = "unborn" => status[u] = "unborn"
<1>3. ASSUME NEW t \in Thread, current = t, \A u \in Thread \ {t} : pc'[u] = pc[u],
             Keeps
      PROVE  Created'
  BY <1>3 DEF Created
<1>4. ASSUME NEW t \in Thread, current = t, UNCHANGED sched, \A u \in Thread \ {t} : pc'[u] = pc[u]
      PROVE  Created'
  BY <1>4 DEF Created, sched
<1>5. ASSUME NEW t \in Thread, Preempt(t)
      PROVE  Created'
  BY <1>1, <1>3, <1>5, YieldCreates DEF Preempt
<1>6. ASSUME IdleBlock
      PROVE  Created'
  BY <1>1, <1>6, ScheduleCreates DEF IdleBlock, Created
<1>7. ASSUME NEW t \in Thread, NEW u \in Thread, NEW p \in Priority, ThreadCreate(t, u, p)
      PROVE  Created'
  <2>1. Append(ready, u) \in Seq(Thread) /\ [status EXCEPT ![u] = "ready"] \in [Thread -> Statuses]
    BY <1>1 DEF Statuses
  <2>2. \A v \in Thread : [status EXCEPT ![u] = "ready"][v] = "unborn" => status[v] = "unborn"
    BY <1>1
  <2>3. Keeps
    BY <1>7, <2>1, <2>2, YieldCreates DEF ThreadCreate
  <2> QED  BY <1>3, <1>7, <2>3 DEF ThreadCreate, At
<1>8. ASSUME NEW t \in Thread, ThreadExit(t)
      PROVE  Created'
  <2>1. [status EXCEPT ![t] = "dying"] \in [Thread -> Statuses]
    BY <1>1 DEF Statuses
  <2>2. Keeps
    BY <1>1, <1>8, <2>1, ScheduleCreates DEF ThreadExit
  <2> QED  BY <1>3, <1>8, <2>2 DEF ThreadExit, At
<1>9. ASSUME NEW t \in Thread, SetPriorityEnd(t)
      PROVE  Created'
  <2>1. CASE Yield(t, ready, prio', status)
    <3>1. Keeps
      BY <1>1, <2>1, YieldCreates
    <3> QED  BY <1>1, <1>3, <1>9, <3>1 DEF SetPriorityEnd, At, Goto
  <2>2. CASE UNCHANGED sched
    BY <1>1, <1>4, <1>9, <2>2 DEF SetPriorityEnd, At, Goto
  <2> QED  BY <1>9, <2>1, <2>2 DEF SetPriorityEnd
<1>10. ASSUME NEW t \in Thread, (\E s \in Event : SemaUp(t, s)) \/ ReleaseUp(t)
       PROVE  Created'
  <2>1. PICK w \in OptThread : Yield(t, Enqueued(w), prio, Unblocked(w))
    BY <1>10 DEF SemaUp, ReleaseUp
  <2>2. Keeps
    BY <1>2, <2>1, YieldCreates
  <2>3. current = t /\ \A u \in Thread \ {t} : pc'[u] = pc[u]
    BY <1>1, <1>10 DEF SemaUp, ReleaseUp, At, Goto
  <2> QED  BY <1>3, <2>2, <2>3
<1>11. ASSUME NEW s \in Event, InterruptUp(s)
       PROVE  Created'
  <2>1. PICK w \in OptThread : status' = Unblocked(w)
    BY <1>11 DEF InterruptUp
  <2>2. current' = current /\ pc' = pc
    BY <1>11 DEF InterruptUp
  <2> QED  BY <1>2, <2>1, <2>2 DEF Created
<1>12. ASSUME NEW t \in Thread, DownWait(t)
       PROVE  Created'
  <2>1. [status EXCEPT ![t] = "blocked"] \in [Thread -> Statuses]
    BY <1>1 DEF Statuses
  <2>2. Keeps
    BY <1>1, <1>12, <2>1, ScheduleCreates DEF DownWait, Block
  <2> QED  BY <1>3, <1>12, <2>2 DEF DownWait, At
<1>13. ASSUME NEW t \in Thread, ReleaseEnd(t)
       PROVE  Created'
  <2>1. Keeps
    BY <1>1, <1>13, YieldCreates DEF ReleaseEnd
  <2> QED  BY <1>1, <1>3, <1>13, <2>1 DEF ReleaseEnd, At, Goto
<1>14. ASSUME NEW t \in Thread,
              \/ \E p \in Priority : SetPriority(t, p)
              \/ \E s \in Event : SemaDown(t, s) \/ SemaTryDown(t, s)
              \/ \E l \in Lock : LockAcquire(t, l) \/ LockTryAcquire(t, l) \/ LockRelease(t, l)
              \/ DownTake(t) \/ SetWait(t) \/ Donate(t) \/ WalkEnd(t) \/ Follow(t)
              \/ SetHolder(t) \/ AcquireEnd(t) \/ TryEnd(t) \/ ClearHolder(t)
       PROVE  Created'
  <2>1. current = t /\ UNCHANGED sched
    BY <1>14 DEF SetPriority, SemaDown, SemaTryDown, LockAcquire, LockTryAcquire, LockRelease,
         DownTake, SetWait, Donate, WalkEnd, Follow, SetHolder, AcquireEnd, TryEnd, ClearHolder,
         At, sched
  <2>2. \A u \in Thread \ {t} : pc'[u] = pc[u]
    BY <1>1, <1>14 DEF SetPriority, SemaDown, SemaTryDown, LockAcquire, LockTryAcquire, LockRelease,
         DownTake, SetWait, Donate, WalkEnd, Follow, SetHolder, AcquireEnd, TryEnd, ClearHolder, Goto
  <2> QED  BY <1>4, <2>1, <2>2
<1> QED
  BY <1>5, <1>6, <1>7, <1>8, <1>9, <1>10, <1>11, <1>12, <1>13, <1>14
  DEF Next, ThreadOps, Continue

LEMMA PriorityTypes ==
  ASSUME TypeOK
  PROVE  prio \in [Thread -> Nat] /\ base \in [Thread -> Nat] /\ maxPrio \in [Thread -> Nat]
<1>1. Priority \cup {PRI_MIN} \subseteq Nat
  BY PriorityAssumption DEF PRI_MIN
<1>2. {prio, base, maxPrio} \subseteq [Thread -> Priority \cup {PRI_MIN}]
  BY DEF TypeOK
<1> QED  BY <1>1, <1>2

\* A step that lowers no priority, and enters or leaves no routine that
\* recomputes one.
LEMMA DonationFrame ==
  ASSUME TypeOK, MaxAboveBase, PriorityAboveBase,
         UNCHANGED <<base, maxPrio>>,
         \A u \in Thread : prio'[u] \in Nat /\ prio'[u] >= prio[u],
         \A u \in Thread :
           \/ pc'[u] = pc[u]
           \/ /\ pc[u] # "set_priority"
              /\ pc'[u] \in {"set_priority", "up", "set_prio"} => pc'[u] = "set_prio" /\ pc[u] = "up"
  PROVE  MaxAboveBase' /\ PriorityAboveBase'
<1>1. \A u \in Thread : prio[u] \in Nat /\ base[u] \in Nat /\ maxPrio[u] \in Nat
  BY PriorityTypes
<1> QED  BY <1>1 DEF MaxAboveBase, PriorityAboveBase

LEMMA DonationStep ==
  ASSUME TypeOK, LocalsOK, Created, MaxAboveBase, PriorityAboveBase, Next
  PROVE  MaxAboveBase' /\ PriorityAboveBase'
<1> USE DEF At, Goto
<1>1. /\ \A u \in Thread : prio[u] \in Nat /\ base[u] \in Nat /\ maxPrio[u] \in Nat
      /\ prio \in [Thread -> Nat] /\ base \in [Thread -> Nat] /\ maxPrio \in [Thread -> Nat]
      /\ pc \in [Thread -> Labels]
  BY PriorityTypes DEF TypeOK
<1>2. ASSUME \/ \E t \in Thread : Preempt(t) \/ ThreadExit(t) \/ DownWait(t)
             \/ \E t \in Thread, s \in Event : SemaUp(t, s) \/ SemaTryDown(t, s)
             \/ \E s \in Event : InterruptUp(s)
             \/ IdleBlock
      PROVE  MaxAboveBase' /\ PriorityAboveBase'
  <2>1. UNCHANGED <<prio, base, maxPrio, pc>>
    BY <1>2 DEF Preempt, ThreadExit, DownWait, SemaUp, SemaTryDown, InterruptUp, IdleBlock, locals
  <2> QED  BY <1>1, <2>1, DonationFrame
<1>3. ASSUME NEW t \in Thread,
             \/ \E s \in Event : SemaDown(t, s)
             \/ \E l \in Lock : LockAcquire(t, l) \/ LockTryAcquire(t, l) \/ LockRelease(t, l)
             \/ DownTake(t) \/ SetWait(t) \/ WalkEnd(t) \/ Follow(t)
             \/ SetHolder(t) \/ AcquireEnd(t) \/ TryEnd(t)
      PROVE  MaxAboveBase' /\ PriorityAboveBase'
  <2>1. UNCHANGED <<prio, base, maxPrio>>
    BY <1>3 DEF SemaDown, LockAcquire, LockTryAcquire, LockRelease, DownTake, SetWait, WalkEnd,
         Follow, SetHolder, AcquireEnd, TryEnd, locals
  <2>2. \/ pc' = pc
        \/ /\ pc[t] # "set_priority"
           /\ pc' = [pc EXCEPT ![t] = pc'[t]]
           /\ pc'[t] \notin {"set_priority", "up", "set_prio"}
    BY <1>1, <1>3 DEF SemaDown, LockAcquire, LockTryAcquire, LockRelease, DownTake, SetWait, WalkEnd,
         Follow, SetHolder, AcquireEnd, TryEnd
  <2> QED  BY <1>1, <2>1, <2>2, DonationFrame
<1>4. ASSUME NEW t \in Thread, Donate(t)
      PROVE  MaxAboveBase' /\ PriorityAboveBase'
  <2>1. idx[t] \in Thread /\ next[t] \in Thread
    BY <1>4 DEF Donate, LocalsOK, TypeOK, OptThread
  <2>2. \A u \in Thread : prio'[u] \in Nat /\ prio'[u] >= prio[u]
    BY <1>1, <1>4, <2>1 DEF Donate
  <2> QED  BY <1>1, <1>4, <2>2, DonationFrame DEF Donate, locals
<1>5. ASSUME NEW t \in Thread, NEW u \in Thread, NEW p \in Priority, ThreadCreate(t, u, p)
      PROVE  MaxAboveBase' /\ PriorityAboveBase'
  <2>1. pc[u] = "run" /\ p \in Nat
    BY <1>5, PriorityAssumption DEF ThreadCreate, Created
  <2> QED  BY <1>1, <1>5, <2>1 DEF ThreadCreate, MaxAboveBase, PriorityAboveBase, locals
<1>6. ASSUME NEW t \in Thread, NEW p \in Priority, SetPriority(t, p)
      PROVE  MaxAboveBase' /\ PriorityAboveBase'
  <2>1. PICK m \in Priority : m >= p /\ maxPrio' = [maxPrio EXCEPT ![t] = m]
    BY <1>6 DEF SetPriority, IsDonated
  <2> QED  BY <1>1, <1>6, <2>1 DEF SetPriority, MaxAboveBase, PriorityAboveBase
<1>7. ASSUME NEW t \in Thread, SetPriorityEnd(t) \/ ReleaseEnd(t)
      PROVE  MaxAboveBase' /\ PriorityAboveBase'
  <2>1. /\ pc[t] \in {"set_priority", "set_prio"}
        /\ pc' = [pc EXCEPT ![t] = "run"]
        /\ prio' = [prio EXCEPT ![t] = maxPrio[t]]
        /\ maxPrio' = [maxPrio EXCEPT ![t] = PRI_MIN]
        /\ base' = base
    BY <1>7 DEF SetPriorityEnd, ReleaseEnd
  <2> QED  BY <1>1, <2>1 DEF MaxAboveBase, PriorityAboveBase
<1>8. ASSUME NEW t \in Thread, ClearHolder(t)
      PROVE  MaxAboveBase' /\ PriorityAboveBase'
  <2>1. PICK m \in Priority : m >= base[t] /\ maxPrio' = [maxPrio EXCEPT ![t] = m]
    BY <1>8 DEF ClearHolder, IsDonated
  <2> QED  BY <1>1, <1>8, <2>1 DEF ClearHolder, MaxAboveBase, PriorityAboveBase
<1>9. ASSUME NEW t \in Thread, ReleaseUp(t)
      PROVE  MaxAboveBase' /\ PriorityAboveBase'
  <2>1. UNCHANGED <<prio, base, maxPrio>> /\ pc[t] = "up" /\ pc' = [pc EXCEPT ![t] = "set_prio"]
    BY <1>9 DEF ReleaseUp, locals
  <2> QED  BY <1>1, <2>1, DonationFrame
<1> QED
  BY <1>2, <1>3, <1>4, <1>5, <1>6, <1>7, <1>8, <1>9 DEF Next, ThreadOps, Continue

\* What donation and thread_set_priority keep of the priorities (synch.c,
\* thread.c), whatever they interrupt.
THEOREM DonationInvariant == Spec => [](LockInv /\ DonationInv)
<1>1. Init => DonationInv
  <2> SUFFICES ASSUME Init PROVE DonationInv
    OBVIOUS
  <2>1. Created
    BY ThreadAssumption DEF Init, Created
  <2>2. MaxAboveBase
    BY DEF Init, MaxAboveBase
  <2>3. PriorityAboveBase
    <3>1. \A t \in Thread : prio[t] \in Nat /\ base = prio
      BY PriorityAssumption DEF Init, PRI_MIN
    <3> QED  BY <3>1 DEF PriorityAboveBase
  <2> QED  BY <2>1, <2>2, <2>3 DEF DonationInv
<1>2. LockInv /\ DonationInv /\ [Next]_vars => DonationInv'
  <2> SUFFICES ASSUME LockInv, DonationInv, [Next]_vars PROVE DonationInv'
    OBVIOUS
  <2>1. CASE Next
    BY <2>1, CreatedStep, DonationStep DEF LockInv, DonationInv
  <2>2. CASE UNCHANGED vars
    BY <2>2 DEF DonationInv, Created, MaxAboveBase, PriorityAboveBase, vars
  <2> QED  BY <2>1, <2>2
<1> QED  BY <1>1, <1>2, LockInvariant, PTL DEF Spec

\* A thread runs below its own base priority at no point but between the two
\* assignments of thread_set_priority, whoever donates to it meanwhile.
THEOREM BaseKept == Spec => []PriorityAboveBase
<1>1. DonationInv => PriorityAboveBase
  BY DEF DonationInv
<1> QED  BY <1>1, DonationInvariant, PTL

\* No donation, and no other step of another thread, lowers the priority of a
\* thread that has been created.
THEOREM OnlySelfLowersCorrect == Spec => OnlySelfLowers
<1> DEFINE Lowers == \A t \in Thread : prio'[t] < prio[t] => current = t \/ status[t] = "unborn"
<1>1. LockInv /\ [Next]_vars => Lowers
  <2> SUFFICES ASSUME LockInv, [Next]_vars, NEW t \in Thread, prio'[t] < prio[t]
               PROVE  current = t \/ status[t] = "unborn"
    OBVIOUS
  <2>1. prio \in [Thread -> Nat]
    BY PriorityTypes DEF LockInv
  <2>2. ~UNCHANGED prio
    BY <2>1
  <2>3. Next
    BY <2>2 DEF vars
  <2>4. PICK u \in Thread : \/ \E v \in Thread, p \in Priority : ThreadCreate(u, v, p)
                            \/ SetPriorityEnd(u) \/ ReleaseEnd(u) \/ Donate(u)
    BY <2>2, <2>3, ZenonT(40)
    DEF Next, ThreadOps, Continue, Preempt, ThreadExit, DownWait, SemaUp, SemaTryDown, InterruptUp,
      IdleBlock, SemaDown, LockAcquire, LockTryAcquire, LockRelease, DownTake, SetWait, WalkEnd,
      Follow, SetHolder, AcquireEnd, TryEnd, SetPriority, ClearHolder, ReleaseUp
  <2>5. ASSUME Donate(u)
        PROVE  FALSE
    <3>1. idx[u] \in Thread /\ next[u] \in Thread
      BY <2>5 DEF Donate, At, LockInv, LocalsOK, TypeOK, OptThread
    <3> QED  BY <2>1, <2>5, <3>1 DEF Donate
  <2>6. ASSUME SetPriorityEnd(u) \/ ReleaseEnd(u)
        PROVE  current = t
    BY <2>1, <2>6 DEF SetPriorityEnd, ReleaseEnd, At
  <2>7. ASSUME NEW v \in Thread, NEW p \in Priority, ThreadCreate(u, v, p)
        PROVE  status[t] = "unborn"
    BY <2>1, <2>7 DEF ThreadCreate
  <2> QED  BY <2>4, <2>5, <2>6, <2>7
<1>2. LockInv /\ [Next]_vars => [Lowers]_vars
  BY <1>1
<1> HIDE DEF Lowers
<1>3. Spec => [][Lowers]_vars
  BY <1>2, LockInvariant, PTL DEF Spec
<1> QED  BY <1>3 DEF OnlySelfLowers, Lowers
-----------------------------------------------------------------------------
(* The lists. *)

ReadyList ==
  /\ IsInjective(ready)
  /\ \A u \in Thread : /\ status[u] = "ready" <=> u \in ToSet(ready)
                       /\ status[u] = "running" <=> u = current

WaitLists ==
  /\ \A u \in Thread : status[u] = "blocked" <=> \E s \in Sema : u \in ToSet(waiters[s])
  /\ \A s \in Sema : \A u \in ToSet(waiters[s]) : pc[u] = "down" /\ target[u] = s
  /\ \A s \in Sema : IsInjective(waiters[s])

\* ListDiscipline in the terms of the lemmas.
LEMMA ListDisciplineParts == ListDiscipline <=> ReadyList /\ WaitLists
BY DEF ListDiscipline, ReadyList, WaitLists, ToSet

\* What the scheduler does with the threads on q, all of them ready in st.
LEMMA ScheduleLists ==
  ASSUME NEW q \in Seq(Thread), NEW p, NEW st \in [Thread -> Statuses],
         Schedule(q, p, st), NoThread \notin Thread, IsInjective(q),
         \A u \in Thread : st[u] # "running" /\ (st[u] = "ready" <=> u \in ToSet(q))
  PROVE  /\ ReadyList'
         /\ \A u \in Thread : /\ status'[u] = "blocked" <=> st[u] = "blocked"
                              /\ st[u] = "ready" => status'[u] \in {"ready", "running"}
<1>1. CASE q = <<>> /\ current' = NoThread /\ ready' = <<>> /\ status' = st
  BY <1>1, EmptySet DEF ReadyList
<1>2. ASSUME NEW i \in DOMAIN q, current' = q[i], ready' = RemoveAt(q, i),
             status' = [st EXCEPT ![q[i]] = "running"]
      PROVE  /\ ReadyList'
             /\ \A u \in Thread : /\ status'[u] = "blocked" <=> st[u] = "blocked"
                                  /\ st[u] = "ready" => status'[u] \in {"ready", "running"}
  <2>1. q[i] \in Thread /\ q[i] \in ToSet(q)
    BY DEF ToSet
  <2>2. IsInjective(ready') /\ ToSet(ready') = ToSet(q) \ {q[i]}
    BY <1>2, RemoveAtSet
  <2> QED  BY <1>2, <2>1, <2>2 DEF ReadyList
<1> QED  BY <1>1, <1>2 DEF Schedule

\* The same for thread_yield by the one running thread.
LEMMA YieldLists ==
  ASSUME NEW t \in Thread, NEW q \in Seq(Thread), NEW p, NEW st \in [Thread -> Statuses],
         Yield(t, q, p, st), NoThread \notin Thread, IsInjective(q),
         \A u \in Thread : /\ st[u] = "running" <=> u = t
                           /\ st[u] = "ready" <=> u \in ToSet(q)
  PROVE  /\ ReadyList'
         /\ \A u \in Thread : /\ status'[u] = "blocked" <=> st[u] = "blocked"
                              /\ st[u] \in {"ready", "running"} => status'[u] \in {"ready", "running"}
<1> DEFINE r == Append(q, t)
           sr == [st EXCEPT ![t] = "ready"]
<1>1. st[t] = "running" /\ t \notin ToSet(q)
  OBVIOUS
<1>2. r \in Seq(Thread) /\ ToSet(r) = ToSet(q) \cup {t} /\ IsInjective(r)
  BY <1>1, AppendSet
<1>3. sr \in [Thread -> Statuses] /\ \A u \in Thread : sr[u] = IF u = t THEN "ready" ELSE st[u]
  BY DEF Statuses
<1>4. Schedule(r, p, sr)
  BY DEF Yield
<1> HIDE DEF r, sr, Schedule
<1>5. \A u \in Thread : sr[u] # "running" /\ (sr[u] = "ready" <=> u \in ToSet(r))
  BY <1>2, <1>3
<1>6. /\ ReadyList'
      /\ \A u \in Thread : /\ status'[u] = "blocked" <=> sr[u] = "blocked"
                           /\ sr[u] = "ready" => status'[u] \in {"ready", "running"}
  BY <1>2, <1>3, <1>4, <1>5, ScheduleLists
<1> QED  BY <1>1, <1>3, <1>6

\* sema_up moves at most one waiter of s to the ready list, and it will test
\* the value again.
LEMMA RaiseLists ==
  ASSUME TypeOK, ReadyList, WaitLists, NEW s \in Sema, NEW w \in OptThread, Raise(s, w)
  PROVE  /\ Enqueued(w) \in Seq(Thread) /\ Unblocked(w) \in [Thread -> Statuses]
         /\ IsInjective(Enqueued(w))
         /\ \A u \in Thread : /\ Unblocked(w)[u] = "ready" <=> u \in ToSet(Enqueued(w))
                              /\ Unblocked(w)[u] = "running" <=> status[u] = "running"
                              /\ status[u] \in {"ready", "running"} => Unblocked(w)[u] \in {"ready", "running"}
                              /\ Unblocked(w)[u] = "blocked" <=> \E k \in Sema : u \in ToSet(waiters'[k])
         /\ \A k \in Sema : IsInjective(waiters'[k]) /\ ToSet(waiters'[k]) \subseteq ToSet(waiters[k])
         /\ \A k \in Sema : k # s => waiters'[k] = waiters[k]
         /\ \/ waiters'[s] = <<>>
            \/ w \in Thread /\ pc[w] = "down" /\ target[w] = s /\ status[w] = "blocked" /\ Unblocked(w)[w] = "ready"
<1> USE ThreadAssumption
<1>1. Enqueued(w) \in Seq(Thread) /\ Unblocked(w) \in [Thread -> Statuses]
  BY UnblockType
<1>2. CASE waiters[s] = <<>> /\ w = NoThread /\ UNCHANGED waiters
  BY <1>1, <1>2 DEF Enqueued, Unblocked, ReadyList, WaitLists
<1>3. ASSUME NEW i \in DOMAIN waiters[s], w = waiters[s][i],
             waiters' = [waiters EXCEPT ![s] = RemoveAt(waiters[s], i)]
      PROVE  /\ IsInjective(Enqueued(w))
             /\ \A u \in Thread : /\ Unblocked(w)[u] = "ready" <=> u \in ToSet(Enqueued(w))
                                  /\ Unblocked(w)[u] = "running" <=> status[u] = "running"
                                  /\ status[u] \in {"ready", "running"} => Unblocked(w)[u] \in {"ready", "running"}
                                  /\ Unblocked(w)[u] = "blocked" <=> \E k \in Sema : u \in ToSet(waiters'[k])
             /\ \A k \in Sema : IsInjective(waiters'[k]) /\ ToSet(waiters'[k]) \subseteq ToSet(waiters[k])
             /\ \A k \in Sema : k # s => waiters'[k] = waiters[k]
             /\ w \in Thread /\ pc[w] = "down" /\ target[w] = s /\ status[w] = "blocked" /\ Unblocked(w)[w] = "ready"
  <2>1. waiters[s] \in Seq(Thread) /\ w \in ToSet(waiters[s]) /\ w \in Thread
    BY <1>3 DEF TypeOK, ToSet
  <2>2. pc[w] = "down" /\ target[w] = s /\ status[w] = "blocked" /\ w \notin ToSet(ready)
    BY <2>1 DEF WaitLists, ReadyList
  <2>3. /\ Enqueued(w) = Append(ready, w)
        /\ ToSet(Enqueued(w)) = ToSet(ready) \cup {w}
        /\ IsInjective(Enqueued(w))
    BY <2>1, <2>2, AppendSet DEF Enqueued, ReadyList, TypeOK
  <2>4. ToSet(waiters'[s]) = ToSet(waiters[s]) \ {w} /\ IsInjective(waiters'[s])
    BY <1>3, <2>1, RemoveAtSet DEF WaitLists, TypeOK
  <2>5. \A k \in Sema : k # s => waiters'[k] = waiters[k]
    BY <1>3 DEF TypeOK
  <2>6. \A k \in Sema : IsInjective(waiters'[k]) /\ ToSet(waiters'[k]) \subseteq ToSet(waiters[k])
    BY <2>4, <2>5 DEF WaitLists
  <2>7. \A k \in Sema : w \notin ToSet(waiters'[k])
    BY <2>2, <2>4, <2>5 DEF WaitLists
  <2>8. ASSUME NEW u \in Thread
        PROVE  Unblocked(w)[u] = "blocked" <=> \E k \in Sema : u \in ToSet(waiters'[k])
    <3>1. CASE u = w
      BY <2>7, <3>1 DEF Unblocked
    <3>2. CASE u # w
      <4>1. \A k \in Sema : u \in ToSet(waiters'[k]) <=> u \in ToSet(waiters[k])
        BY <2>4, <2>5, <3>2
      <4> QED  BY <3>2, <4>1 DEF Unblocked, WaitLists
    <3> QED  BY <3>1, <3>2
  <2> QED  BY <2>1, <2>2, <2>3, <2>5, <2>6, <2>8 DEF Unblocked, ReadyList
<1> QED  BY <1>1, <1>2, <1>3 DEF Raise

\* The waiters are where they were when the list, and who is blocked, are the
\* same: a waiter does not run.
LEMMA WaitFrame ==
  ASSUME ReadyList, WaitLists, TypeOK, UNCHANGED waiters,
         \A u \in Thread : status'[u] = "blocked" <=> status[u] = "blocked",
         \A u \in Thread : u # current => pc'[u] = pc[u] /\ target'[u] = target[u]
  PROVE  WaitLists'
<1>1. \A s \in Sema : \A u \in ToSet(waiters[s]) : u \in Thread /\ status[u] = "blocked"
  BY DEF WaitLists, ToSet, TypeOK
<1>2. \A u \in Thread : status[u] = "blocked" => u # current
  BY DEF ReadyList
<1> QED  BY <1>1, <1>2 DEF WaitLists

\* Threads that are ready or running stay so; only the running one moves.
Moves ==
  \A u \in Thread : u # current =>
    /\ pc'[u] = pc[u] /\ target'[u] = target[u]
    /\ status[u] \in {"ready", "running"} => status'[u] \in {"ready", "running"}

\* A step of the running thread that leaves the wait lists alone.
Plain(t) ==
  \/ Preempt(t) \/ ThreadExit(t) \/ SetPriorityEnd(t) \/ ReleaseEnd(t)
  \/ \E u \in Thread, p \in Priority : ThreadCreate(t, u, p)

\* A step of the running thread that leaves the scheduler alone as well.
Quiet(t) ==
  \/ \E p \in Priority : SetPriority(t, p)
  \/ \E s \in Event : SemaDown(t, s) \/ SemaTryDown(t, s)
  \/ \E l \in Lock : LockAcquire(t, l) \/ LockTryAcquire(t, l) \/ LockRelease(t, l)
  \/ DownTake(t) \/ SetWait(t) \/ Donate(t) \/ WalkEnd(t) \/ Follow(t)
  \/ SetHolder(t) \/ AcquireEnd(t) \/ TryEnd(t) \/ ClearHolder(t)

\* The ups, t being a thread that yields or NoThread in a handler.
Ups(s) ==
  \E w \in OptThread :
    /\ Raise(s, w)
    /\ \/ current' = current /\ ready' = Enqueued(w) /\ status' = Unblocked(w)
       \/ \E t \in Thread : current = t /\ Yield(t, Enqueued(w), prio, Unblocked(w))

LEMMA NextCases ==
  ASSUME Next
  PROVE  \/ \E t \in Thread : Plain(t) \/ Quiet(t) \/ DownWait(t) \/ ReleaseUp(t)
         \/ \E t \in Thread, s \in Event : SemaUp(t, s)
         \/ \E s \in Event : InterruptUp(s)
         \/ IdleBlock
BY DEF Next, ThreadOps, Continue, Plain, Quiet

LEMMA PlainLists ==
  ASSUME TypeOK, ReadyList, WaitLists, NEW t \in Thread, Plain(t)
  PROVE  ReadyList' /\ WaitLists' /\ Moves /\ UNCHANGED <<value, waiters>>
<1> USE ThreadAssumption
<1>1. /\ ready \in Seq(Thread) /\ status \in [Thread -> Statuses] /\ IsInjective(ready)
      /\ \A u \in Thread : /\ status[u] = "ready" <=> u \in ToSet(ready)
                           /\ status[u] = "running" <=> u = current
  BY DEF TypeOK, Statuses, ReadyList
<1>2. current = t /\ UNCHANGED <<value, waiters>>
  BY DEF Plain, Preempt, ThreadExit, SetPriorityEnd, ReleaseEnd, ThreadCreate, At, sems
<1>3. \A u \in Thread : u # current => pc'[u] = pc[u] /\ target'[u] = target[u]
  BY <1>2 DEF Plain, Preempt, ThreadExit, SetPriorityEnd, ReleaseEnd, ThreadCreate, At, Goto, TypeOK
<1> DEFINE Good == /\ ReadyList'
                   /\ \A u \in Thread :
                        /\ status'[u] = "blocked" <=> status[u] = "blocked"
                        /\ u # t /\ status[u] \in {"ready", "running"} => status'[u] \in {"ready", "running"}
<1>4. ASSUME NEW p, Yield(t, ready, p, status)
      PROVE  Good
  BY <1>1, <1>2, <1>4, YieldLists
<1>5. ASSUME UNCHANGED sched
      PROVE  Good
  BY <1>5 DEF sched, ReadyList
<1>6. ASSUME ThreadExit(t)
      PROVE  Good
  <2> DEFINE st == [status EXCEPT ![t] = "dying"]
  <2>1. st \in [Thread -> Statuses] /\ \A u \in Thread : st[u] = IF u = t THEN "dying" ELSE status[u]
    BY <1>1 DEF Statuses
  <2>2. Schedule(ready, prio, st)
    BY <1>6 DEF ThreadExit
  <2> HIDE DEF st, Schedule
  <2>3. \A u \in Thread : st[u] # "running" /\ (st[u] = "ready" <=> u \in ToSet(ready))
    BY <1>1, <1>2, <2>1
  <2>4. /\ ReadyList'
        /\ \A u \in Thread : /\ status'[u] = "blocked" <=> st[u] = "blocked"
                             /\ st[u] = "ready" => status'[u] \in {"ready", "running"}
    BY <1>1, <2>1, <2>2, <2>3, ScheduleLists
  <2> QED  BY <1>1, <1>2, <2>1, <2>4
<1>7. ASSUME NEW u \in Thread, NEW p \in Priority, ThreadCreate(t, u, p)
      PROVE  Good
  <2> DEFINE st == [status EXCEPT ![u] = "ready"]
             q == Append(ready, u)
  <2>1. status[u] = "unborn" /\ Yield(t, q, prio', st)
    BY <1>7 DEF ThreadCreate
  <2>2. st \in [Thread -> Statuses] /\ \A v \in Thread : st[v] = IF v = u THEN "ready" ELSE status[v]
    BY <1>1 DEF Statuses
  <2>3. u # t /\ u \notin ToSet(ready)
    BY <1>1, <1>2, <2>1
  <2>4. q \in Seq(Thread) /\ ToSet(q) = ToSet(ready) \cup {u} /\ IsInjective(q)
    BY <1>1, <2>3, AppendSet
  <2> HIDE DEF st, q
  <2>5. \A v \in Thread : /\ st[v] = "running" <=> v = t
                          /\ st[v] = "ready" <=> v \in ToSet(q)
    BY <1>1, <1>2, <2>2, <2>3, <2>4
  <2>6. /\ ReadyList'
        /\ \A v \in Thread : /\ status'[v] = "blocked" <=> st[v] = "blocked"
                             /\ st[v] \in {"ready", "running"} => status'[v] \in {"ready", "running"}
    BY <2>1, <2>2, <2>4, <2>5, YieldLists
  <2> QED  BY <2>1, <2>2, <2>6
<1>8. Good
  BY <1>4, <1>5, <1>6, <1>7 DEF Plain, Preempt, SetPriorityEnd, ReleaseEnd
<1>9. Moves
  BY <1>2, <1>3, <1>8 DEF Moves
<1>10. WaitLists'
  BY <1>2, <1>3, <1>8, WaitFrame
<1> QED  BY <1>2, <1>8, <1>9, <1>10

LEMMA QuietLists ==
  ASSUME TypeOK, ReadyList, WaitLists, NEW t \in Thread, Quiet(t)
  PROVE  ReadyList' /\ WaitLists' /\ Moves /\ UNCHANGED waiters
<1>1. current = t /\ UNCHANGED <<sched, waiters>>
  BY DEF Quiet, SetPriority, SemaDown, SemaTryDown, LockAcquire, LockTryAcquire, LockRelease,
     DownTake, SetWait, Donate, WalkEnd, Follow, SetHolder, AcquireEnd, TryEnd, ClearHolder, At, sched, sems
<1>2. \A u \in Thread : u # current => pc'[u] = pc[u] /\ target'[u] = target[u]
  BY <1>1 DEF Quiet, SetPriority, SemaDown, SemaTryDown, LockAcquire, LockTryAcquire, LockRelease,
     DownTake, SetWait, Donate, WalkEnd, Follow, SetHolder, AcquireEnd, TryEnd, ClearHolder, Goto, TypeOK
<1>3. ReadyList' /\ status' = status
  BY <1>1 DEF ReadyList, sched
<1>4. WaitLists'
  BY <1>1, <1>2, <1>3, WaitFrame
<1> QED  BY <1>1, <1>2, <1>3, <1>4 DEF Moves

LEMMA UpLists ==
  ASSUME TypeOK, ReadyList, WaitLists, NEW s \in Sema, Ups(s),
         \A u \in Thread : u # current => pc'[u] = pc[u] /\ target'[u] = target[u]
  PROVE  /\ ReadyList' /\ WaitLists' /\ Moves
         /\ value' = [value EXCEPT ![s] = @ + 1]
         /\ \A k \in Sema : k # s => waiters'[k] = waiters[k]
         /\ \/ waiters'[s] = <<>>
            \/ \E w \in Thread : ~WillTest(w, s) /\ WillTest(w, s)'
<1> USE ThreadAssumption
<1>1. PICK w \in OptThread :
        /\ Raise(s, w)
        /\ \/ current' = current /\ ready' = Enqueued(w) /\ status' = Unblocked(w)
           \/ \E t \in Thread : current = t /\ Yield(t, Enqueued(w), prio, Unblocked(w))
  BY DEF Ups
<1>2. /\ Enqueued(w) \in Seq(Thread) /\ Unblocked(w) \in [Thread -> Statuses]
      /\ IsInjective(Enqueued(w))
      /\ \A u \in Thread : /\ Unblocked(w)[u] = "ready" <=> u \in ToSet(Enqueued(w))
                           /\ Unblocked(w)[u] = "running" <=> status[u] = "running"
                           /\ status[u] \in {"ready", "running"} => Unblocked(w)[u] \in {"ready", "running"}
                           /\ Unblocked(w)[u] = "blocked" <=> \E k \in Sema : u \in ToSet(waiters'[k])
      /\ \A k \in Sema : IsInjective(waiters'[k]) /\ ToSet(waiters'[k]) \subseteq ToSet(waiters[k])
      /\ \A k \in Sema : k # s => waiters'[k] = waiters[k]
      /\ \/ waiters'[s] = <<>>
         \/ w \in Thread /\ pc[w] = "down" /\ target[w] = s /\ status[w] = "blocked" /\ Unblocked(w)[w] = "ready"
  BY <1>1, RaiseLists
<1>3. \A u \in Thread : status[u] = "running" <=> u = current
  BY DEF ReadyList
<1>4. /\ ReadyList'
      /\ \A u \in Thread : /\ status'[u] = "blocked" <=> Unblocked(w)[u] = "blocked"
                           /\ Unblocked(w)[u] \in {"ready", "running"} => status'[u] \in {"ready", "running"}
  <2>1. CASE current' = current /\ ready' = Enqueued(w) /\ status' = Unblocked(w)
    <3> HIDE DEF Enqueued, Unblocked
    <3>1. ReadyList'
      BY <1>2, <1>3, <2>1 DEF ReadyList
    <3> QED  BY <2>1, <3>1
  <2>2. ASSUME NEW t \in Thread, current = t, Yield(t, Enqueued(w), prio, Unblocked(w))
        PROVE  /\ ReadyList'
               /\ \A u \in Thread : /\ status'[u] = "blocked" <=> Unblocked(w)[u] = "blocked"
                                    /\ Unblocked(w)[u] \in {"ready", "running"} => status'[u] \in {"ready", "running"}
    BY <1>2, <1>3, <2>2, YieldLists
  <2> QED  BY <1>1, <2>1, <2>2
<1>5. Moves
  BY <1>2, <1>4 DEF Moves
<1>6. \A k \in Sema : \A u \in ToSet(waiters[k]) : u \in Thread /\ u # current
  <2>1. \A k \in Sema : ToSet(waiters[k]) \subseteq Thread
    BY DEF TypeOK, ToSet
  <2>2. \A k \in Sema : \A u \in ToSet(waiters[k]) : status[u] = "blocked"
    BY <2>1 DEF WaitLists
  <2> QED  BY <1>3, <2>1, <2>2
<1>7. WaitLists'
  <2>1. \A k \in Sema : \A u \in ToSet(waiters'[k]) : pc'[u] = "down" /\ target'[u] = k
    BY <1>2, <1>6, SMTT(30) DEF WaitLists
  <2> QED  BY <1>2, <1>4, <2>1 DEF WaitLists
<1>8. ASSUME w \in Thread, pc[w] = "down", target[w] = s, status[w] = "blocked", Unblocked(w)[w] = "ready"
      PROVE  ~WillTest(w, s) /\ WillTest(w, s)'
  BY <1>3, <1>4, <1>8 DEF WillTest
<1> QED  BY <1>1, <1>2, <1>4, <1>5, <1>7, <1>8 DEF Raise

LEMMA DownWaitLists ==
  ASSUME TypeOK, LocalsOK, ReadyList, WaitLists, NEW t \in Thread, DownWait(t)
  PROVE  ReadyList' /\ WaitLists' /\ Moves
<1> USE ThreadAssumption
<1> DEFINE s == target[t]
           st == [status EXCEPT ![t] = "blocked"]
<1>1. /\ current = t /\ pc[t] = "down" /\ s \in Sema
      /\ waiters' = [waiters EXCEPT ![s] = Append(waiters[s], t)]
      /\ Schedule(ready, prio, st) /\ UNCHANGED <<pc, target>>
  BY DEF DownWait, At, Block, LocalsOK
<1>2. st \in [Thread -> Statuses] /\ \A u \in Thread : st[u] = IF u = t THEN "blocked" ELSE status[u]
  BY DEF TypeOK, Statuses
<1>3. /\ ready \in Seq(Thread) /\ IsInjective(ready)
      /\ \A u \in Thread : /\ status[u] = "ready" <=> u \in ToSet(ready)
                           /\ status[u] = "running" <=> u = t
  BY <1>1 DEF TypeOK, ReadyList
<1> HIDE DEF st, Schedule
<1>4. \A u \in Thread : st[u] # "running" /\ (st[u] = "ready" <=> u \in ToSet(ready))
  BY <1>2, <1>3
<1>5. /\ ReadyList'
      /\ \A u \in Thread : /\ status'[u] = "blocked" <=> st[u] = "blocked"
                           /\ st[u] = "ready" => status'[u] \in {"ready", "running"}
  BY <1>1, <1>2, <1>3, <1>4, ScheduleLists
<1>6. \A k \in Sema : t \notin ToSet(waiters[k])
  BY <1>3 DEF WaitLists
<1>7. /\ ToSet(waiters'[s]) = ToSet(waiters[s]) \cup {t} /\ IsInjective(waiters'[s])
      /\ \A k \in Sema : k # s => waiters'[k] = waiters[k]
  BY <1>1, <1>6, AppendSet DEF TypeOK, WaitLists
<1>8. WaitLists'
  <2>1. \A k \in Sema : IsInjective(waiters'[k])
    BY <1>7 DEF WaitLists
  <2>2. \A k \in Sema : \A u \in ToSet(waiters'[k]) : pc'[u] = "down" /\ target'[u] = k
    BY <1>1, <1>7 DEF WaitLists
  <2>3. ASSUME NEW u \in Thread
        PROVE  status'[u] = "blocked" <=> \E k \in Sema : u \in ToSet(waiters'[k])
    <3>1. CASE u = t
      BY <1>1, <1>2, <1>5, <1>7, <3>1
    <3>2. CASE u # t
      <4>1. \A k \in Sema : u \in ToSet(waiters'[k]) <=> u \in ToSet(waiters[k])
        BY <1>7, <3>2
      <4> QED  BY <1>2, <1>5, <3>2, <4>1 DEF WaitLists
    <3> QED  BY <3>1, <3>2
  <2> QED  BY <2>1, <2>2, <2>3 DEF WaitLists
<1>9. Moves
  BY <1>1, <1>2, <1>3, <1>5 DEF Moves
<1> QED  BY <1>5, <1>8, <1>9

LEMMA IdleLists ==
  ASSUME TypeOK, ReadyList, WaitLists, IdleBlock
  PROVE  ReadyList' /\ WaitLists' /\ Moves /\ UNCHANGED <<value, waiters>>
<1> USE ThreadAssumption
<1>1. /\ ready \in Seq(Thread) /\ status \in [Thread -> Statuses] /\ IsInjective(ready)
      /\ \A u \in Thread : status[u] # "running" /\ (status[u] = "ready" <=> u \in ToSet(ready))
  BY DEF IdleBlock, TypeOK, Statuses, ReadyList
<1>2. Schedule(ready, prio, status) /\ UNCHANGED <<pc, target, value, waiters>>
  BY DEF IdleBlock, sems
<1> HIDE DEF Schedule
<1>3. /\ ReadyList'
      /\ \A u \in Thread : /\ status'[u] = "blocked" <=> status[u] = "blocked"
                           /\ status[u] = "ready" => status'[u] \in {"ready", "running"}
  BY <1>1, <1>2, ScheduleLists
<1>4. WaitLists'
  BY <1>2, <1>3, WaitFrame
<1> QED  BY <1>1, <1>2, <1>3, <1>4 DEF Moves

-----------------------------------------------------------------------------
(* No sema_up is lost. *)

\* f counts n threads that will test the value of s.
Testers(f, n, s) ==
  /\ f \in [1..n -> Thread]
  /\ \A i, j \in 1..n : f[i] = f[j] => i = j
  /\ \A i \in 1..n : WillTest(f[i], s)

\* While threads sleep on s, as many others as its value are on their way to
\* test it.
Tokens == \A s \in Sema : waiters[s] # <<>> => \E f : Testers(f, value[s], s)

LEMMA TokensSuffice == ASSUME TypeOK, Tokens PROVE NoLostWakeup
<1> SUFFICES ASSUME NEW s \in Sema, value[s] > 0, waiters[s] # <<>>
             PROVE  \E t \in Thread : WillTest(t, s)
  BY DEF NoLostWakeup
<1>1. PICK f : Testers(f, value[s], s)
  BY DEF Tokens
<1>2. 1 \in 1..value[s]
  BY DEF TypeOK
<1> QED  BY <1>1, <1>2 DEF Testers

LEMMA OthersTest ==
  ASSUME Moves, NEW s, NEW u \in Thread, u # current, WillTest(u, s)
  PROVE  WillTest(u, s)'
<1>1. /\ pc'[u] = pc[u] /\ target'[u] = target[u]
      /\ status[u] \in {"ready", "running"} => status'[u] \in {"ready", "running"}
  BY DEF Moves
<1> QED  BY <1>1 DEF WillTest

\* Who was about to test still is, unless it is the running thread.
LEMMA TestersFrame ==
  ASSUME Moves, NEW s \in Sema, NEW f, NEW n \in Nat, NEW m \in Nat, m <= n, Testers(f, n, s),
         \A u \in Thread : u = current /\ WillTest(u, s) => WillTest(u, s)'
  PROVE  \E g : Testers(g, m, s)'
<1> DEFINE g == [i \in 1..m |-> f[i]]
<1>1. 1..m \subseteq 1..n
  OBVIOUS
<1>2. \A u \in Thread : WillTest(u, s) => WillTest(u, s)'
  BY OthersTest
<1>3. g \in [1..m -> Thread] /\ \A i \in 1..m : g[i] = f[i]
  BY <1>1 DEF Testers
<1> HIDE DEF g
<1>4. (\A i, j \in 1..m : g[i] = g[j] => i = j) /\ \A i \in 1..m : WillTest(g[i], s)'
  BY <1>1, <1>2, <1>3 DEF Testers
<1> QED  BY <1>3, <1>4 DEF Testers

\* One more waiter that was woken.
LEMMA TestersGain ==
  ASSUME Moves, NEW s \in Sema, NEW f, NEW n \in Nat, Testers(f, n, s),
         \A u \in Thread : u = current /\ WillTest(u, s) => WillTest(u, s)',
         NEW w \in Thread, ~WillTest(w, s), WillTest(w, s)'
  PROVE  \E g : Testers(g, n + 1, s)'
<1> DEFINE g == [i \in 1..(n + 1) |-> IF i = n + 1 THEN w ELSE f[i]]
<1>1. \A i \in 1..(n + 1) : i \in 1..n \/ i = n + 1
  OBVIOUS
<1>2. \A u \in Thread : WillTest(u, s) => WillTest(u, s)'
  BY OthersTest
<1>3. /\ g \in [1..(n + 1) -> Thread]
      /\ \A i \in 1..(n + 1) : g[i] = IF i = n + 1 THEN w ELSE f[i]
  BY <1>1 DEF Testers
<1> HIDE DEF g
<1>4. \A i \in 1..n : f[i] # w /\ WillTest(f[i], s) /\ f[i] \in Thread
  BY DEF Testers
<1>5. \A i, j \in 1..(n + 1) : g[i] = g[j] => i = j
  BY <1>1, <1>3, <1>4 DEF Testers
<1>6. \A i \in 1..(n + 1) : WillTest(g[i], s)'
  BY <1>1, <1>2, <1>3, <1>4
<1> QED  BY <1>3, <1>5, <1>6 DEF Testers

\* The running thread tests and takes one: the others are enough for the rest.
LEMMA TestersLose ==
  ASSUME Moves, NEW s \in Sema, NEW f, NEW n \in Nat, n > 0, Testers(f, n, s)
  PROVE  \E g : Testers(g, n - 1, s)'
<1>1. 1..(n - 1) \subseteq 1..n /\ n \in 1..n /\ n \notin 1..(n - 1)
  OBVIOUS
<1>2. f \in [1..n -> Thread] /\ \A i, j \in 1..n : f[i] = f[j] => i = j
  BY DEF Testers
<1>3. PICK c : c = current
  OBVIOUS
<1> DEFINE at(i) == IF f[i] = c THEN n ELSE i
           g == [i \in 1..(n - 1) |-> f[at(i)]]
<1>4. \A i \in 1..(n - 1) : at(i) \in 1..n /\ f[at(i)] # c
  BY <1>1, <1>2
<1>5. \A i, j \in 1..(n - 1) : at(i) = at(j) => i = j
  BY <1>1, <1>2
<1> HIDE DEF at
<1>6. g \in [1..(n - 1) -> Thread] /\ \A i \in 1..(n - 1) : g[i] = f[at(i)]
  BY <1>2, <1>4
<1> HIDE DEF g
<1>7. \A i, j \in 1..(n - 1) : g[i] = g[j] => i = j
  BY <1>2, <1>4, <1>5, <1>6
<1>8. ASSUME NEW i \in 1..(n - 1)
      PROVE  WillTest(g[i], s)'
  <2>1. g[i] \in Thread /\ g[i] # current
    BY <1>3, <1>4, <1>6
  <2>2. WillTest(g[i], s)
    BY <1>4, <1>6 DEF Testers
  <2> QED  BY <2>1, <2>2, OthersTest
<1> QED  BY <1>6, <1>7, <1>8 DEF Testers

-----------------------------------------------------------------------------
(* The theorems. *)

ListInv == ReadyList /\ WaitLists /\ Tokens

\* A step that wakes nobody and raises no value keeps the tokens.
LEMMA TokensFrame ==
  ASSUME TypeOK, TypeOK', Moves, Tokens,
         \A s \in Sema : waiters'[s] # <<>> => waiters[s] # <<>> /\ value'[s] <= value[s],
         \A s \in Sema, u \in Thread : u = current /\ WillTest(u, s) => WillTest(u, s)'
  PROVE  Tokens'
<1> SUFFICES ASSUME NEW s \in Sema, waiters'[s] # <<>>
             PROVE  \E g : Testers(g, value[s], s)'
  BY DEF Tokens
<1>1. PICK f : Testers(f, value[s], s)
  BY DEF Tokens
<1>2. value[s] \in Nat /\ value'[s] \in Nat /\ value'[s] <= value[s]
  BY DEF TypeOK
<1>3. PICK n \in Nat, m \in Nat : n = value[s] /\ m = value'[s]
  BY <1>2
<1>4. \E g : Testers(g, m, s)'
  BY <1>1, <1>2, <1>3, TestersFrame
<1> QED  BY <1>3, <1>4 DEF Testers

\* The running thread is not about to test, or goes on being so.
Tests == \A s \in Sema, u \in Thread : u = current /\ WillTest(u, s) => WillTest(u, s)'

LEMMA PlainTokens ==
  ASSUME TypeOK, TypeOK', ReadyList, WaitLists, Tokens, NEW t \in Thread, Plain(t)
  PROVE  Tokens'
<1> USE ThreadAssumption
<1>1. Moves /\ UNCHANGED <<value, waiters>>
  BY PlainLists
<1>2. CASE Preempt(t)
  <2>1. /\ ready \in Seq(Thread) /\ status \in [Thread -> Statuses] /\ IsInjective(ready)
        /\ current = t /\ Yield(t, ready, prio, status) /\ UNCHANGED <<pc, target>>
        /\ \A u \in Thread : /\ status[u] = "ready" <=> u \in ToSet(ready)
                             /\ status[u] = "running" <=> u = t
    BY <1>2 DEF TypeOK, Statuses, ReadyList, Preempt
  <2>2. status'[t] \in {"ready", "running"}
    BY <2>1, YieldLists
  <2>3. Tests
    BY <2>1, <2>2 DEF Tests, WillTest
  <2> QED  BY <1>1, <2>3, TokensFrame DEF Tests, TypeOK
<1>3. CASE ~Preempt(t)
  <2>1. current = t /\ pc[t] # "down"
    BY <1>3 DEF Plain, ThreadExit, SetPriorityEnd, ReleaseEnd, ThreadCreate, At
  <2>2. Tests
    BY <2>1 DEF Tests, WillTest
  <2> QED  BY <1>1, <2>2, TokensFrame DEF Tests, TypeOK
<1> QED  BY <1>2, <1>3

LEMMA QuietTokens ==
  ASSUME TypeOK, TypeOK', LocalsOK, ReadyList, WaitLists, Tokens, NEW t \in Thread, Quiet(t)
  PROVE  Tokens'
<1>1. Moves /\ UNCHANGED waiters /\ value \in [Sema -> Nat] /\ value' \in [Sema -> Nat]
  BY QuietLists DEF TypeOK
<1>2. CASE ~DownTake(t)
  <2>1. current = t /\ pc[t] # "down"
    BY <1>2 DEF Quiet, SetPriority, SemaDown, SemaTryDown, LockAcquire, LockTryAcquire, LockRelease,
         SetWait, Donate, WalkEnd, Follow, SetHolder, AcquireEnd, TryEnd, ClearHolder, At
  <2>2. value' = value \/ \E s \in Sema : value[s] > 0 /\ value' = [value EXCEPT ![s] = @ - 1]
    BY <1>2 DEF Quiet, SetPriority, SemaDown, SemaTryDown, LockAcquire, LockTryAcquire, LockRelease,
         SetWait, Donate, WalkEnd, Follow, SetHolder, AcquireEnd, TryEnd, ClearHolder, sems, Sema
  <2>3. \A s \in Sema : value'[s] <= value[s]
    BY <1>1, <2>2
  <2>4. Tests
    BY <2>1 DEF Tests, WillTest
  <2> QED  BY <1>1, <2>3, <2>4, TokensFrame DEF Tests
<1>3. CASE DownTake(t)
  <2> DEFINE s == target[t]
  <2>1. /\ current = t /\ s \in Sema /\ value[s] > 0
        /\ value' = [value EXCEPT ![s] = @ - 1]
    BY <1>3 DEF DownTake, At, LocalsOK
  <2>2. PICK c \in Sema : c = s
    BY <2>1
  <2> SUFFICES ASSUME NEW k \in Sema, waiters'[k] # <<>>
               PROVE  \E g : Testers(g, value[k], k)'
    BY DEF Tokens
  <2>3. PICK f : Testers(f, value[k], k)
    BY <1>1 DEF Tokens
  <2>4. PICK n \in Nat, m \in Nat : n = value[k] /\ m = value'[k]
    BY <1>1
  <2>5. CASE k = c
    <3>1. n > 0 /\ m = n - 1
      BY <1>1, <2>1, <2>2, <2>4, <2>5
    <3>2. \E g : Testers(g, m, k)'
      BY <1>1, <2>3, <2>4, <3>1, TestersLose
    <3> QED  BY <2>4, <3>2 DEF Testers
  <2>6. CASE k # c
    <3>1. m = n
      BY <1>1, <2>1, <2>2, <2>4, <2>6
    <3>2. \A u \in Thread : u = current => ~WillTest(u, k)
      BY <2>1, <2>2, <2>6 DEF WillTest
    <3>3. \E g : Testers(g, m, k)'
      BY <1>1, <2>3, <2>4, <3>1, <3>2, TestersFrame
    <3> QED  BY <2>4, <3>3 DEF Testers
  <2> QED  BY <2>5, <2>6
<1> QED  BY <1>2, <1>3

LEMMA DownWaitTokens ==
  ASSUME TypeOK, TypeOK', LocalsOK, ReadyList, WaitLists, Tokens, NEW t \in Thread, DownWait(t)
  PROVE  Tokens'
<1> DEFINE s == target[t]
<1>1. /\ current = t /\ pc[t] = "down" /\ s \in Sema /\ value[s] = 0
      /\ waiters' = [waiters EXCEPT ![s] = Append(waiters[s], t)]
      /\ UNCHANGED value /\ value \in [Sema -> Nat]
  BY DEF DownWait, At, Block, LocalsOK, TypeOK
<1>2. Moves
  BY DownWaitLists
<1>3. PICK c \in Sema : c = s
  BY <1>1
<1> SUFFICES ASSUME NEW k \in Sema, waiters'[k] # <<>>
             PROVE  \E g : Testers(g, value[k], k)'
  BY DEF Tokens
<1>4. CASE k = c
  <2>1. value'[k] = 0
    BY <1>1, <1>3, <1>4
  <2>2. <<>> \in [1..0 -> Thread]
    OBVIOUS
  <2>3. Testers(<<>>, 0, k)'
    BY <2>2 DEF Testers
  <2> QED  BY <2>1, <2>3 DEF Testers
<1>5. CASE k # c
  <2>1. waiters[k] # <<>>
    BY <1>1, <1>3, <1>5 DEF TypeOK
  <2>2. PICK f : Testers(f, value[k], k)
    BY <2>1 DEF Tokens
  <2>3. PICK n \in Nat : n = value[k] /\ n = value'[k]
    BY <1>1
  <2>4. \A u \in Thread : u = current => ~WillTest(u, k)
    BY <1>1, <1>3, <1>5 DEF WillTest
  <2>5. \E g : Testers(g, n, k)'
    BY <1>2, <2>2, <2>3, <2>4, TestersFrame
  <2> QED  BY <2>3, <2>5 DEF Testers
<1> QED  BY <1>4, <1>5

LEMMA UpTokens ==
  ASSUME TypeOK, TypeOK', ReadyList, WaitLists, Tokens, NEW s \in Sema, Ups(s), Tests,
         \A u \in Thread : u # current => pc'[u] = pc[u] /\ target'[u] = target[u]
  PROVE  Tokens'
<1>1. /\ Moves
      /\ value' = [value EXCEPT ![s] = @ + 1]
      /\ \A k \in Sema : k # s => waiters'[k] = waiters[k]
      /\ \/ waiters'[s] = <<>>
         \/ \E w \in Thread : ~WillTest(w, s) /\ WillTest(w, s)'
  BY UpLists
<1>2. value \in [Sema -> Nat]
  BY DEF TypeOK
<1>3. waiters'[s] # <<>> => waiters[s] # <<>>
  BY DEF Ups, Raise, TypeOK
<1> SUFFICES ASSUME NEW k \in Sema, waiters'[k] # <<>>
             PROVE  \E g : Testers(g, value[k], k)'
  BY DEF Tokens
<1>4. PICK f : Testers(f, value[k], k)
  BY <1>1, <1>3 DEF Tokens
<1>5. PICK n \in Nat, m \in Nat : n = value[k] /\ m = value'[k]
  BY <1>1, <1>2
<1>6. \A u \in Thread : u = current /\ WillTest(u, k) => WillTest(u, k)'
  BY DEF Tests
<1>7. CASE k = s
  <2>1. m = n + 1
    BY <1>1, <1>2, <1>5, <1>7
  <2>2. PICK w \in Thread : ~WillTest(w, k) /\ WillTest(w, k)'
    BY <1>1, <1>7
  <2>3. \E g : Testers(g, m, k)'
    BY <1>1, <1>4, <1>5, <1>6, <2>1, <2>2, TestersGain
  <2> QED  BY <1>5, <2>3 DEF Testers
<1>8. CASE k # s
  <2>1. m = n
    BY <1>1, <1>2, <1>5, <1>8
  <2>2. \E g : Testers(g, m, k)'
    BY <1>1, <1>4, <1>5, <1>6, <2>1, TestersFrame
  <2> QED  BY <1>5, <2>2 DEF Testers
<1> QED  BY <1>7, <1>8

LEMMA ListStep ==
  ASSUME TypeOK, TypeOK', LocalsOK, ListInv, Next
  PROVE  ListInv'
<1> USE DEF ListInv
<1>1. ASSUME NEW t \in Thread, Plain(t)
      PROVE  ListInv'
  BY <1>1, PlainLists, PlainTokens
<1>2. ASSUME NEW t \in Thread, Quiet(t)
      PROVE  ListInv'
  BY <1>2, QuietLists, QuietTokens
<1>3. ASSUME NEW t \in Thread, DownWait(t)
      PROVE  ListInv'
  BY <1>3, DownWaitLists, DownWaitTokens
<1>4. ASSUME NEW t \in Thread, NEW s \in Event, SemaUp(t, s)
      PROVE  ListInv'
  <2>1. Ups(s) /\ s \in Sema /\ current = t /\ pc[t] = "run" /\ UNCHANGED <<pc, target>>
    BY <1>4 DEF SemaUp, Ups, At, Sema
  <2>2. Tests
    BY <2>1 DEF Tests, WillTest
  <2> QED  BY <2>1, <2>2, UpLists, UpTokens
<1>5. ASSUME NEW s \in Event, InterruptUp(s)
      PROVE  ListInv'
  <2>1. Ups(s) /\ s \in Sema /\ UNCHANGED <<current, pc, target>>
    BY <1>5 DEF InterruptUp, Ups, Sema
  <2>2. ReadyList'
    BY <2>1, UpLists
  <2>3. Tests
    BY <2>1, <2>2 DEF Tests, WillTest, ReadyList
  <2> QED  BY <2>1, <2>3, UpLists, UpTokens
<1>6. ASSUME NEW t \in Thread, ReleaseUp(t)
      PROVE  ListInv'
  <2>1. Ups(target[t]) /\ target[t] \in Sema /\ current = t /\ pc[t] = "up"
    BY <1>6 DEF ReleaseUp, Ups, At, Sema, LocalsOK
  <2>2. \A u \in Thread : u # current => pc'[u] = pc[u] /\ target'[u] = target[u]
    BY <1>6, <2>1 DEF ReleaseUp, Goto, TypeOK
  <2>3. Tests
    BY <2>1 DEF Tests, WillTest
  <2> HIDE DEF Ups
  <2>4. PICK c \in Sema : c = target[t]
    BY <2>1
  <2>5. Ups(c)
    BY <2>1, <2>4
  <2> QED  BY <2>2, <2>3, <2>5, UpLists, UpTokens
<1>7. ASSUME IdleBlock
      PROVE  ListInv'
  <2>1. ReadyList' /\ WaitLists' /\ Moves /\ UNCHANGED <<value, waiters>>
    BY <1>7, IdleLists
  <2>2. Tests
    BY <1>7, ThreadAssumption DEF IdleBlock, Tests
  <2>3. Tokens'
    BY <2>1, <2>2, TokensFrame DEF Tests, TypeOK
  <2> QED  BY <2>1, <2>3
<1> QED  BY <1>1, <1>2, <1>3, <1>4, <1>5, <1>6, <1>7, NextCases

\* What blocking, waking and the scheduler keep of the ready list and of the
\* lists of waiters (synch.c, thread.c).
THEOREM ListInvariant == Spec => [](LockInv /\ ListInv)
<1>1. Init => ListInv
  <2> SUFFICES ASSUME Init PROVE ListInv
    OBVIOUS
  <2>1. ReadyList
    BY ThreadAssumption, EmptySet DEF Init, ReadyList
  <2>2. WaitLists
    BY EmptySet DEF Init, WaitLists
  <2>3. Tokens
    BY DEF Init, Tokens
  <2> QED  BY <2>1, <2>2, <2>3 DEF ListInv
<1>2. LockInv /\ LockInv' /\ ListInv /\ [Next]_vars => ListInv'
  <2> SUFFICES ASSUME LockInv, LockInv', ListInv, [Next]_vars PROVE ListInv'
    OBVIOUS
  <2>1. CASE Next
    BY <2>1, ListStep DEF LockInv
  <2>2. CASE UNCHANGED vars
    BY <2>2 DEF ListInv, ReadyList, WaitLists, Tokens, Testers, WillTest, vars
  <2> QED  BY <2>1, <2>2
<1> QED  BY <1>1, <1>2, LockInvariant, PTL DEF Spec

\* Every thread is on the one list its status says, once: a list element is
\* never linked into two lists.
THEOREM ListsCorrect == Spec => []ListDiscipline
<1>1. ListInv => ListDiscipline
  BY ListDisciplineParts DEF ListInv
<1> QED  BY <1>1, ListInvariant, PTL

\* A value that is up while threads sleep is about to be tested by as many
\* threads: no sema_up is lost, for any number of threads.
THEOREM NoWakeupLost == Spec => []NoLostWakeup
<1>1. LockInv /\ ListInv => NoLostWakeup
  BY TokensSuffice DEF LockInv, ListInv
<1> QED  BY <1>1, ListInvariant, PTL
=============================================================================
