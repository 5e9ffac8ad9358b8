---------------------------- MODULE PintosSynch ----------------------------
(***************************************************************************)
(* Threads, semaphores and priority-donating locks of the first kernel     *)
(* project: cs439/proj1/threads/thread.c and synch.c.                      *)
(*                                                                         *)
(* One processor runs one thread at a time.  A kernel routine runs as a    *)
(* sequence of steps, one action each; between two steps the timer may     *)
(* preempt the thread (Preempt) and a handler may up a semaphore           *)
(* (InterruptUp).  What the source does between intr_disable and           *)
(* intr_set_level is one step.  A pass over a list that the source makes   *)
(* with interrupts on is one step too: its passes over the waiters (lines  *)
(* 289-314 of synch.c) and over all_list (316-331) are each atomic here.   *)
(***************************************************************************)
EXTENDS Naturals, Sequences, SequencesExt

CONSTANTS
  Thread,       \* struct thread pages
  NoThread,     \* NULL; as current: the idle thread runs
  Main,         \* the thread thread_init makes of the boot code
  Lock,         \* struct lock objects
  Event,        \* semaphores used on their own
  NoSema,       \* no semaphore
  Priority,     \* thread priorities
  Rank,         \* the order in which callers take nested locks
  Calls,        \* the routines the threads of this instance call
  MaxValue      \* bound on the value of a semaphore in Event

PRI_MIN == 0
Sema == Lock \cup Event

ASSUME ThreadAssumption == NoThread \notin Thread /\ Main \in Thread
ASSUME SemaAssumption == Lock \cap Event = {} /\ NoSema \notin Sema
ASSUME PriorityAssumption == Priority \subseteq Nat
ASSUME RankAssumption == Rank \in [Lock -> Nat]
ASSUME CallsAssumption ==
  Calls \subseteq {"thread_exit", "thread_set_priority", "lock_acquire", "lock_try_acquire"}
ASSUME MaxValueAssumption == MaxValue \in Nat

OptThread == Thread \cup {NoThread}

VARIABLES
  current,      \* running_thread()
  ready,        \* ready_list
  status,       \* status of each thread, "unborn" before init_thread
  prio,         \* priority
  base,         \* base_priority
  waitThread,   \* wait_thread
  value,        \* value of each semaphore
  waiters,      \* waiters of each semaphore
  holder,       \* holder of each lock
  pc,           \* where each thread is
  target,       \* the semaphore the routine it is in works on
  idx,          \* wait_thread_index in lock_acquire
  next,         \* holder, then next, in lock_acquire
  maxPrio,      \* max_priority in lock_release and thread_set_priority
  oldPrio,      \* old_priority in thread_set_priority
  held,         \* locks each thread has acquired and not yet released
  panic         \* the kernel has dereferenced NULL

sched == <<current, ready, status>>
sems == <<value, waiters>>
locals == <<idx, next, maxPrio, oldPrio>>
vars == <<current, ready, status, prio, base, waitThread, value, waiters,
          holder, pc, target, idx, next, maxPrio, oldPrio, held, panic>>

Init ==
  /\ current = Main
  /\ ready = <<>>
  /\ status = [t \in Thread |-> IF t = Main THEN "running" ELSE "unborn"]
  /\ \E p \in Priority : prio = [t \in Thread |-> IF t = Main THEN p ELSE PRI_MIN]
  /\ base = prio
  /\ waitThread = [t \in Thread |-> NoThread]
  /\ value = [s \in Sema |-> IF s \in Lock THEN 1 ELSE 0]
  /\ waiters = [s \in Sema |-> <<>>]
  /\ holder = [l \in Lock |-> NoThread]
  /\ pc = [t \in Thread |-> "run"]
  /\ target = [t \in Thread |-> NoSema]
  /\ idx = [t \in Thread |-> NoThread]
  /\ next = [t \in Thread |-> NoThread]
  /\ maxPrio = [t \in Thread |-> PRI_MIN]
  /\ oldPrio = [t \in Thread |-> PRI_MIN]
  /\ held = [t \in Thread |-> {}]
  /\ panic = FALSE

-----------------------------------------------------------------------------
(* The scheduler. *)

\* Position i of q is the one the scans for a maximum stop at: the first of
\* those whose thread has the highest priority.
IsTop(i, q, p) ==
  \A j \in DOMAIN q : p[q[j]] < p[q[i]] \/ (p[q[j]] = p[q[i]] /\ i <= j)

\* schedule() with ready list q and priorities p, st the statuses without a
\* running thread.
Schedule(q, p, st) ==
  \/ /\ q = <<>>
     /\ current' = NoThread
     /\ ready' = <<>>
     /\ status' = st
  \/ \E i \in DOMAIN q :
       /\ IsTop(i, q, p)
       /\ current' = q[i]
       /\ ready' = RemoveAt(q, i)
       /\ status' = [st EXCEPT ![q[i]] = "running"]

\* thread_yield() by t, q being the ready list before and st the statuses.
Yield(t, q, p, st) == Schedule(Append(q, t), p, [st EXCEPT ![t] = "ready"])

\* thread_block() by t.
Block(t) == Schedule(ready, prio, [status EXCEPT ![t] = "blocked"])

\* t runs at label l of its routine.
At(t, l) == ~panic /\ current = t /\ pc[t] = l

Goto(t, l) == pc' = [pc EXCEPT ![t] = l]

\* The interrupt handler asked for intr_yield_on_return at the end of t's
\* time slice.
Preempt(t) ==
  /\ ~panic
  /\ current = t
  /\ Yield(t, ready, prio, status)
  /\ UNCHANGED <<prio, base, waitThread, sems, holder, pc, target, locals, held, panic>>

\* The idle thread blocks again after an interrupt made a thread ready.
IdleBlock ==
  /\ ~panic
  /\ current = NoThread
  /\ ready # <<>>
  /\ Schedule(ready, prio, status)
  /\ UNCHANGED <<prio, base, waitThread, sems, holder, pc, target, locals, held, panic>>

\* thread_create() of u: init_thread, thread_unblock, thread_yield.
ThreadCreate(t, u, p) ==
  /\ At(t, "run")
  /\ status[u] = "unborn"
  /\ prio' = [prio EXCEPT ![u] = p]
  /\ base' = [base EXCEPT ![u] = p]
  /\ Yield(t, Append(ready, u), prio', [status EXCEPT ![u] = "ready"])
  /\ UNCHANGED <<waitThread, sems, holder, pc, target, locals, held, panic>>

\* thread_exit() of a thread that holds no lock.
ThreadExit(t) ==
  /\ At(t, "run")
  /\ held[t] = {}
  /\ Schedule(ready, prio, [status EXCEPT ![t] = "dying"])
  /\ UNCHANGED <<prio, base, waitThread, sems, holder, pc, target, locals, held, panic>>

-----------------------------------------------------------------------------
(* Priorities. *)

\* The threads of all_list that wait for t.
Donors(t) == {u \in Thread : status[u] \notin {"unborn", "dying"} /\ waitThread[u] = t}

\* Broken: the scan starts at PRI_MIN and forgets the base priority.
IsDonatedFromMin(m, t, b) ==
  /\ m \in {PRI_MIN} \cup {prio[u] : u \in Donors(t)}
  /\ \A u \in Donors(t) : m >= prio[u]

\* m is the highest of b and the priorities donated to t.
IsDonated(m, t, b) ==
  /\ m \in {b} \cup {prio[u] : u \in Donors(t)}
  /\ m >= b
  /\ \A u \in Donors(t) : m >= prio[u]

\* thread_set_priority(p) up to the assignment to priority, and the rest.
SetPriority(t, p) ==
  /\ At(t, "run")
  /\ base' = [base EXCEPT ![t] = p]
  /\ \E m \in Priority :
       /\ IsDonated(m, t, p)
       /\ maxPrio' = [maxPrio EXCEPT ![t] = m]
  /\ oldPrio' = [oldPrio EXCEPT ![t] = prio[t]]
  /\ Goto(t, "set_priority")
  /\ UNCHANGED <<sched, prio, waitThread, sems, holder, target, idx, next, held, panic>>

SetPriorityEnd(t) ==
  /\ At(t, "set_priority")
  /\ prio' = [prio EXCEPT ![t] = maxPrio[t]]
  /\ IF oldPrio[t] > maxPrio[t] THEN Yield(t, ready, prio', status)
                                ELSE UNCHANGED sched
  /\ maxPrio' = [maxPrio EXCEPT ![t] = PRI_MIN]
  /\ oldPrio' = [oldPrio EXCEPT ![t] = PRI_MIN]
  /\ Goto(t, "run")
  /\ UNCHANGED <<base, waitThread, sems, holder, target, idx, next, held, panic>>

-----------------------------------------------------------------------------
(* Semaphores. *)

\* Broken: the waiter stays on the wait list.
RaiseKeepsWaiter(s, w) ==
  /\ value' = [value EXCEPT ![s] = @ + 1]
  /\ UNCHANGED waiters
  /\ \/ waiters[s] = <<>> /\ w = NoThread
     \/ \E i \in DOMAIN waiters[s] : IsTop(i, waiters[s], prio) /\ w = waiters[s][i]

\* Broken: a waiter is woken only when the value was 0.
RaiseFromZero(s, w) ==
  /\ value' = [value EXCEPT ![s] = @ + 1]
  /\ \/ (waiters[s] = <<>> \/ value[s] > 0) /\ w = NoThread /\ UNCHANGED waiters
     \/ \E i \in DOMAIN waiters[s] :
          /\ value[s] = 0
          /\ IsTop(i, waiters[s], prio)
          /\ w = waiters[s][i]
          /\ waiters' = [waiters EXCEPT ![s] = RemoveAt(@, i)]

\* Broken: nobody is woken.
RaiseOnly(s, w) ==
  value' = [value EXCEPT ![s] = @ + 1] /\ w = NoThread /\ UNCHANGED waiters

\* sema_up() of s up to intr_set_level: w is the thread it unblocks.
Raise(s, w) ==
  /\ value' = [value EXCEPT ![s] = @ + 1]
  /\ \/ waiters[s] = <<>> /\ w = NoThread /\ UNCHANGED waiters
     \/ \E i \in DOMAIN waiters[s] :
          /\ IsTop(i, waiters[s], prio)
          /\ w = waiters[s][i]
          /\ waiters' = [waiters EXCEPT ![s] = RemoveAt(@, i)]

\* thread_unblock(w): the ready list and the statuses after it.
Enqueued(w) == IF w = NoThread THEN ready ELSE Append(ready, w)
Unblocked(w) == [u \in Thread |-> IF u = w THEN "ready" ELSE status[u]]

SemaUp(t, s) ==
  /\ At(t, "run")
  /\ value[s] < MaxValue
  /\ \E w \in OptThread : Raise(s, w) /\ Yield(t, Enqueued(w), prio, Unblocked(w))
  /\ UNCHANGED <<prio, base, waitThread, holder, pc, target, locals, held, panic>>

\* sema_up() in a handler: the interrupted thread goes on.
InterruptUp(s) ==
  /\ ~panic
  /\ value[s] < MaxValue
  /\ \E w \in OptThread :
       Raise(s, w) /\ ready' = Enqueued(w) /\ status' = Unblocked(w)
  /\ UNCHANGED <<current, prio, base, waitThread, holder, pc, target, locals, held, panic>>

SemaDown(t, s) ==
  /\ At(t, "run")
  /\ target' = [target EXCEPT ![t] = s]
  /\ Goto(t, "down")
  /\ UNCHANGED <<sched, prio, base, waitThread, sems, holder, locals, held, panic>>

\* One test of value in the loop of sema_down.
DownWait(t) ==
  /\ At(t, "down")
  /\ value[target[t]] = 0
  /\ waiters' = [waiters EXCEPT ![target[t]] = Append(@, t)]
  /\ Block(t)
  /\ UNCHANGED <<prio, base, waitThread, value, holder, pc, target, locals, held, panic>>

DownTake(t) ==
  /\ At(t, "down")
  /\ value[target[t]] > 0
  /\ value' = [value EXCEPT ![target[t]] = @ - 1]
  /\ IF target[t] \in Lock
       THEN Goto(t, "set_holder") /\ UNCHANGED target
       ELSE Goto(t, "run") /\ target' = [target EXCEPT ![t] = NoSema]
  /\ UNCHANGED <<sched, prio, base, waitThread, waiters, holder, locals, held, panic>>

\* Broken: the value is not tested.
SemaTryDownUntested(t, s) ==
  /\ At(t, "run")
  /\ value' = [value EXCEPT ![s] = @ - 1]
  /\ UNCHANGED <<sched, prio, base, waitThread, waiters, holder, pc, target, locals, held, panic>>

\* sema_try_down() of a semaphore that is not 0; otherwise it changes nothing.
SemaTryDown(t, s) ==
  /\ At(t, "run")
  /\ value[s] > 0
  /\ value' = [value EXCEPT ![s] = @ - 1]
  /\ UNCHANGED <<sched, prio, base, waitThread, waiters, holder, pc, target, locals, held, panic>>

-----------------------------------------------------------------------------
(* lock_acquire and lock_try_acquire. *)

\* The read of lock->holder, and the jump over the donation when it is NULL.
\* Callers take nested locks in the order of Rank.
LockAcquire(t, l) ==
  /\ At(t, "run")
  /\ l \notin held[t]
  /\ \A k \in held[t] : Rank[k] < Rank[l]
  /\ target' = [target EXCEPT ![t] = l]
  /\ next' = [next EXCEPT ![t] = holder[l]]
  /\ Goto(t, IF holder[l] = NoThread THEN "down" ELSE "set_wait")
  /\ UNCHANGED <<sched, prio, base, waitThread, sems, holder, idx, maxPrio, oldPrio, held, panic>>

SetWait(t) ==
  /\ At(t, "set_wait")
  /\ waitThread' = [waitThread EXCEPT ![t] = next[t]]
  /\ idx' = [idx EXCEPT ![t] = t]
  /\ Goto(t, "walk")
  /\ UNCHANGED <<sched, prio, base, sems, holder, target, next, maxPrio, oldPrio, held, panic>>

\* Broken: the donation does not compare the priorities.
DonateAlways(t) ==
  /\ At(t, "walk")
  /\ next[t] # NoThread
  /\ prio' = [prio EXCEPT ![next[t]] = prio[idx[t]]]
  /\ Goto(t, "follow")
  /\ UNCHANGED <<sched, base, waitThread, sems, holder, target, locals, held, panic>>

\* The test of the donation loop and the donation.
Donate(t) ==
  /\ At(t, "walk")
  /\ next[t] # NoThread
  /\ IF prio[idx[t]] > prio[next[t]]
       THEN prio' = [prio EXCEPT ![next[t]] = prio[idx[t]]]
       ELSE UNCHANGED prio
  /\ Goto(t, "follow")
  /\ UNCHANGED <<sched, base, waitThread, sems, holder, target, locals, held, panic>>

WalkEnd(t) ==
  /\ At(t, "walk")
  /\ next[t] = NoThread
  /\ idx' = [idx EXCEPT ![t] = NoThread]
  /\ Goto(t, "down")
  /\ UNCHANGED <<sched, prio, base, waitThread, sems, holder, target, next, maxPrio, oldPrio, held, panic>>

\* wait_thread_index moves on by a second read of wait_thread, which may
\* have become NULL since the loop read it.
Follow(t) ==
  /\ At(t, "follow")
  /\ LET i == waitThread[idx[t]] IN
       /\ idx' = [idx EXCEPT ![t] = i]
       /\ IF i = NoThread
            THEN panic' = TRUE /\ UNCHANGED <<pc, next>>
            ELSE /\ next' = [next EXCEPT ![t] = waitThread[i]]
                 /\ Goto(t, "walk")
                 /\ UNCHANGED panic
  /\ UNCHANGED <<sched, prio, base, waitThread, sems, holder, target, maxPrio, oldPrio, held>>

SetHolder(t) ==
  /\ At(t, "set_holder")
  /\ holder' = [holder EXCEPT ![target[t]] = t]
  /\ Goto(t, "clear_wait")
  /\ UNCHANGED <<sched, prio, base, waitThread, sems, target, locals, held, panic>>

AcquireEnd(t) ==
  /\ At(t, "clear_wait")
  /\ waitThread' = [waitThread EXCEPT ![t] = NoThread]
  /\ held' = [held EXCEPT ![t] = @ \cup {target[t]}]
  /\ target' = [target EXCEPT ![t] = NoSema]
  /\ Goto(t, "run")
  /\ UNCHANGED <<sched, prio, base, sems, holder, locals, panic>>

\* Broken: the semaphore is not tested.
LockTryAcquireUntested(t, l) ==
  /\ At(t, "run")
  /\ l \notin held[t]
  /\ value' = [value EXCEPT ![l] = @ - 1]
  /\ target' = [target EXCEPT ![t] = l]
  /\ Goto(t, "try_holder")
  /\ UNCHANGED <<sched, prio, base, waitThread, waiters, holder, locals, held, panic>>

\* lock_try_acquire() of a lock that is free, up to its last assignment.
LockTryAcquire(t, l) ==
  /\ At(t, "run")
  /\ l \notin held[t]
  /\ value[l] > 0
  /\ value' = [value EXCEPT ![l] = @ - 1]
  /\ target' = [target EXCEPT ![t] = l]
  /\ Goto(t, "try_holder")
  /\ UNCHANGED <<sched, prio, base, waitThread, waiters, holder, locals, held, panic>>

TryEnd(t) ==
  /\ At(t, "try_holder")
  /\ holder' = [holder EXCEPT ![target[t]] = t]
  /\ held' = [held EXCEPT ![t] = @ \cup {target[t]}]
  /\ target' = [target EXCEPT ![t] = NoSema]
  /\ Goto(t, "run")
  /\ UNCHANGED <<sched, prio, base, waitThread, sems, locals, panic>>

-----------------------------------------------------------------------------
(* lock_release. *)

\* The thread the first scan stops at.  top_thread stays uninitialized when
\* every waiter has priority PRI_MIN: it then points at any thread.
TopWaiter(u, l) ==
  IF \E i \in DOMAIN waiters[l] : prio[waiters[l][i]] > PRI_MIN
    THEN \E i \in DOMAIN waiters[l] : IsTop(i, waiters[l], prio) /\ u = waiters[l][i]
    ELSE u \in Thread

\* The waiters but u wait for u from now on, and u for nobody.
Retarget(u, l) ==
  waitThread' = [w \in Thread |->
    IF w = u THEN NoThread
    ELSE IF w \in ToSet(waiters[l]) THEN u ELSE waitThread[w]]

LockRelease(t, l) ==
  /\ At(t, "run")
  /\ l \in held[t]
  /\ \/ waiters[l] = <<>> /\ UNCHANGED waitThread
     \/ waiters[l] # <<>> /\ \E u \in Thread : TopWaiter(u, l) /\ Retarget(u, l)
  /\ target' = [target EXCEPT ![t] = l]
  /\ Goto(t, "recompute")
  /\ UNCHANGED <<sched, prio, base, sems, holder, locals, held, panic>>

\* Broken: the holder is not cleared before the semaphore is upped.
KeepHolder(t) ==
  /\ At(t, "recompute")
  /\ \E m \in Priority : IsDonated(m, t, base[t]) /\ maxPrio' = [maxPrio EXCEPT ![t] = m]
  /\ Goto(t, "up")
  /\ UNCHANGED <<sched, prio, base, waitThread, sems, holder, target, idx, next, oldPrio, held, panic>>

ClearHolder(t) ==
  /\ At(t, "recompute")
  /\ \E m \in Priority :
       /\ IsDonated(m, t, base[t])
       /\ maxPrio' = [maxPrio EXCEPT ![t] = m]
  /\ holder' = [holder EXCEPT ![target[t]] = NoThread]
  /\ Goto(t, "up")
  /\ UNCHANGED <<sched, prio, base, waitThread, sems, target, idx, next, oldPrio, held, panic>>

\* Broken: the semaphore is upped, yet the owner goes on.
EarlyUp(t) ==
  /\ At(t, "up")
  /\ \E w \in OptThread :
       Raise(target[t], w) /\ Yield(t, Enqueued(w), prio, Unblocked(w))
  /\ Goto(t, "recompute")
  /\ UNCHANGED <<prio, base, waitThread, holder, target, locals, held, panic>>

ReleaseUp(t) ==
  /\ At(t, "up")
  /\ \E w \in OptThread :
       Raise(target[t], w) /\ Yield(t, Enqueued(w), prio, Unblocked(w))
  /\ held' = [held EXCEPT ![t] = @ \ {target[t]}]
  /\ target' = [target EXCEPT ![t] = NoSema]
  /\ Goto(t, "set_prio")
  /\ UNCHANGED <<prio, base, waitThread, holder, locals, panic>>

\* The priority computed before the yield in sema_up, and the last yield.
ReleaseEnd(t) ==
  /\ At(t, "set_prio")
  /\ prio' = [prio EXCEPT ![t] = maxPrio[t]]
  /\ Yield(t, ready, prio', status)
  /\ maxPrio' = [maxPrio EXCEPT ![t] = PRI_MIN]
  /\ Goto(t, "run")
  /\ UNCHANGED <<base, waitThread, sems, holder, target, idx, next, oldPrio, held, panic>>

-----------------------------------------------------------------------------
ThreadOps(t) ==
  \/ \E u \in Thread, p \in Priority : ThreadCreate(t, u, p)
  \/ "thread_exit" \in Calls /\ ThreadExit(t)
  \/ "thread_set_priority" \in Calls /\ \E p \in Priority : SetPriority(t, p)
  \/ \E s \in Event : SemaUp(t, s) \/ SemaDown(t, s) \/ SemaTryDown(t, s)
  \/ \E l \in Lock :
       \/ "lock_acquire" \in Calls /\ LockAcquire(t, l)
       \/ "lock_try_acquire" \in Calls /\ LockTryAcquire(t, l)
       \/ LockRelease(t, l)

\* The rest of the routine t is in.
Continue(t) ==
  \/ SetPriorityEnd(t)
  \/ DownWait(t) \/ DownTake(t)
  \/ SetWait(t) \/ Donate(t) \/ WalkEnd(t) \/ Follow(t) \/ SetHolder(t) \/ AcquireEnd(t)
  \/ TryEnd(t)
  \/ ClearHolder(t) \/ ReleaseUp(t) \/ ReleaseEnd(t)

Next ==
  \/ \E t \in Thread : ThreadOps(t) \/ Continue(t) \/ Preempt(t)
  \/ \E s \in Event : InterruptUp(s)
  \/ IdleBlock

Spec == Init /\ [][Next]_vars

\* A dispatched thread runs for a whole time slice before the timer takes the
\* processor away, so one that is dispatched again and again goes on in its
\* routine; a thread that keeps running is preempted.
FairSpec ==
  /\ Spec
  /\ \A t \in Thread : SF_vars(Continue(t)) /\ WF_vars(Preempt(t))
  /\ WF_vars(IdleBlock)

-----------------------------------------------------------------------------
(* Properties. *)

Labels == {"run", "set_priority", "down", "set_wait", "walk", "follow",
           "set_holder", "clear_wait", "try_holder", "recompute", "up", "set_prio"}

\* The type of every variable.
TypeOK ==
  /\ current \in OptThread
  /\ ready \in Seq(Thread)
  /\ status \in [Thread -> {"unborn", "running", "ready", "blocked", "dying"}]
  /\ prio \in [Thread -> Priority \cup {PRI_MIN}]
  /\ base \in [Thread -> Priority \cup {PRI_MIN}]
  /\ waitThread \in [Thread -> OptThread]
  /\ value \in [Sema -> Nat]
  /\ waiters \in [Sema -> Seq(Thread)]
  /\ holder \in [Lock -> OptThread]
  /\ pc \in [Thread -> Labels]
  /\ target \in [Thread -> Sema \cup {NoSema}]
  /\ idx \in [Thread -> OptThread]
  /\ next \in [Thread -> OptThread]
  /\ maxPrio \in [Thread -> Priority \cup {PRI_MIN}]
  /\ oldPrio \in [Thread -> Priority \cup {PRI_MIN}]
  /\ held \in [Thread -> SUBSET Lock]
  /\ panic \in BOOLEAN

\* t is between the decrement of l's semaphore and its increment.
Owns(t, l) ==
  \/ l \in held[t]
  \/ pc[t] \in {"set_holder", "clear_wait", "try_holder"} /\ target[t] = l

\* At most one thread is past the sema_down of a lock and has not upped it
\* again, whatever steps of lock_acquire, lock_try_acquire and lock_release
\* the timer lets interleave.
MutualExclusion ==
  \A l \in Lock : \A t, u \in Thread : Owns(t, l) /\ Owns(u, l) => t = u

\* lock->holder, which is written before and after the semaphore without
\* protection, still names the owner whenever a thread may test it: the
\* ASSERTs of lock_acquire and lock_release never fire.
HolderIsOwner ==
  \A l \in Lock, t \in Thread :
    /\ holder[l] = t => Owns(t, l)
    /\ pc[t] \in {"run", "recompute"} /\ l \in held[t] => holder[l] = t

\* t will test the value of s again without being woken.
WillTest(t, s) == pc[t] = "down" /\ target[t] = s /\ status[t] \in {"ready", "running"}

\* A semaphore with a positive value and sleeping waiters always has a thread
\* on its way to test the value: no sema_up is lost, although the value that
\* wakes a thread may be taken by another one before it runs.
NoLostWakeup ==
  \A s \in Sema :
    value[s] > 0 /\ waiters[s] # <<>> => \E t \in Thread : WillTest(t, s)

\* thread.elem is on the ready list exactly for ready threads and on one wait
\* list exactly for blocked ones, once (the comment on struct thread).
ListDiscipline ==
  /\ \A t \in Thread : status[t] = "ready" <=> t \in ToSet(ready)
  /\ \A t \in Thread : status[t] = "blocked" <=> \E s \in Sema : t \in ToSet(waiters[s])
  /\ \A s \in Sema : \A i \in DOMAIN waiters[s] :
       pc[waiters[s][i]] = "down" /\ target[waiters[s][i]] = s
  /\ IsInjective(ready)
  /\ \A s \in Sema : IsInjective(waiters[s])
  /\ \A t \in Thread : status[t] = "running" <=> t = current

\* Donation never leaves a thread below its own base priority, except
\* between the two assignments of thread_set_priority.
PriorityAboveBase ==
  \A t \in Thread : pc[t] # "set_priority" => prio[t] >= base[t]

\* A thread's priority is lowered only by the thread itself, in
\* thread_set_priority or lock_release: a donation in progress never takes a
\* higher one away from a thread that another waiter raised meanwhile.
OnlySelfLowers ==
  [][\A t \in Thread : prio'[t] < prio[t] => current = t \/ status[t] = "unborn"]_vars

\* A semaphore with a positive value and waiters is eventually drained: the
\* thread that was woken, or another one, takes the value or leaves no waiter.
WokenTakes ==
  \A s \in Sema :
    value[s] > 0 /\ waiters[s] # <<>> ~> value[s] = 0 \/ waiters[s] = <<>>

\* lock_acquire, lock_try_acquire and lock_release, in as many steps as the
\* source takes, implement a lock with one owner.
Owner == [l \in Lock |->
  IF \E t \in Thread : Owns(t, l) THEN CHOOSE t \in Thread : Owns(t, l) ELSE NoThread]
M == INSTANCE Mutex WITH owner <- Owner
ImplementsMutex == M!Spec

-----------------------------------------------------------------------------
(* What the documentation says of donation and the code does not do. *)

\* A thread that holds a lock, outside the routines of this module, has at
\* least the priority of each thread asleep on it that donated to it
\* (threads_design.txt, B4 and B6).
DonationHeld ==
  \A t, u \in Thread :
    /\ pc[t] = "run"
    /\ status[u] = "blocked"
    /\ target[u] \in held[t]
    /\ waitThread[u] = t
    => prio[t] >= prio[u]
=============================================================================
