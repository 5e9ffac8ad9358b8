------------------------------ MODULE Monitor ------------------------------
(***************************************************************************)
(* Condition variables: cond_wait, cond_signal and cond_broadcast of       *)
(* cs439/proj1/threads/synch.c, over one lock and one condition.           *)
(*                                                                         *)
(* A waiter puts a semaphore of its own, on its stack, on the condition's  *)
(* list.  The lock is the abstract one of Mutex, which PintosSynch shows   *)
(* the struct lock to implement.  Threads interleave at every call; a      *)
(* waiter's priority may change while it waits (donation for another lock, *)
(* or its end), but the one on the list is the one it had when it came.    *)
(***************************************************************************)
EXTENDS Naturals, Sequences, SequencesExt

CONSTANTS Thread, NoThread, Priority

ASSUME ThreadAssumption == NoThread \notin Thread
ASSUME PriorityAssumption == Priority \subseteq Nat

VARIABLES
  owner,        \* the owner of the monitor lock
  list,         \* cond->waiters: a semaphore_elem per waiter
  up,           \* the waiters whose semaphore is 1
  prio,         \* the current priority of each thread
  pc            \* where each thread is

vars == <<owner, list, up, prio, pc>>

Init ==
  /\ owner = NoThread
  /\ list = <<>>
  /\ up = {}
  /\ prio \in [Thread -> Priority]
  /\ pc = [t \in Thread |-> "out"]

Goto(t, l) == pc' = [pc EXCEPT ![t] = l]

Enter(t) ==
  /\ pc[t] = "out" /\ owner = NoThread
  /\ owner' = t
  /\ Goto(t, "in")
  /\ UNCHANGED <<list, up, prio>>

Leave(t) ==
  /\ pc[t] = "in"
  /\ owner' = NoThread
  /\ Goto(t, "out")
  /\ UNCHANGED <<list, up, prio>>

\* Broken: the lock is released before the waiter is on the list.
ReleaseFirst(t) ==
  /\ pc[t] = "in"
  /\ owner' = NoThread
  /\ up' = up \ {t}
  /\ Goto(t, "down")
  /\ UNCHANGED <<list, prio>>

\* Broken: the priority of the list element is not set.
EnqueueUnset(t) ==
  /\ pc[t] = "in"
  /\ up' = up \ {t}
  /\ list' = Append(list, [thread |-> t, priority |-> 0])
  /\ Goto(t, "release")
  /\ UNCHANGED <<owner, prio>>

\* cond_wait() up to list_push_back, then lock_release, sema_down and
\* lock_acquire.
WaitEnqueue(t) ==
  /\ pc[t] = "in"
  /\ up' = up \ {t}
  /\ list' = Append(list, [thread |-> t, priority |-> prio[t]])
  /\ Goto(t, "release")
  /\ UNCHANGED <<owner, prio>>

WaitRelease(t) ==
  /\ pc[t] = "release"
  /\ owner' = NoThread
  /\ Goto(t, "down")
  /\ UNCHANGED <<list, up, prio>>

WaitDown(t) ==
  /\ pc[t] = "down"
  /\ t \in up
  /\ up' = up \ {t}
  /\ Goto(t, "reacquire")
  /\ UNCHANGED <<owner, list, prio>>

WaitReacquire(t) ==
  /\ pc[t] = "reacquire" /\ owner = NoThread
  /\ owner' = t
  /\ Goto(t, "in")
  /\ UNCHANGED <<list, up, prio>>

\* The element the scan of cond_signal stops at.
IsTop(i) ==
  \A j \in DOMAIN list :
    \/ list[j].priority < list[i].priority
    \/ list[j].priority = list[i].priority /\ i <= j

\* Broken: the signaled waiter stays on the list.
SignalKeeps ==
  \E i \in DOMAIN list :
    /\ IsTop(i)
    /\ up' = up \cup {list[i].thread}
    /\ UNCHANGED list

\* cond_signal() when somebody waits.
SignalTop ==
  \E i \in DOMAIN list :
    /\ IsTop(i)
    /\ list' = RemoveAt(list, i)
    /\ up' = up \cup {list[i].thread}

Signal(t) ==
  /\ pc[t] = "in"
  /\ SignalTop
  /\ UNCHANGED <<owner, prio, pc>>

\* Broken: cond_broadcast signals one waiter.
BroadcastOnce(t) ==
  /\ pc[t] = "broadcast"
  /\ IF list = <<>> THEN UNCHANGED <<list, up>> ELSE SignalTop
  /\ Goto(t, "in")
  /\ UNCHANGED <<owner, prio>>

\* cond_broadcast(), one turn of its loop at a time: the sema_up in each
\* turn yields.
BroadcastStart(t) ==
  /\ pc[t] = "in"
  /\ Goto(t, "broadcast")
  /\ UNCHANGED <<owner, list, up, prio>>

BroadcastTurn(t) ==
  /\ pc[t] = "broadcast"
  /\ IF list = <<>> THEN Goto(t, "in") /\ UNCHANGED <<list, up>>
                    ELSE SignalTop /\ UNCHANGED pc
  /\ UNCHANGED <<owner, prio>>

\* A donation to t for another lock, or, when t runs, its end.
Reprioritize(t, p) ==
  /\ p > prio[t] \/ pc[t] \in {"out", "in", "broadcast"}
  /\ prio' = [prio EXCEPT ![t] = p]
  /\ UNCHANGED <<owner, list, up, pc>>

\* The rest of the routine t is in.
Continue(t) ==
  \/ WaitRelease(t) \/ WaitDown(t) \/ WaitReacquire(t) \/ BroadcastTurn(t)

Next == \E t \in Thread :
  \/ Enter(t) \/ Leave(t) \/ WaitEnqueue(t) \/ Signal(t) \/ BroadcastStart(t)
  \/ Continue(t)
  \/ \E p \in Priority : Reprioritize(t, p)

Spec == Init /\ [][Next]_vars

-----------------------------------------------------------------------------
(* Properties. *)

\* The type of every variable.
TypeOK ==
  /\ owner \in Thread \cup {NoThread}
  /\ list \in Seq([thread : Thread, priority : Priority])
  /\ up \subseteq Thread
  /\ prio \in [Thread -> Priority]
  /\ pc \in [Thread -> {"out", "in", "release", "down", "reacquire", "broadcast"}]

Listed == {list[i].thread : i \in DOMAIN list}

\* A thread inside cond_wait is either on the list once or has its semaphore
\* upped, never both and never neither; no other thread is on the list.  The
\* list thus never points into the stack of a thread that left cond_wait, and
\* no signal is lost between the release of the lock and sema_down.
OneSignalEach ==
  /\ \A t \in Thread :
       IF pc[t] \in {"release", "down"} THEN t \in Listed <=> t \notin up
                                        ELSE t \notin Listed \cup up
  /\ \A i, j \in DOMAIN list : list[i].thread = list[j].thread => i = j

\* A broadcast leaves none of the threads waiting that waited when it began,
\* although each of its ups lets other threads run.
BroadcastReachesAll ==
  [][\A t, u \in Thread :
       pc[t] = "broadcast" /\ pc'[t] = "in" /\ pc[u] = "down" => u \in up]_vars

\* Condition variables implement CondSpec: the release of the lock and the
\* wait are one step to every other thread.
C == INSTANCE CondSpec WITH
       waiting <- {t \in Thread : pc[t] = "down" /\ t \notin up},
       picked <- {t \in Thread : pc[t] = "reacquire" \/ t \in up}
ImplementsCond == C!Spec
=============================================================================
