---------------------------- MODULE ProcessLife ----------------------------
(***************************************************************************)
(* The life of user processes: exec, wait, exit and death by exception, in *)
(* cs439/proj4/userprog (process.c, syscall.c, exception.c).               *)
(*                                                                         *)
(* A struct thread sits in a page of its own and is known by the address   *)
(* of that page: parent pointers are pages.  A page is freed when its      *)
(* thread exits, filled with 0xcc, and given out again; a pointer kept     *)
(* past that reads the filler (is_dead is then true and the magic number   *)
(* wrong) or another thread.  A semaphore operation on the filler faults,  *)
(* and the fault handler makes the faulting process exit with -1.          *)
(*                                                                         *)
(* The kernel is preemptive: a step is what a routine does between two     *)
(* accesses to what other threads change.  A semaphore is its value, and a *)
(* down waits for it to be positive.                                       *)
(***************************************************************************)
EXTENDS Integers, FiniteSets

CONSTANTS
  Page,         \* pages for threads
  Null,         \* the null pointer
  Main,         \* the page of the initial thread
  Program,      \* command lines
  Exists,       \* those that name a file
  MaxTid,       \* bound on the thread identifiers handed out
  MaxWaits      \* bound on the waits for one zombie before it runs again

ASSUME PageAssumption == Null \notin Page /\ Main \in Page /\ IsFiniteSet(Page)
ASSUME ProgramAssumption == Exists \subseteq Program /\ Exists # {}
ASSUME BoundAssumption == MaxTid \in Nat \ {0, 1} /\ MaxWaits \in Nat \ {0}

VARIABLES
  thread,       \* the struct thread in each page
  pc,           \* where its thread is
  call,         \* the arguments, local variables and result of its call
  array,        \* the static buffer of parseline
  nextTid,      \* next_tid of allocate_tid
  past          \* history: what happened to each tid, for the properties;
                \* reaped are those that a wait has let go

vars == <<thread, pc, call, array, nextTid, past>>

\* A struct thread after init_thread; tid 0 stands for a wrong magic number.
Fresh(t, p) ==
  [tid |-> t, parent |-> p, dead |-> FALSE, status |-> -1,
   canDie |-> 0,        \* child_can_die_sema
   onChild |-> 0,       \* wait_on_child_sema
   onLoad |-> 0,        \* wait_on_child_load_sema
   valid |-> FALSE]     \* child_valid

\* A page after palloc_free_page.
Freed == [Fresh(0, Null) EXCEPT !.dead = TRUE]

Returned(v) == [cmd |-> Null, want |-> 0, target |-> Null, eax |-> v]

Init ==
  /\ thread = [p \in Page |-> IF p = Main THEN Fresh(1, Null) ELSE Freed]
  /\ pc = [p \in Page |-> IF p = Main THEN "task" ELSE "free"]
  /\ array \in Program
  /\ call = [p \in Page |-> Returned(0)]
  /\ nextTid = 2
  /\ past = [maker |-> [t \in 1..MaxTid |-> 0], loaded |-> {}, failed |-> {}, killed |-> {}, reaped |-> {}]

Goto(p, l) == pc' = [pc EXCEPT ![p] = l]
Returns(p, v) == call' = [call EXCEPT ![p] = Returned(v)]
IsThread(p) == p # Null /\ thread[p].tid # 0
Live == {p \in Page : thread[p].tid # 0}

-----------------------------------------------------------------------------
(* exec *)

\* The file the command names need not exist; main takes the task from the
\* command line of the kernel.
RunTask(c) ==
  /\ pc[Main] = "task"
  /\ call' = [call EXCEPT ![Main].cmd = c]
  /\ Goto(Main, "copy")
  /\ UNCHANGED <<thread, array, nextTid, past>>

\* The calls of exec that have not handed out an identifier yet.
Pending == {p \in Page : pc[p] \in {"open", "copy", "create"}}

\* SYS_EXEC parses the command line into the static buffer ...
ExecCall(p, c) ==
  /\ pc[p] = "user"
  /\ nextTid + Cardinality(Pending) <= MaxTid
  /\ array' = c
  /\ call' = [call EXCEPT ![p].cmd = c]
  /\ Goto(p, "open")
  /\ UNCHANGED <<thread, nextTid, past>>

\* ... and tries to open the file the buffer names.
ExecOpen(p) ==
  /\ pc[p] = "open"
  /\ IF array \in Exists THEN Goto(p, "copy") /\ UNCHANGED call
                         ELSE Goto(p, "user") /\ Returns(p, -1)
  /\ UNCHANGED <<thread, array, nextTid, past>>

\* process_execute takes a page for a copy, and parses the copy into the
\* static buffer.
ExecCopy(p) ==
  /\ pc[p] = "copy"
  /\ IF Live = Page
       THEN Goto(p, "created") /\ Returns(p, -1) /\ UNCHANGED array
       ELSE Goto(p, "create") /\ array' = call[p].cmd /\ UNCHANGED call
  /\ UNCHANGED <<thread, nextTid, past>>

\* thread_create
ThreadCreate(p, q) ==
  /\ pc[p] = "create"
  /\ q \notin Live
  /\ thread' = [thread EXCEPT ![q] = Fresh(nextTid, p)]
  /\ pc' = [pc EXCEPT ![p] = "created", ![q] = "load"]
  /\ call' = [call EXCEPT ![p].eax = nextTid]
  /\ nextTid' = nextTid + 1
  /\ past' = [past EXCEPT !.maker[nextTid] = thread[p].tid]
  /\ UNCHANGED array

ThreadCreateFails(p) ==
  /\ pc[p] = "create"
  /\ Live = Page
  /\ Goto(p, "created")
  /\ Returns(p, -1)
  /\ UNCHANGED <<thread, array, nextTid, past>>

\* The new thread opens the program its argv points at: the static buffer.
LoadOpen(q) ==
  /\ pc[q] = "load"
  /\ call' = [call EXCEPT ![q].cmd = array]
  /\ Goto(q, "loading")
  /\ UNCHANGED <<thread, array, nextTid, past>>

\* Broken: a failed load leaves child_valid as it was.
LoadKeepsValid(q) ==
  /\ pc[q] = "loading"
  /\ \E ok \in BOOLEAN :
       LET p == thread[q].parent IN
       /\ ok => call[q].cmd \in Exists
       /\ thread' = [thread EXCEPT ![p].valid = @ \/ ok, ![p].onLoad = @ + 1]
       /\ Goto(q, IF ok THEN "user" ELSE "die")
       /\ past' = IF ok THEN [past EXCEPT !.loaded = @ \cup {thread[q].tid}]
                       ELSE [past EXCEPT !.failed = @ \cup {thread[q].tid}]
  /\ Returns(q, 0)
  /\ UNCHANGED <<array, nextTid>>

\* The end of load, which fails when the file is missing, is no program or
\* memory is short.  The parent is in exec, or is main.
LoadEnd(q) ==
  /\ pc[q] = "loading"
  /\ \E ok \in BOOLEAN :
       LET p == thread[q].parent IN
       /\ ok => call[q].cmd \in Exists
       /\ thread' = IF IsThread(p)
                      THEN [thread EXCEPT ![p].valid = ok, ![p].onLoad = @ + 1]
                      ELSE thread
       /\ Goto(q, IF ok THEN "user" ELSE "die")
       /\ past' = IF ok THEN [past EXCEPT !.loaded = @ \cup {thread[q].tid}]
                       ELSE [past EXCEPT !.failed = @ \cup {thread[q].tid}]
  /\ Returns(q, 0)
  /\ UNCHANGED <<array, nextTid>>

\* SYS_EXEC after process_execute: it sleeps until a load has ended.
ExecReturn(p) ==
  /\ pc[p] = "created" /\ p # Main
  /\ thread[p].onLoad > 0
  /\ thread' = [thread EXCEPT ![p].onLoad = @ - 1]
  /\ Returns(p, IF thread[p].valid THEN call[p].eax ELSE -1)
  /\ Goto(p, "user")
  /\ UNCHANGED <<array, nextTid, past>>

-----------------------------------------------------------------------------
(* wait *)

\* find_child: a thread with that identifier whose parent pointer is p.
Child(p, t) == {q \in Live : thread[q].tid = t /\ thread[q].parent = p}

\* main waits for what process_execute returned.
WaitCall(p, t) ==
  /\ \/ pc[p] = "user"
     \/ pc[p] = "created" /\ p = Main
  /\ \A q \in Child(p, t) : thread[q].canDie < MaxWaits
  /\ IF Child(p, t) = {}
       THEN Returns(p, -1) /\ Goto(p, IF p = Main THEN "halt" ELSE "user")
       ELSE \E q \in Child(p, t) :
              /\ call' = [call EXCEPT ![p].want = t, ![p].target = q]
              /\ Goto(p, "check")
  /\ UNCHANGED <<thread, array, nextTid, past>>

WaitCheck(p) ==
  /\ pc[p] = "check"
  /\ ~thread[call[p].target].dead
  /\ Goto(p, "sleep")
  /\ UNCHANGED <<thread, call, array, nextTid, past>>

WaitWoken(p) ==
  /\ pc[p] = "sleep"
  /\ thread[p].onChild > 0
  /\ thread' = [thread EXCEPT ![p].onChild = @ - 1]
  /\ Goto(p, "check")
  /\ UNCHANGED <<call, array, nextTid, past>>

\* The status is read and the child let go; if the child is gone already,
\* the up faults.
WaitReap(p) ==
  LET q == call[p].target IN
  /\ pc[p] = "check"
  /\ thread[q].dead
  /\ IF IsThread(q)
       THEN /\ Returns(p, thread[q].status)
            /\ thread' = [thread EXCEPT ![q].canDie = @ + 1]
            /\ Goto(p, IF p = Main THEN "halt" ELSE "user")
            /\ past' = [past EXCEPT !.reaped = @ \cup {thread[q].tid}]
       ELSE Goto(p, "fault") /\ UNCHANGED <<thread, call, past>>
  /\ UNCHANGED <<array, nextTid>>

-----------------------------------------------------------------------------
(* exit *)

\* Broken: any status is stored.
ExitUnclamped(p, v) ==
  /\ pc[p] = "user" \/ (pc[p] = "fault" /\ v = -1)
  /\ IF IsThread(thread[p].parent)
       THEN thread' = [thread EXCEPT ![p].status = v, ![p].dead = TRUE] /\ Goto(p, "notify")
       ELSE Goto(p, "close") /\ UNCHANGED thread
  /\ UNCHANGED <<call, array, nextTid, past>>

\* sys_exit up to is_dead; the status it stores is never below -1.
ExitCall(p, v) ==
  /\ pc[p] = "user" \/ (pc[p] = "fault" /\ v = -1)
  /\ IF IsThread(thread[p].parent)
       THEN /\ thread' = [thread EXCEPT ![p].status = IF v < -1 THEN -1 ELSE v,
                                        ![p].dead = TRUE]
            /\ Goto(p, "notify")
       ELSE Goto(p, "close") /\ UNCHANGED thread
  /\ UNCHANGED <<call, array, nextTid, past>>

\* Broken: the parent is not woken.
ExitSilently(p) ==
  /\ pc[p] = "notify"
  /\ Goto(p, "zombie")
  /\ UNCHANGED <<thread, call, array, nextTid, past>>

\* The parent may be gone by now: then the up faults, and the handler goes
\* on with the exit.
ExitNotify(p) ==
  /\ pc[p] = "notify"
  /\ IF IsThread(thread[p].parent)
       THEN Goto(p, "zombie") /\ thread' = [thread EXCEPT ![thread[p].parent].onChild = @ + 1]
       ELSE Goto(p, "close") /\ UNCHANGED thread
  /\ UNCHANGED <<call, array, nextTid, past>>

\* Broken: the child does not wait to be reaped.
ExitAtOnce(p) ==
  /\ pc[p] = "zombie"
  /\ Goto(p, "close")
  /\ UNCHANGED <<thread, call, array, nextTid, past>>

ExitReaped(p) ==
  /\ pc[p] = "zombie"
  /\ thread[p].canDie > 0
  /\ thread' = [thread EXCEPT ![p].canDie = @ - 1]
  /\ Goto(p, "close")
  /\ UNCHANGED <<call, array, nextTid, past>>

\* Broken: children are not let go.
ExitKeepsChildren(p) ==
  /\ pc[p] = "close"
  /\ Goto(p, "die")
  /\ UNCHANGED <<thread, call, array, nextTid, past>>

\* The open files are closed and the children let go.
ExitRelease(p) ==
  /\ pc[p] = "close"
  /\ thread' = [q \in Page |->
       IF q \in Live /\ thread[q].parent = p THEN [thread[q] EXCEPT !.canDie = @ + 1]
                                             ELSE thread[q]]
  /\ Goto(p, "die")
  /\ UNCHANGED <<call, array, nextTid, past>>

\* An exception in user code: kill() goes to thread_exit at once.
Kill(p) ==
  /\ pc[p] = "user"
  /\ Goto(p, "die")
  /\ past' = [past EXCEPT !.killed = @ \cup {thread[p].tid}]
  /\ UNCHANGED <<thread, call, array, nextTid>>

\* thread_exit, with the release of the page by the next thread; the page of
\* the initial thread stays as it is.
ThreadExit(p) ==
  /\ pc[p] = "die"
  /\ thread' = IF p = Main THEN thread ELSE [thread EXCEPT ![p] = Freed]
  /\ Goto(p, IF p = Main THEN "ended" ELSE "free")
  /\ Returns(p, 0)
  /\ UNCHANGED <<array, nextTid, past>>

-----------------------------------------------------------------------------

\* The steps a thread in the kernel goes on with by itself.
Continue(p) ==
  \/ ExecOpen(p) \/ ExecCopy(p) \/ ThreadCreateFails(p) \/ LoadOpen(p) \/ LoadEnd(p)
  \/ ExecReturn(p) \/ WaitCheck(p) \/ WaitWoken(p) \/ WaitReap(p)
  \/ ExitNotify(p) \/ ExitReaped(p) \/ ExitRelease(p) \/ ThreadExit(p)
  \/ \E q \in Page : ThreadCreate(p, q)
  \/ pc[p] = "created" /\ WaitCall(p, call[p].eax)
  \/ pc[p] = "fault" /\ ExitCall(p, -1)

\* What a program may call.  A program exits with its own identifier here, so
\* that a status tells whose it is.
Invoke(p) ==
  \/ \E c \in Program : ExecCall(p, c)
  \/ \E t \in 1..MaxTid : pc[p] = "user" /\ WaitCall(p, t)
  \/ \E v \in {thread[p].tid, -2} : pc[p] = "user" /\ ExitCall(p, v)
  \/ Kill(p)

\* When main has waited for its task it powers the machine off.
Off == pc[Main] = "halt"

Next ==
  /\ ~Off
  /\ \/ \E c \in Exists : RunTask(c)
     \/ \E p \in Page : Continue(p) \/ Invoke(p)

Spec == Init /\ [][Next]_vars

\* The round robin scheduler runs every thread that can go on.
FairSpec == Spec /\ \A p \in Page : WF_vars(~Off /\ Continue(p))

-----------------------------------------------------------------------------
(* Properties. *)

Labels == {"free", "task", "user", "open", "copy", "create", "created", "load", "loading",
           "check", "sleep", "fault", "notify", "zombie", "close", "die", "halt", "ended"}
Statuses == -1..MaxTid

\* The type of every variable.
TypeOK ==
  /\ thread \in [Page -> [tid : 0..MaxTid, parent : Page \cup {Null}, dead : BOOLEAN,
                          status : Statuses, canDie : Nat, onChild : Nat, onLoad : Nat,
                          valid : BOOLEAN]]
  /\ pc \in [Page -> Labels]
  /\ call \in [Page -> [cmd : Program \cup {Null}, want : 0..MaxTid,
                        target : Page \cup {Null}, eax : Statuses]]
  /\ array \in Program
  /\ nextTid \in 2..(MaxTid + 1)
  /\ past \in [maker : [1..MaxTid -> 0..MaxTid], loaded : SUBSET (1..MaxTid),
               failed : SUBSET (1..MaxTid), killed : SUBSET (1..MaxTid), reaped : SUBSET (1..MaxTid)]

InWait(p) == pc[p] \in {"check", "sleep"}

\* p waits for a process it created and that nobody has let go by a wait.  It
\* was loaded and no exception killed it: those that fail to load or are killed
\* go without a word.  Whoever waits for one of these may find another thread
\* in its page, and let that one go.
WaitsForOwn(p) ==
  /\ InWait(p)
  /\ past.maker[call[p].want] = thread[p].tid
  /\ call[p].want \notin past.killed \cup past.failed \cup past.reaped

\* The struct thread a waiter reads is still that of the child it asked for:
\* a child that exits stays until its parent has its status, although its
\* page is reused as soon as it goes (sys_exit, process_wait).
WaitReadsChild ==
  \A p \in Page : WaitsForOwn(p) => thread[call[p].target].tid = call[p].want

\* No exit is missed: a waiter sleeps with nothing pending only while its
\* child lives or is about to wake it, whichever other children of it exited
\* before (is_dead and wait_on_child_sema).
NoLostExit ==
  \A p \in Page :
    /\ pc[p] = "sleep" /\ WaitsForOwn(p)
    /\ thread[p].onChild = 0
    /\ thread[call[p].target].dead
    => pc[call[p].target] = "notify"

\* exec tells the truth: the identifier of a child of the caller that was
\* loaded, or -1 (child_valid and wait_on_child_load_sema).
ExecTruthful ==
  [][\A p \in Page :
       pc[p] = "created" /\ pc'[p] = "user" =>
         IF call'[p].eax = -1
           THEN call[p].eax = -1 \/ call[p].eax \notin past.loaded
           ELSE /\ call'[p].eax \in past.loaded
                /\ past.maker[call'[p].eax] = thread[p].tid]_vars

\* The status wait returns for a child is the one that child passed to exit.
StatusDelivered ==
  [][\A p \in Page :
       WaitsForOwn(p) /\ pc'[p] \in {"user", "halt"} => call'[p].eax \in {-1, call[p].want}]_vars

Gone(t) == \A p \in Page : thread[p].tid = t => pc[p] = "ended"
InExit(p, t) == thread[p].tid = t /\ pc[p] \in {"notify", "zombie"}

\* A process in exit goes, once its parent has waited for it or exited: its
\* thread is not kept for ever (child_can_die_sema).
ZombiesEnd ==
  \A p \in Page, t \in 2..MaxTid :
    InExit(p, t) /\ (\/ t \in past.reaped
                     \/ Gone(past.maker[t]) /\ past.maker[t] \notin past.killed)
    ~> Gone(t) \/ Off

\* A wait for a child that exits returns, unless somebody lets the child go who
\* waits for another thread of its page.
WaitsEnd ==
  \A p \in Page, t \in 2..MaxTid :
    (InWait(p) /\ call[p].want = t /\ WaitsForOwn(p) /\ thread[call[p].target].dead)
    ~> (~(WaitsForOwn(p) /\ call[p].want = t) \/ Off)

-----------------------------------------------------------------------------
(* What the documentation says and the code does not do. *)

\* process_wait waits for the thread it was given (process.c): false with five
\* threads, when one is killed between find_child and the loop, its page goes
\* to the child of another process, and that child exits.
WaitReadsAsked ==
  \A p \in Page :
    pc[p] = "check" /\ IsThread(call[p].target) => thread[call[p].target].tid = call[p].want

\* A wait for a child that was killed returns (process.c, process_wait).
KilledReturn ==
  \A p \in Page, t \in 2..MaxTid :
    (InWait(p) /\ call[p].want = t /\ t \in past.killed)
    ~> (~(InWait(p) /\ call[p].want = t) \/ Off)

\* A new process runs the command its parent gave (process.c,
\* process_execute).
OwnCommand ==
  \A q \in Page :
    pc[q] = "loading" => call[q].cmd = call[thread[q].parent].cmd
=============================================================================
