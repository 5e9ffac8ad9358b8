------------------------------- MODULE Shell -------------------------------
(***************************************************************************)
(* The job control of the shell in cs439/proj0: eval, do_bgfg, waitfg and  *)
(* the handlers of msh.c, with the job list of jobs.c.                     *)
(*                                                                         *)
(* A signal that comes while one of its kind is pending is lost.  A        *)
(* handler runs between any two steps of main or of another handler; a     *)
(* signal waits while its own handler runs, and SIGCHLD also while eval    *)
(* blocks it (Signal in util.c: empty mask, SA_RESTART).  A child ends or  *)
(* stops whenever it likes; what SIGINT and SIGTSTP make it do is one of   *)
(* the things it may do by itself.  Process identifiers are not reused.    *)
(***************************************************************************)
EXTENDS Integers, Sequences, FiniteSets, FiniteSetsExt

CONSTANTS
  Pid,          \* identifiers the kernel gives to children, each once
  NoPid,        \* 0 as a process identifier
  MAXJOBS,      \* the length of the job list
  Keyboard      \* the signals the terminal sends: of SIGINT and SIGTSTP,
                \* whose handlers differ in the signal they pass on

ASSUME PidAssumption == NoPid \notin Pid
ASSUME MAXJOBSAssumption == MAXJOBS \in Nat \ {0}
ASSUME KeyboardAssumption == Keyboard \subseteq {"INT", "TSTP"}

Slot == 1..MAXJOBS

VARIABLES
  jobs,         \* the job list
  nextjid,
  child,        \* the state of each child in the kernel
  stopNews,     \* the stopped children waitpid has not reported yet
  pending,      \* the signals pending for the shell
  blocked,      \* whether eval has SIGCHLD blocked
  stack,        \* the handlers that run, the one on top first
  pc,           \* where main is
  bg,           \* the command of main is for the background
  pid,          \* pid in eval
  slot,         \* job in do_bgfg
  over,         \* how the shell ended: "no", "quit", "error", "crash"
  dropped,      \* history: children that found the job list full
  merged        \* history: a SIGCHLD came while another was pending

kernel == <<child, stopNews, pending, merged>>
main == <<blocked, pc, bg, pid, slot, dropped>>
vars == <<jobs, nextjid, stack, over, kernel, main>>

FreeJob == [pid |-> NoPid, jid |-> 0, state |-> "UNDEF"]

Init ==
  /\ jobs = [k \in Slot |-> FreeJob] /\ nextjid = 1
  /\ child = [p \in Pid |-> "none"] /\ stopNews = {}
  /\ pending = {} /\ blocked = FALSE /\ stack = <<>>
  /\ pc = "prompt" /\ bg = FALSE /\ pid = NoPid /\ slot = 0
  /\ over = "no" /\ dropped = {} /\ merged = FALSE

-----------------------------------------------------------------------------
(* The job list. *)

SlotsOf(p) == {k \in Slot : jobs[k].pid = p}
MinSlot(K) == CHOOSE k \in K : \A j \in K : k <= j

maxjid(list) == Max({list[k].jid : k \in Slot} \cup {0})

\* fgpid: the first job marked FG; a slot may be marked and free.
fgpid ==
  LET marked == {k \in Slot : jobs[k].state = "FG"}
  IN IF marked = {} THEN NoPid ELSE jobs[MinSlot(marked)].pid

\* Broken: the identifier of the job stays in the slot.
clearKeepsJid(p) ==
  jobs' = [jobs EXCEPT ![MinSlot(SlotsOf(p))].pid = NoPid] /\ UNCHANGED nextjid

deletejob(p) ==
  /\ jobs' = [jobs EXCEPT ![MinSlot(SlotsOf(p))] = FreeJob]
  /\ nextjid' = maxjid(jobs') + 1

-----------------------------------------------------------------------------
(* The kernel. *)

Raise(s) ==
  /\ pending' = pending \cup {s}
  /\ merged' = (merged \/ (s = "CHLD" /\ "CHLD" \in pending))

Alive(p) == child[p] \in {"run", "stop"}

ChildEnds(p) ==
  /\ Alive(p)
  /\ child' = [child EXCEPT ![p] = "zombie"]
  /\ stopNews' = stopNews \ {p}
  /\ Raise("CHLD")
  /\ UNCHANGED <<jobs, nextjid, stack, over, main>>

ChildStops(p) ==
  /\ child[p] = "run"
  /\ child' = [child EXCEPT ![p] = "stop"]
  /\ stopNews' = stopNews \cup {p}
  /\ Raise("CHLD")
  /\ UNCHANGED <<jobs, nextjid, stack, over, main>>

Key(s) ==
  /\ Raise(s)
  /\ UNCHANGED <<jobs, nextjid, stack, over, main, child, stopNews>>

\* kill with SIGCONT; a stopped child that goes on is a SIGCHLD too.
Continued(p) ==
  IF p # NoPid /\ child[p] = "stop"
    THEN /\ child' = [child EXCEPT ![p] = "run"]
         /\ stopNews' = stopNews \ {p}
         /\ Raise("CHLD")
    ELSE UNCHANGED kernel

-----------------------------------------------------------------------------
(* The handlers. *)

Handled == {stack[i].sig : i \in 1..Len(stack)}
Top == Head(stack)
OnTop(s, l) == stack # <<>> /\ Top.sig = s /\ Top.at = l
Replace(l, p) == stack' = <<[Top EXCEPT !.at = l, !.pid = p]>> \o Tail(stack)
Return == stack' = Tail(stack)

Deliver(s) ==
  /\ s \in pending \ Handled
  /\ s = "CHLD" => ~blocked
  /\ stack' = <<[sig |-> s, at |-> "start", pid |-> NoPid]>> \o stack
  /\ pending' = pending \ {s}
  /\ UNCHANGED <<jobs, nextjid, over, main, child, stopNews, merged>>

\* Broken: stopped children are not asked for (no WUNTRACED).
TakeEnded ==
  /\ OnTop("CHLD", "start")
  /\ \E p \in Pid : child[p] # "none"
  /\ \/ \E p \in Pid :
          /\ child[p] = "zombie"
          /\ child' = [child EXCEPT ![p] = "gone"]
          /\ Replace("ended", p)
     \/ (\A p \in Pid : child[p] # "zombie") /\ Return /\ UNCHANGED child
  /\ UNCHANGED <<jobs, nextjid, over, main, stopNews, pending, merged>>

\* waitpid, with WUNTRACED and WNOHANG; without children it fails and the
\* shell ends.
WaitPid ==
  /\ OnTop("CHLD", "start")
  /\ \/ /\ \A p \in Pid : child[p] \in {"none", "gone"}
        /\ over' = "error"
        /\ UNCHANGED <<stack, child, stopNews>>
     \/ /\ \E p \in Pid : Alive(p)
        /\ stopNews = {} /\ \A p \in Pid : child[p] # "zombie"
        /\ Return
        /\ UNCHANGED <<over, child, stopNews>>
     \/ \E p \in Pid :
          /\ child[p] = "zombie"
          /\ child' = [child EXCEPT ![p] = "gone"]
          /\ Replace("ended", p)
          /\ UNCHANGED <<over, stopNews>>
     \/ \E p \in stopNews :
          /\ stopNews' = stopNews \ {p}
          /\ Replace("stopped", p)
          /\ UNCHANGED <<over, child>>
  /\ UNCHANGED <<jobs, nextjid, main, pending, merged>>

\* The rest of sigchld_handler; the job may be NULL.
JobEnded ==
  /\ OnTop("CHLD", "ended")
  /\ IF SlotsOf(Top.pid) = {}
       THEN over' = "crash" /\ UNCHANGED <<jobs, nextjid, stack>>
       ELSE deletejob(Top.pid) /\ Return /\ UNCHANGED over
  /\ UNCHANGED <<kernel, main>>

JobStopped ==
  /\ OnTop("CHLD", "stopped")
  /\ IF SlotsOf(Top.pid) = {}
       THEN over' = "crash" /\ UNCHANGED <<jobs, stack>>
       ELSE /\ jobs' = [jobs EXCEPT ![MinSlot(SlotsOf(Top.pid))].state = "ST"]
            /\ Return
            /\ UNCHANGED over
  /\ UNCHANGED <<nextjid, kernel, main>>

\* Broken: the key goes to any job.
FindAny(s) ==
  /\ OnTop(s, "start")
  /\ \/ \E k \in Slot : jobs[k].pid # NoPid /\ Replace("kill", jobs[k].pid)
     \/ Return
  /\ UNCHANGED <<jobs, nextjid, over, kernel, main>>

\* sigint_handler and sigtstp_handler.
FindForeground(s) ==
  /\ OnTop(s, "start")
  /\ IF fgpid = NoPid THEN Return ELSE Replace("kill", fgpid)
  /\ UNCHANGED <<jobs, nextjid, over, kernel, main>>

KillForeground(s) ==
  /\ OnTop(s, "kill")
  /\ Return
  /\ UNCHANGED <<jobs, nextjid, over, kernel, main>>

-----------------------------------------------------------------------------
(* eval. *)

\* Main goes on when no handler runs.
At(l) == stack = <<>> /\ pc = l

\* Broken: SIGCHLD is not blocked.
StartUnblocked(b) ==
  /\ At("prompt")
  /\ bg' = b /\ pc' = "fork"
  /\ UNCHANGED <<jobs, nextjid, stack, over, kernel, blocked, pid, slot, dropped>>

\* A command that is not built in; SIGCHLD is blocked before the fork.
Start(b) ==
  /\ At("prompt")
  /\ bg' = b /\ blocked' = TRUE /\ pc' = "fork"
  /\ UNCHANGED <<jobs, nextjid, stack, over, kernel, pid, slot, dropped>>

Fork(p) ==
  /\ At("fork")
  /\ child[p] = "none"
  /\ child' = [child EXCEPT ![p] = "run"]
  /\ pid' = p /\ pc' = "add"
  /\ UNCHANGED <<jobs, nextjid, stack, over, stopNews, pending, merged, blocked, bg, slot, dropped>>

ForkFails ==
  /\ At("fork")
  /\ over' = "error"
  /\ UNCHANGED <<jobs, nextjid, stack, kernel, main>>

\* Broken: addjob takes the last slot when none is free.
AddJobOver ==
  /\ At("add")
  /\ LET k == IF SlotsOf(NoPid) = {} THEN MAXJOBS ELSE MinSlot(SlotsOf(NoPid))
     IN jobs' = [jobs EXCEPT ![k] = [pid |-> pid, jid |-> nextjid,
                                     state |-> IF bg THEN "BG" ELSE "FG"]]
  /\ nextjid' = IF nextjid + 1 > MAXJOBS THEN 1 ELSE nextjid + 1
  /\ pc' = "unblock"
  /\ UNCHANGED <<stack, over, kernel, blocked, bg, pid, slot, dropped>>

AddJob ==
  /\ At("add")
  /\ IF SlotsOf(NoPid) = {}
       THEN dropped' = dropped \cup {pid} /\ UNCHANGED <<jobs, nextjid>>
       ELSE /\ jobs' = [jobs EXCEPT ![MinSlot(SlotsOf(NoPid))] =
                          [pid |-> pid, jid |-> nextjid, state |-> IF bg THEN "BG" ELSE "FG"]]
            /\ nextjid' = IF nextjid + 1 > MAXJOBS THEN 1 ELSE nextjid + 1
            /\ UNCHANGED dropped
  /\ pc' = "unblock"
  /\ UNCHANGED <<stack, over, kernel, blocked, bg, pid, slot>>

Unblock ==
  /\ At("unblock")
  /\ blocked' = FALSE
  /\ pc' = IF bg THEN "print" ELSE "waitfg"
  /\ UNCHANGED <<jobs, nextjid, stack, over, kernel, bg, pid, slot, dropped>>

\* The job of a background command is looked up again; it may be gone.
PrintJob ==
  /\ At("print")
  /\ IF SlotsOf(pid) = {} THEN over' = "crash" ELSE UNCHANGED over
  /\ pc' = "prompt" /\ pid' = NoPid /\ bg' = FALSE
  /\ UNCHANGED <<jobs, nextjid, stack, kernel, blocked, slot, dropped>>

\* waitfg sleeps, whatever its argument, while there is a foreground job.
WaitFg ==
  /\ At("waitfg")
  /\ fgpid = NoPid
  /\ pc' = "prompt" /\ pid' = NoPid
  /\ UNCHANGED <<jobs, nextjid, stack, over, kernel, blocked, bg, slot, dropped>>

-----------------------------------------------------------------------------
(* The commands built in. *)

Quit ==
  /\ At("prompt")
  /\ over' = "quit"
  /\ UNCHANGED <<jobs, nextjid, stack, kernel, main>>

\* do_bgfg with the identifier of a job on the list.
FindJob(b, k) ==
  /\ At("prompt")
  /\ jobs[k].pid # NoPid
  /\ bg' = b /\ slot' = k /\ pc' = "set"
  /\ UNCHANGED <<jobs, nextjid, stack, over, kernel, blocked, pid, dropped>>

SetState ==
  /\ At("set")
  /\ jobs' = [jobs EXCEPT ![slot].state = IF bg THEN "BG" ELSE "FG"]
  /\ pc' = "cont"
  /\ UNCHANGED <<nextjid, stack, over, kernel, blocked, bg, pid, slot, dropped>>

ContinueJob ==
  /\ At("cont")
  /\ Continued(jobs[slot].pid)
  /\ pc' = IF bg THEN "prompt" ELSE "waitfg"
  /\ bg' = FALSE /\ slot' = 0
  /\ UNCHANGED <<jobs, nextjid, stack, over, blocked, pid, dropped>>

-----------------------------------------------------------------------------

\* What the shell does without anybody asking.
Proceed ==
  \/ \E s \in {"CHLD"} \cup Keyboard : Deliver(s)
  \/ WaitPid \/ JobEnded \/ JobStopped
  \/ \E s \in Keyboard : FindForeground(s) \/ KillForeground(s)
  \/ (\E p \in Pid : Fork(p)) \/ ForkFails \/ AddJob \/ Unblock \/ PrintJob \/ WaitFg
  \/ SetState \/ ContinueJob

\* What the user and the children do.
Environment ==
  \/ \E b \in BOOLEAN : Start(b) \/ \E k \in Slot : FindJob(b, k)
  \/ Quit
  \/ \E s \in Keyboard : Key(s)
  \/ \E p \in Pid : ChildEnds(p) \/ ChildStops(p)

Next == over = "no" /\ (Proceed \/ Environment)

Spec == Init /\ [][Next]_vars

-----------------------------------------------------------------------------
(* Properties. *)

\* The type of every variable; a free slot is cleared but for its state.
TypeOK ==
  /\ jobs \in [Slot -> [pid : Pid \cup {NoPid}, jid : Nat, state : {"UNDEF", "FG", "BG", "ST"}]]
  /\ \A k \in Slot : jobs[k].pid = NoPid <=> jobs[k].jid = 0
  /\ nextjid \in Nat \ {0}
  /\ child \in [Pid -> {"none", "run", "stop", "zombie", "gone"}]
  /\ stopNews \subseteq {p \in Pid : child[p] = "stop"}
  /\ pending \subseteq {"CHLD"} \cup Keyboard
  /\ stack \in Seq([sig : {"CHLD"} \cup Keyboard, at : {"start", "ended", "stopped", "kill"},
                    pid : Pid \cup {NoPid}])
  /\ pc \in {"prompt", "fork", "add", "unblock", "print", "waitfg", "set", "cont"}
  /\ blocked \in BOOLEAN /\ bg \in BOOLEAN /\ merged \in BOOLEAN
  /\ pid \in Pid \cup {NoPid} /\ slot \in Slot \cup {0}
  /\ over \in {"no", "quit", "error", "crash"}
  /\ dropped \subseteq Pid

\* A frame of the handler of s at l.
Frames(s, l) == {i \in 1..Len(stack) : stack[i].sig = s /\ stack[i].at = l}

\* The handler finds a job for every child the kernel reports, but for those
\* addjob had no room for: this is why eval blocks SIGCHLD (msh.c, eval).
HandlerFindsJob ==
  \A i \in Frames("CHLD", "ended") \cup Frames("CHLD", "stopped") :
    SlotsOf(stack[i].pid) # {} \/ stack[i].pid \in dropped

\* Every child that is not reaped has one entry in the job list, unless eval
\* is about to add it or had no room, and every entry is of such a child or
\* of the one the handler is about to delete.
ListMatchesChildren ==
  \A p \in Pid :
    LET reaping == \E i \in Frames("CHLD", "ended") : stack[i].pid = p IN
    /\ Cardinality(SlotsOf(p)) <= 1
    /\ Alive(p) \/ child[p] = "zombie" =>
         SlotsOf(p) # {} \/ p \in dropped \/ (pc = "add" /\ pid = p)
    /\ SlotsOf(p) # {} => Alive(p) \/ child[p] = "zombie" \/ reaping

\* A key of the terminal never goes to a job in the background, although the
\* job list may change between fgpid and kill (msh.c, eval and sigint_handler).
BackgroundSpared ==
  \A s \in Keyboard : \A i \in Frames(s, "kill") :
    \A k \in SlotsOf(stack[i].pid) : jobs[k].state # "BG"

\* The children waitpid has something to report of.
Unreported == stopNews \cup {p \in Pid : child[p] = "zombie"}

\* As long as no two SIGCHLD fall together, each report has a signal or a
\* handler of its own to come (msh.c, sigchld_handler).
NoReportLost ==
  ~merged =>
    Cardinality(Unreported) <=
      Cardinality(pending \cap {"CHLD"}) + Cardinality(Frames("CHLD", "start"))

-----------------------------------------------------------------------------
(* What the documentation says and the code does not do. *)

\* At most one job is in the FG state (jobs.h).
OneForeground ==
  Cardinality({k \in Slot : jobs[k].pid # NoPid /\ jobs[k].state = "FG"}) <= 1
=============================================================================
