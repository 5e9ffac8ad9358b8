---------------------------- MODULE ShellProofs ----------------------------
(***************************************************************************)
(* Proofs about Shell, for any children, signals of the terminal and       *)
(* length of the job list: the list matches the children, the handler of   *)
(* SIGCHLD finds what it looks for, keys spare the background, and no      *)
(* report is lost unless two SIGCHLD fall together.                        *)
(*                                                                         *)
(* The handlers are seen as a set (Running): each signal has one at most.  *)
(* The invariant says which children the handlers are at (FramesOK), what  *)
(* main relies on while SIGCHLD is blocked (MainOK), and how the list and  *)
(* the children correspond (JobsOK).                                       *)
(***************************************************************************)
EXTENDS Shell, FiniteSetTheorems, SequenceTheorems, WellFoundedInduction, TLAPS

Handler == [sig : {"CHLD"} \cup Keyboard, at : {"start", "ended", "stopped", "kill"},
            pid : Pid \cup {NoPid}]
Running == {stack[i] : i \in 1..Len(stack)}
OneFrame == \A i, j \in 1..Len(stack) : stack[i].sig = stack[j].sig => i = j

Is(r, s, l) == r.sig = s /\ r.at = l
Present(p) == child[p] \in {"run", "stop", "zombie"}
Listed(p) == \E k \in Slot : jobs[k].pid = p

FramesOK ==
  \A r \in Running :
    /\ Is(r, "CHLD", "ended") =>
         r.pid \in Pid /\ child[r.pid] = "gone" /\ (Listed(r.pid) \/ r.pid \in dropped)
    /\ Is(r, "CHLD", "stopped") => r.pid \in Pid /\ Present(r.pid)
    /\ r.sig \in Keyboard /\ r.at = "kill" =>
         r.pid \in Pid /\ \A k \in Slot : jobs[k].pid = r.pid => jobs[k].state # "BG"

MainOK ==
  /\ pc \in {"fork", "add", "unblock"} => blocked /\ \A r \in Running : r.sig # "CHLD"
  /\ pc = "add" => pid \in Pid /\ Present(pid) /\ ~Listed(pid)
  /\ pc \in {"set", "cont"} => slot \in Slot

JobsOK ==
  /\ \A j, k \in Slot : jobs[j].pid = jobs[k].pid /\ jobs[k].pid # NoPid => j = k
  /\ \A p \in Pid : Present(p) => Listed(p) \/ p \in dropped \/ (pc = "add" /\ pid = p)
  /\ \A p \in Pid : Listed(p) => Present(p) \/ \E r \in Running : Is(r, "CHLD", "ended") /\ r.pid = p

\* NoReportLost without the cardinalities of pending and stack.
Expected ==
  (IF "CHLD" \in pending THEN 1 ELSE 0) + (IF \E r \in Running : Is(r, "CHLD", "start") THEN 1 ELSE 0)
ReportsOK == IsFiniteSet(Unreported) /\ (~merged => Cardinality(Unreported) <= Expected)

Inv == TypeOK /\ OneFrame /\ FramesOK /\ MainOK /\ JobsOK

-----------------------------------------------------------------------------
(* The handlers *)

LEMMA Signals == "CHLD" \notin Keyboard
BY KeyboardAssumption

LEMMA RunningIs ==
  TypeOK /\ OneFrame =>
    /\ Running \subseteq Handler
    /\ Handled = {r.sig : r \in Running}
    /\ \A q, r \in Running : q.sig = r.sig => q = r
    /\ stack = <<>> <=> Running = {}
<1> SUFFICES ASSUME TypeOK, OneFrame
             PROVE  /\ Running \subseteq Handler
                    /\ Handled = {r.sig : r \in Running}
                    /\ \A q, r \in Running : q.sig = r.sig => q = r
                    /\ stack = <<>> <=> Running = {}
  OBVIOUS
<1>1. stack \in Seq(Handler) /\ Len(stack) \in Nat
  BY DEF TypeOK, Handler
<1>2. \A i \in 1..Len(stack) : stack[i] \in Handler
  BY <1>1
<1>3. stack = <<>> <=> Len(stack) = 0
  BY <1>1, EmptySeq
<1>4. Running = {} <=> Len(stack) = 0
  BY <1>1 DEF Running
<1>5. Handled = {r.sig : r \in Running}
  BY DEF Handled, Running
<1>6. ASSUME NEW q \in Running, NEW r \in Running, q.sig = r.sig
      PROVE  q = r
  <2>1. PICK i \in 1..Len(stack) : q = stack[i]
    BY DEF Running
  <2>2. PICK j \in 1..Len(stack) : r = stack[j]
    BY DEF Running
  <2> QED  BY <1>6, <2>1, <2>2 DEF OneFrame
<1>7. Running \subseteq Handler
  BY <1>2 DEF Running
<1> QED  BY <1>3, <1>4, <1>5, <1>6, <1>7

LEMMA Pushed ==
  ASSUME NEW S, NEW s \in Seq(S), NEW r \in S
  PROVE  LET t == <<r>> \o s IN
         /\ t \in Seq(S) /\ Len(t) = Len(s) + 1 /\ t[1] = r
         /\ \A i \in 1..Len(s) : t[i + 1] = s[i]
         /\ \A i \in 1..Len(t) : i # 1 => i - 1 \in 1..Len(s) /\ t[i] = s[i - 1]
<1>1. <<r>> \in Seq(S) /\ Len(<<r>>) = 1 /\ <<r>>[1] = r
  OBVIOUS
<1>2. Len(s) \in Nat
  OBVIOUS
<1> QED  BY <1>1, <1>2, ConcatProperties

LEMMA Popped ==
  ASSUME NEW S, NEW s \in Seq(S), s # <<>>
  PROVE  /\ Tail(s) \in Seq(S) /\ Len(s) \in Nat \ {0} /\ Len(Tail(s)) = Len(s) - 1 /\ Head(s) = s[1]
         /\ \A i \in 1..Len(Tail(s)) : i + 1 \in 1..Len(s) /\ Tail(s)[i] = s[i + 1]
<1>1. Len(s) \in Nat \ {0}
  BY EmptySeq
<1> QED  BY <1>1, HeadTailProperties

LEMMA PushStep ==
  ASSUME TypeOK, OneFrame, NEW r \in Handler, r.sig \notin Handled, stack' = <<r>> \o stack
  PROVE  /\ stack' \in Seq(Handler) /\ Running' = Running \cup {r} /\ OneFrame'
<1>1. PICK s \in Seq(Handler) : s = stack
  BY DEF TypeOK, Handler
<1>2. PICK t : t = <<r>> \o s
  OBVIOUS
<1>3. /\ t \in Seq(Handler) /\ Len(t) = Len(s) + 1 /\ t[1] = r /\ Len(s) \in Nat
      /\ \A i \in 1..Len(s) : t[i + 1] = s[i]
      /\ \A i \in 1..Len(t) : i # 1 => i - 1 \in 1..Len(s) /\ t[i] = s[i - 1]
  BY <1>2, Pushed
<1>4. {t[i] : i \in 1..Len(t)} = {s[i] : i \in 1..Len(s)} \cup {r}
  <2>1. \A i \in 1..Len(s) : i + 1 \in 1..Len(t)
    BY <1>3
  <2>2. 1 \in 1..Len(t)
    BY <1>3
  <2>3. \A i \in 1..Len(s) : \E j \in 1..Len(t) : t[j] = s[i]
    BY <1>3, <2>1
  <2>4. \A i \in 1..Len(t) : t[i] = r \/ \E j \in 1..Len(s) : t[i] = s[j]
    BY <1>3
  <2> QED  BY <1>3, <2>2, <2>3, <2>4
<1>5. ASSUME NEW i \in 1..Len(t), NEW j \in 1..Len(t), t[i].sig = t[j].sig
      PROVE  i = j
  <2>1. \A k \in 1..Len(s) : s[k].sig # r.sig
    BY <1>1 DEF Handled
  <2>2. CASE i = 1 \/ j = 1
    BY <1>3, <1>5, <2>1, <2>2
  <2>3. CASE i # 1 /\ j # 1
    <3>1. \A k, l \in 1..Len(s) : s[k].sig = s[l].sig => k = l
      BY <1>1 DEF OneFrame
    <3>2. i - 1 \in 1..Len(s) /\ j - 1 \in 1..Len(s) /\ s[i - 1].sig = s[j - 1].sig
      BY <1>3, <1>5, <2>3
    <3>3. i - 1 = j - 1
      BY <3>1, <3>2
    <3> QED  BY <3>3
  <2> QED  BY <2>2, <2>3
<1> QED  BY <1>1, <1>2, <1>3, <1>4, <1>5 DEF Running, OneFrame

LEMMA PopStep ==
  ASSUME TypeOK, OneFrame, stack # <<>>, stack' = Tail(stack)
  PROVE  /\ stack' \in Seq(Handler) /\ Top \in Running /\ Running' = Running \ {Top} /\ OneFrame'
<1>1. PICK s \in Seq(Handler) : s = stack
  BY DEF TypeOK, Handler
<1>2. PICK t : t = Tail(s)
  OBVIOUS
<1>3. /\ t \in Seq(Handler) /\ Len(s) \in Nat \ {0} /\ Len(t) = Len(s) - 1 /\ Top = s[1]
      /\ \A i \in 1..Len(t) : i + 1 \in 1..Len(s) /\ t[i] = s[i + 1]
  BY <1>1, <1>2, Popped DEF Top
<1>4. \A i, j \in 1..Len(s) : s[i].sig = s[j].sig => i = j
  BY <1>1 DEF OneFrame
<1>5. {t[i] : i \in 1..Len(t)} = {s[i] : i \in 1..Len(s)} \ {s[1]}
  <2>1. ASSUME NEW i \in 1..Len(s), i # 1
        PROVE  i - 1 \in 1..Len(t) /\ t[i - 1] = s[i]
    BY <1>3, <2>1
  <2>2. ASSUME NEW i \in 1..Len(t)
        PROVE  s[i + 1] # s[1]
    <3>1. i + 1 \in 1..Len(s) /\ 1 \in 1..Len(s) /\ i + 1 # 1
      BY <1>3
    <3> QED  BY <3>1, <1>4
  <2> QED  BY <1>3, <2>1, <2>2
<1>6. ASSUME NEW i \in 1..Len(t), NEW j \in 1..Len(t), t[i].sig = t[j].sig
      PROVE  i = j
  <2>1. i + 1 = j + 1
    BY <1>3, <1>4, <1>6
  <2> QED  BY <2>1
<1>7. 1 \in 1..Len(s)
  BY <1>3
<1> QED  BY <1>1, <1>2, <1>3, <1>5, <1>6, <1>7, SMTT(20) DEF Running, OneFrame

LEMMA ReplaceStep ==
  ASSUME TypeOK, OneFrame, stack # <<>>, NEW r \in Handler, r.sig = Top.sig,
         stack' = <<r>> \o Tail(stack)
  PROVE  /\ stack' \in Seq(Handler) /\ Top \in Running
         /\ Running' = (Running \ {Top}) \cup {r} /\ OneFrame'
<1>1. PICK s \in Seq(Handler) : s = stack
  BY DEF TypeOK, Handler
<1>2. PICK u : u = Tail(s)
  OBVIOUS
<1>3. PICK t : t = <<r>> \o u
  OBVIOUS
<1>4. /\ u \in Seq(Handler) /\ Len(s) \in Nat \ {0} /\ Len(u) = Len(s) - 1 /\ Top = s[1]
      /\ \A i \in 1..Len(u) : i + 1 \in 1..Len(s) /\ u[i] = s[i + 1]
  BY <1>1, <1>2, Popped DEF Top
<1>5. /\ t \in Seq(Handler) /\ Len(t) = Len(u) + 1 /\ t[1] = r
      /\ \A i \in 1..Len(t) : i # 1 => i - 1 \in 1..Len(u) /\ t[i] = u[i - 1]
  BY <1>3, <1>4, Pushed
<1>6. /\ Len(t) = Len(s) /\ 1 \in 1..Len(s)
      /\ \A i \in 1..Len(s) : i # 1 => t[i] = s[i]
  BY <1>4, <1>5
<1>7. \A i, j \in 1..Len(s) : s[i].sig = s[j].sig => i = j
  BY <1>1 DEF OneFrame
<1>8. \A i \in 1..Len(s) : t[i].sig = s[i].sig
  BY <1>4, <1>5, <1>6
<1>9. {t[i] : i \in 1..Len(t)} = ({s[i] : i \in 1..Len(s)} \ {s[1]}) \cup {r}
  <2>1. \A i \in 1..Len(s) : i # 1 => s[i] # s[1]
    BY <1>6, <1>7
  <2> QED  BY <1>5, <1>6, <2>1, SMTT(20)
<1>10. \A i, j \in 1..Len(t) : t[i].sig = t[j].sig => i = j
  BY <1>6, <1>7, <1>8
<1>11. stack' = t
  BY <1>1, <1>2, <1>3
<1> QED  BY <1>1, <1>4, <1>5, <1>6, <1>9, <1>10, <1>11 DEF Running, OneFrame

-----------------------------------------------------------------------------
(* The job list *)

Entry == [pid : Pid \cup {NoPid}, jid : Nat, state : {"UNDEF", "FG", "BG", "ST"}]

\* The least of a set of numbers, by way of the sets 0..n, and the largest of
\* a finite one, by way of what is above each.
LEMMA LeastIs ==
  ASSUME NEW S, S \subseteq Nat, S # {}
  PROVE  \E n \in S : \A m \in S : n <= m
<1> DEFINE T == {0..n : n \in S}
<1>1. T \subseteq FiniteSubsetsOf(Nat) /\ T # {}
  <2>1. \A n \in S : IsFiniteSet(0..n) /\ 0..n \subseteq Nat
    BY FS_Interval
  <2> QED  BY <2>1 DEF FiniteSubsetsOf
<1>2. PICK u \in T : \A w \in T : <<w, u>> \notin StrictSubsetOrdering(Nat)
  BY <1>1, FS_StrictSubsetOrderingWellFounded, WFMin
<1>3. PICK n \in S : u = 0..n
  OBVIOUS
<1>4. ASSUME NEW m \in S, m < n
      PROVE  FALSE
  <2>1. 0..m \in T /\ 0..m \subseteq 0..n /\ 0..m # 0..n /\ 0..m \subseteq Nat /\ 0..n \subseteq Nat
    BY <1>4
  <2> QED  BY <1>2, <1>3, <2>1 DEF StrictSubsetOrdering
<1>5. \A m \in S : n <= m
  BY <1>4
<1> QED  BY <1>5

LEMMA LargestIs ==
  ASSUME NEW S, S \subseteq Nat, S # {}, IsFiniteSet(S)
  PROVE  \E n \in S : \A m \in S : m <= n
<1> DEFINE above(n) == {m \in S : m > n}
           T == {above(n) : n \in S}
<1>1. T \subseteq FiniteSubsetsOf(S) /\ T # {}
  <2>1. \A n \in S : IsFiniteSet(above(n)) /\ above(n) \subseteq S
    BY FS_Subset
  <2> QED  BY <2>1 DEF FiniteSubsetsOf
<1>2. PICK u \in T : \A w \in T : <<w, u>> \notin StrictSubsetOrdering(S)
  BY <1>1, FS_StrictSubsetOrderingWellFounded, WFMin
<1>3. PICK n \in S : u = above(n)
  OBVIOUS
<1>4. ASSUME NEW m \in S, m > n
      PROVE  FALSE
  <2>1. above(m) \in T /\ above(m) \subseteq S /\ above(n) \subseteq S
    OBVIOUS
  <2>2. above(m) \subseteq above(n)
    <3>1. m \in Nat /\ n \in Nat
      OBVIOUS
    <3>2. \A x \in Nat : x > m => x > n
      BY <1>4, <3>1
    <3> QED  BY <3>2
  <2>3. m \in above(n) /\ m \notin above(m)
    BY <1>4
  <2>4. above(m) # above(n)
    BY <2>3
  <2> HIDE DEF above, T
  <2> QED  BY <1>2, <1>3, <2>1, <2>2, <2>4 DEF StrictSubsetOrdering
<1>5. \A m \in S : m <= n
  BY <1>4
<1> QED  BY <1>5

LEMMA MinSlotIs ==
  ASSUME NEW K, K \subseteq Slot, K # {}
  PROVE  MinSlot(K) \in K
<1>1. K \subseteq Nat
  BY MAXJOBSAssumption DEF Slot
<1>2. \E n \in K : \A m \in K : n <= m
  BY <1>1, LeastIs
<1> QED  BY <1>2 DEF MinSlot

LEMMA MaxJidIs ==
  ASSUME NEW list \in [Slot -> Entry]
  PROVE  maxjid(list) \in Nat
<1> DEFINE S == {list[k].jid : k \in Slot}
<1>1. IsFiniteSet(Slot)
  BY MAXJOBSAssumption, FS_Interval DEF Slot
<1>2. IsFiniteSet(S)
  <2> DEFINE h == [k \in Slot |-> list[k].jid]
  <2>1. h \in Surjection(Slot, S)
    BY DEF Surjection
  <2> QED  BY <1>1, <2>1, FS_Surjection
<1>3. IsFiniteSet(S \cup {0}) /\ S \cup {0} \subseteq Nat
  BY <1>2, FS_AddElement DEF Entry
<1>4. \E n \in S \cup {0} : \A m \in S \cup {0} : m <= n
  BY <1>3, LargestIs
<1>5. Max(S \cup {0}) \in S \cup {0}
  BY <1>3, <1>4 DEF Max
<1> QED  BY <1>3, <1>5 DEF maxjid

LEMMA SlotsAre ==
  /\ \A p : SlotsOf(p) \subseteq Slot
  /\ \A p : SlotsOf(p) # {} <=> Listed(p)
BY DEF SlotsOf, Listed

LEMMA Free ==
  FreeJob \in Entry /\ FreeJob.pid = NoPid /\ FreeJob.jid = 0
BY DEF FreeJob, Entry

\* deletejob frees the one entry of the job.
LEMMA Deleted ==
  ASSUME Inv, NEW p \in Pid, Listed(p), deletejob(p)
  PROVE  /\ jobs' \in [Slot -> Entry] /\ nextjid' \in Nat \ {0}
         /\ \A k \in Slot : jobs'[k].pid = NoPid <=> jobs'[k].jid = 0
         /\ ~Listed(p)'
         /\ \A k \in Slot : jobs'[k] = jobs[k] \/ jobs'[k].pid = NoPid
         /\ \A q \in Pid \ {p} : Listed(q)' <=> Listed(q)
<1>1. PICK k \in Slot : k = MinSlot(SlotsOf(p)) /\ jobs[k].pid = p
  BY SlotsAre, MinSlotIs DEF SlotsOf
<1>2. /\ jobs' = [jobs EXCEPT ![k] = FreeJob] /\ nextjid' = maxjid(jobs') + 1
      /\ jobs \in [Slot -> Entry]
  BY <1>1 DEF deletejob, Inv, TypeOK, Entry
<1>3. jobs' \in [Slot -> Entry] /\ jobs'[k] = FreeJob /\ \A j \in Slot \ {k} : jobs'[j] = jobs[j]
  BY <1>2, Free
<1>4. maxjid(jobs') \in Nat
  <2>1. PICK list \in [Slot -> Entry] : list = jobs'
    BY <1>3
  <2> QED  BY <2>1, MaxJidIs
<1>5. \A j \in Slot \ {k} : jobs[j].pid # p
  BY <1>1, PidAssumption DEF Inv, JobsOK
<1>6. ~Listed(p)' /\ \A q \in Pid \ {p} : Listed(q)' <=> Listed(q)
  BY <1>1, <1>3, <1>5, Free, PidAssumption DEF Listed
<1> QED  BY <1>2, <1>3, <1>4, <1>6, Free DEF Inv, TypeOK

-----------------------------------------------------------------------------
(* The invariant *)

LEMMA InitInv == Init => Inv
<1> SUFFICES ASSUME Init PROVE Inv
  OBVIOUS
<1>1. TypeOK
  <2>1. /\ jobs \in [Slot -> Entry]
        /\ \A k \in Slot : jobs[k].pid = NoPid <=> jobs[k].jid = 0
    BY Free DEF Init
  <2>2. stack \in Seq([sig : {"CHLD"} \cup Keyboard, at : {"start", "ended", "stopped", "kill"},
                       pid : Pid \cup {NoPid}])
    BY EmptySeq DEF Init
  <2>3. /\ nextjid \in Nat \ {0}
        /\ child \in [Pid -> {"none", "run", "stop", "zombie", "gone"}]
        /\ stopNews \subseteq {p \in Pid : child[p] = "stop"}
        /\ pending \subseteq {"CHLD"} \cup Keyboard
    BY DEF Init
  <2>4. /\ pc \in {"prompt", "fork", "add", "unblock", "print", "waitfg", "set", "cont"}
        /\ blocked \in BOOLEAN /\ bg \in BOOLEAN /\ merged \in BOOLEAN
        /\ pid \in Pid \cup {NoPid} /\ slot \in Slot \cup {0}
        /\ over \in {"no", "quit", "error", "crash"}
        /\ dropped \subseteq Pid
    BY DEF Init
  <2> QED  BY <2>1, <2>2, <2>3, <2>4 DEF TypeOK, Entry
<1>2. Len(stack) = 0
  BY EmptySeq DEF Init
<1>3. OneFrame /\ Running = {}
  BY <1>2 DEF OneFrame, Running
<1>4. \A k \in Slot : jobs[k].pid = NoPid
  BY DEF Init, FreeJob
<1>5. FramesOK /\ MainOK
  BY <1>3 DEF FramesOK, MainOK, Init
<1>6. JobsOK
  BY <1>4, PidAssumption DEF JobsOK, Init, Listed, Present
<1> QED  BY <1>1, <1>3, <1>5, <1>6 DEF Inv

\* Where only main steps there are no handlers before or after.
LEMMA Idle ==
  ASSUME Inv, stack = <<>>, UNCHANGED stack
  PROVE  Running = {} /\ Running' = {} /\ OneFrame' /\ FramesOK'
<1>1. Len(stack) = 0 /\ Len(stack') = 0
  BY EmptySeq
<1>2. Running = {} /\ Running' = {}
  BY <1>1 DEF Running
<1> QED  BY <1>1, <1>2 DEF OneFrame, FramesOK

\* The children change among what Present tells apart; the shell does not.
LEMMA ChildrenStep ==
  ASSUME Inv, UNCHANGED <<jobs, stack, blocked, pc, pid, slot, dropped>>,
         \A p \in Pid : (Present(p) <=> Present(p)') /\ (child[p] = "gone" <=> child'[p] = "gone")
  PROVE  OneFrame' /\ FramesOK' /\ MainOK' /\ JobsOK'
<1>1. Running' = Running /\ (OneFrame <=> OneFrame')
  BY DEF Running, OneFrame
<1>2. \A p \in Pid : Listed(p)' <=> Listed(p)
  BY DEF Listed
<1>3. MainOK'
  BY <1>1, <1>2 DEF Inv, MainOK
<1>4. JobsOK'
  BY <1>1, <1>2 DEF Inv, JobsOK, Is
<1>5. FramesOK'
  BY <1>1, <1>2 DEF Inv, FramesOK, Is
<1> QED  BY <1>1, <1>3, <1>4, <1>5 DEF Inv

LEMMA KernelInv ==
  ASSUME Inv, (\E s \in Keyboard : Key(s)) \/ \E p \in Pid : ChildEnds(p) \/ ChildStops(p)
  PROVE  Inv'
<1>1. UNCHANGED <<jobs, nextjid, stack, over, main>>
  BY DEF Key, ChildEnds, ChildStops
<1>2. /\ child' \in [Pid -> {"none", "run", "stop", "zombie", "gone"}]
      /\ stopNews' \subseteq {p \in Pid : child'[p] = "stop"}
      /\ pending' \subseteq {"CHLD"} \cup Keyboard /\ merged' \in BOOLEAN
      /\ \A p \in Pid : (Present(p) <=> Present(p)') /\ (child[p] = "gone" <=> child'[p] = "gone")
  <2>1. ASSUME NEW s \in Keyboard, Key(s)
        PROVE  <1>2!:
    BY <2>1 DEF Key, Raise, Inv, TypeOK, Present
  <2>2. ASSUME NEW p \in Pid, ChildEnds(p)
        PROVE  <1>2!:
    BY <2>2 DEF ChildEnds, Alive, Raise, Inv, TypeOK, Present
  <2>3. ASSUME NEW p \in Pid, ChildStops(p)
        PROVE  <1>2!:
    BY <2>3 DEF ChildStops, Raise, Inv, TypeOK, Present
  <2> QED  BY <2>1, <2>2, <2>3
<1>3. TypeOK'
  BY <1>1, <1>2 DEF Inv, TypeOK, main
<1>4. OneFrame' /\ FramesOK' /\ MainOK' /\ JobsOK'
  BY <1>1, <1>2, ChildrenStep DEF main
<1> QED  BY <1>3, <1>4 DEF Inv

LEMMA DeliverInv ==
  ASSUME Inv, NEW s \in {"CHLD"} \cup Keyboard, Deliver(s)
  PROVE  Inv'
<1> DEFINE r == [sig |-> s, at |-> "start", pid |-> NoPid]
<1>1. r \in Handler /\ r.sig \notin Handled /\ stack' = <<r>> \o stack
  BY DEF Deliver, Handler
<1>2. stack' \in Seq(Handler) /\ Running' = Running \cup {r} /\ OneFrame'
  BY <1>1, PushStep DEF Inv
<1>3. /\ UNCHANGED <<jobs, nextjid, over, main, child, stopNews, merged>>
      /\ pending' \subseteq {"CHLD"} \cup Keyboard /\ (r.sig = "CHLD" => ~blocked) /\ r.at = "start"
  BY DEF Deliver, Inv, TypeOK
<1> HIDE DEF r
<1>4. TypeOK'
  BY <1>2, <1>3 DEF Inv, TypeOK, main, Handler
<1>5. /\ \A p \in Pid : Listed(p)' <=> Listed(p)
      /\ \A p \in Pid : Present(p)' <=> Present(p)
  BY <1>3 DEF Listed, Present
<1>6. FramesOK'
  BY <1>2, <1>3, <1>5 DEF Inv, FramesOK, Is, main
<1>7. MainOK'
  BY <1>2, <1>3, <1>5 DEF Inv, MainOK, main
<1>8. JobsOK'
  BY <1>2, <1>3, <1>5 DEF Inv, JobsOK, Is, main
<1> QED  BY <1>2, <1>4, <1>6, <1>7, <1>8 DEF Inv

\* Only the way the shell ended changes.
LEMMA OverInv ==
  ASSUME Inv, UNCHANGED <<jobs, nextjid, stack, kernel, main>>,
         over' \in {"no", "quit", "error", "crash"}
  PROVE  Inv'
<1>1. TypeOK'
  BY DEF Inv, TypeOK, kernel, main
<1>2. \A p \in Pid : (Present(p) <=> Present(p)') /\ (child[p] = "gone" <=> child'[p] = "gone")
  BY DEF Present, kernel
<1>3. OneFrame' /\ FramesOK' /\ MainOK' /\ JobsOK'
  BY <1>2, ChildrenStep DEF main
<1> QED  BY <1>1, <1>3 DEF Inv

\* What holds while the handler of SIGCHLD is on top.
LEMMA ReapingFacts ==
  ASSUME Inv, NEW l, OnTop("CHLD", l)
  PROVE  /\ stack # <<>> /\ Top \in Handler /\ Top \in Running /\ Is(Top, "CHLD", l)
         /\ pc \notin {"fork", "add", "unblock"}
         /\ \A r \in Running : r.sig = "CHLD" => r = Top
<1>1. stack # <<>> /\ Is(Top, "CHLD", l)
  BY DEF OnTop, Is
<1>2. PICK s \in Seq(Handler) : s = stack
  BY DEF Inv, TypeOK, Handler
<1>3. 1 \in 1..Len(s) /\ Head(s) = s[1]
  BY <1>1, <1>2, Popped
<1>4. Top \in Running /\ Top \in Handler
  BY <1>2, <1>3 DEF Top, Running
<1>5. \A r \in Running : r.sig = "CHLD" => r = Top
  BY <1>1, <1>4, RunningIs DEF Is, Inv
<1> QED  BY <1>1, <1>4, <1>5 DEF Inv, MainOK, Is

LEMMA WaitPidInv ==
  ASSUME Inv, WaitPid
  PROVE  Inv'
<1>1. /\ stack # <<>> /\ Top \in Handler /\ Top \in Running /\ Is(Top, "CHLD", "start")
      /\ pc \notin {"fork", "add", "unblock"}
      /\ \A r \in Running : r.sig = "CHLD" => r = Top
  BY ReapingFacts DEF WaitPid
<1>2. UNCHANGED <<jobs, nextjid, main, pending, merged>>
  BY DEF WaitPid
<1>3. \A p \in Pid : Listed(p)' <=> Listed(p)
  BY <1>2 DEF Listed
<1>4. MainOK'
  BY <1>1, <1>2 DEF Inv, MainOK, main
<1>5. CASE over' = "error" /\ UNCHANGED <<stack, child, stopNews>>
  BY <1>2, <1>5, OverInv DEF kernel
<1>6. CASE Return /\ UNCHANGED <<over, child, stopNews>>
  <2>1. stack' \in Seq(Handler) /\ Running' = Running \ {Top} /\ OneFrame'
    BY <1>1, <1>6, PopStep DEF Inv, Return
  <2>2. TypeOK'
    BY <2>1, <1>2, <1>6 DEF Inv, TypeOK, main, Handler
  <2>3. FramesOK'
    BY <2>1, <1>2, <1>3, <1>6 DEF Inv, FramesOK, Is, Present, main
  <2>4. JobsOK'
    BY <2>1, <1>1, <1>2, <1>3, <1>6 DEF Inv, JobsOK, Is, Present, main
  <2> QED  BY <1>4, <2>1, <2>2, <2>3, <2>4 DEF Inv
<1>7. ASSUME NEW p \in Pid, child[p] = "zombie", child' = [child EXCEPT ![p] = "gone"],
             Replace("ended", p), UNCHANGED <<over, stopNews>>
      PROVE  Inv'
  <2> DEFINE r == [Top EXCEPT !.at = "ended", !.pid = p]
  <2>1. r \in Handler /\ Is(r, "CHLD", "ended") /\ r.pid = p /\ r.sig = Top.sig
    BY <1>1 DEF Handler, Is
  <2>2. stack' = <<r>> \o Tail(stack)
    BY <1>7 DEF Replace
  <2> HIDE DEF r
  <2>3. stack' \in Seq(Handler) /\ Running' = (Running \ {Top}) \cup {r} /\ OneFrame'
    BY <1>1, <2>1, <2>2, ReplaceStep DEF Inv
  <2>4. /\ child' \in [Pid -> {"none", "run", "stop", "zombie", "gone"}]
        /\ child'[p] = "gone" /\ \A q \in Pid \ {p} : child'[q] = child[q]
        /\ stopNews' \subseteq {q \in Pid : child'[q] = "stop"}
    BY <1>7 DEF Inv, TypeOK
  <2>5. TypeOK'
    BY <2>3, <2>4, <1>2, <1>7 DEF Inv, TypeOK, main, Handler
  <2>6. Listed(p) \/ p \in dropped
    BY <1>1, <1>7 DEF Inv, JobsOK, Present
  <2>7. \A q \in Running' : q = r \/ (q \in Running /\ q.sig # "CHLD")
    BY <1>1, <2>3
  <2>8. FramesOK'
    BY <2>1, <2>4, <2>6, <2>7, <1>2, <1>3, Signals DEF Inv, FramesOK, Is, main
  <2>9. JobsOK'
    <3>1. \A q \in Pid : Present(q)' <=> Present(q) /\ q # p
      BY <2>4 DEF Present
    <3>2. r \in Running'
      BY <2>3
    <3>3. \A q \in Pid : Listed(q) => Present(q)
      BY <1>1 DEF Inv, JobsOK, Is
    <3> QED  BY <2>1, <3>1, <3>2, <3>3, <1>2, <1>3 DEF Inv, JobsOK, Is, main
  <2> QED  BY <1>4, <2>3, <2>5, <2>8, <2>9 DEF Inv
<1>8. ASSUME NEW p \in stopNews, stopNews' = stopNews \ {p}, Replace("stopped", p),
             UNCHANGED <<over, child>>
      PROVE  Inv'
  <2> DEFINE r == [Top EXCEPT !.at = "stopped", !.pid = p]
  <2>1. p \in Pid /\ Present(p)
    BY <1>8 DEF Inv, TypeOK, Present
  <2>2. r \in Handler /\ Is(r, "CHLD", "stopped") /\ r.pid = p /\ r.sig = Top.sig
    BY <1>1, <2>1 DEF Handler, Is
  <2>3. stack' = <<r>> \o Tail(stack)
    BY <1>8 DEF Replace
  <2> HIDE DEF r
  <2>4. stack' \in Seq(Handler) /\ Running' = (Running \ {Top}) \cup {r} /\ OneFrame'
    BY <1>1, <2>2, <2>3, ReplaceStep DEF Inv
  <2>5. TypeOK'
    BY <2>4, <1>2, <1>8 DEF Inv, TypeOK, main, Handler
  <2>6. \A q \in Running' : q = r \/ (q \in Running /\ q.sig # "CHLD")
    BY <1>1, <2>4
  <2>7. FramesOK'
    BY <2>1, <2>2, <2>6, <1>2, <1>3, <1>8, Signals DEF Inv, FramesOK, Is, main, Present
  <2>8. JobsOK'
    <3>1. \A q \in Pid : Listed(q) => Present(q)
      BY <1>1 DEF Inv, JobsOK, Is
    <3> QED  BY <3>1, <1>2, <1>3, <1>8 DEF Inv, JobsOK, Present, main
  <2> QED  BY <1>4, <2>4, <2>5, <2>7, <2>8 DEF Inv
<1> QED  BY <1>5, <1>6, <1>7, <1>8 DEF WaitPid

LEMMA JobEndedInv ==
  ASSUME Inv, JobEnded
  PROVE  Inv'
<1>1. /\ stack # <<>> /\ Top \in Handler /\ Top \in Running /\ Is(Top, "CHLD", "ended")
      /\ pc \notin {"fork", "add", "unblock"}
      /\ \A r \in Running : r.sig = "CHLD" => r = Top
  BY ReapingFacts DEF JobEnded
<1>2. UNCHANGED <<kernel, main>>
  BY DEF JobEnded
<1>3. CASE over' = "crash" /\ UNCHANGED <<jobs, nextjid, stack>>
  BY <1>2, <1>3, OverInv
<1>4. CASE SlotsOf(Top.pid) # {} /\ deletejob(Top.pid) /\ Return /\ UNCHANGED over
  <2>1. Top.pid \in Pid /\ child[Top.pid] = "gone"
    BY <1>1 DEF Inv, FramesOK
  <2>2. PICK p \in Pid : p = Top.pid
    BY <2>1
  <2>3. Listed(p) /\ deletejob(p) /\ child[p] = "gone"
    BY <1>4, <2>1, <2>2, SlotsAre
  <2>4. /\ jobs' \in [Slot -> Entry] /\ nextjid' \in Nat \ {0}
        /\ \A k \in Slot : jobs'[k].pid = NoPid <=> jobs'[k].jid = 0
        /\ ~Listed(p)'
        /\ \A k \in Slot : jobs'[k] = jobs[k] \/ jobs'[k].pid = NoPid
        /\ \A q \in Pid \ {p} : Listed(q)' <=> Listed(q)
    BY <2>3, Deleted
  <2>5. stack' \in Seq(Handler) /\ Running' = Running \ {Top} /\ OneFrame'
    BY <1>1, <1>4, PopStep DEF Inv, Return
  <2>6. TypeOK'
    BY <2>4, <2>5, <1>2, <1>4 DEF Inv, TypeOK, main, kernel, Handler, Entry
  <2>7. \A r \in Running' : r \in Running /\ r.sig # "CHLD"
    BY <1>1, <2>5
  <2>8. FramesOK'
    BY <2>4, <2>7, PidAssumption DEF Inv, FramesOK, Is
  <2>9. MainOK'
    BY <1>1, <1>2 DEF Inv, MainOK, main
  <2>10. JobsOK'
    <3>1. \A j, k \in Slot : jobs'[j].pid = jobs'[k].pid /\ jobs'[k].pid # NoPid => j = k
      BY <2>4 DEF Inv, JobsOK
    <3>2. \A q \in Pid : Present(q)' <=> Present(q)
      BY <1>2 DEF Present, kernel
    <3>3. ~Present(p)
      BY <2>3 DEF Present
    <3>4. \A q \in Pid \ {p} : Listed(q) => Present(q)
      BY <1>1, <2>2 DEF Inv, JobsOK, Is
    <3> QED  BY <3>1, <3>2, <3>3, <3>4, <2>4, <1>2 DEF Inv, JobsOK, main
  <2> QED  BY <2>5, <2>6, <2>8, <2>9, <2>10 DEF Inv
<1> QED  BY <1>3, <1>4 DEF JobEnded

LEMMA JobStoppedInv ==
  ASSUME Inv, JobStopped
  PROVE  Inv'
<1>1. /\ stack # <<>> /\ Top \in Handler /\ Top \in Running /\ Is(Top, "CHLD", "stopped")
      /\ pc \notin {"fork", "add", "unblock"}
      /\ \A r \in Running : r.sig = "CHLD" => r = Top
  BY ReapingFacts DEF JobStopped
<1>2. UNCHANGED <<nextjid, kernel, main>>
  BY DEF JobStopped
<1>3. CASE over' = "crash" /\ UNCHANGED <<jobs, stack>>
  BY <1>2, <1>3, OverInv
<1>4. CASE /\ SlotsOf(Top.pid) # {}
           /\ jobs' = [jobs EXCEPT ![MinSlot(SlotsOf(Top.pid))].state = "ST"]
           /\ Return /\ UNCHANGED over
  <2>1. PICK k \in Slot : k = MinSlot(SlotsOf(Top.pid))
    BY <1>4, SlotsAre, MinSlotIs
  <2>2. /\ jobs' \in [Slot -> Entry]
        /\ \A j \in Slot : jobs'[j].pid = jobs[j].pid /\ jobs'[j].jid = jobs[j].jid
        /\ \A j \in Slot : jobs'[j].state \in {jobs[j].state, "ST"}
    BY <1>4, <2>1 DEF Inv, TypeOK, Entry
  <2>3. stack' \in Seq(Handler) /\ Running' = Running \ {Top} /\ OneFrame'
    BY <1>1, <1>4, PopStep DEF Inv, Return
  <2>4. TypeOK'
    BY <2>2, <2>3, <1>2, <1>4 DEF Inv, TypeOK, main, kernel, Handler, Entry
  <2>5. /\ \A p \in Pid : Listed(p)' <=> Listed(p)
        /\ \A p \in Pid : Present(p)' <=> Present(p)
    BY <2>2, <1>2 DEF Listed, Present, kernel
  <2>6. \A r \in Running' : r \in Running /\ r.sig # "CHLD"
    BY <1>1, <2>3
  <2>7. FramesOK'
    BY <2>2, <2>6 DEF Inv, FramesOK, Is
  <2>8. MainOK'
    BY <1>1, <1>2 DEF Inv, MainOK, main
  <2>9. JobsOK'
    <3>1. \A p \in Pid : Listed(p) => Present(p)
      BY <1>1 DEF Inv, JobsOK, Is
    <3> QED  BY <3>1, <2>2, <2>5, <1>2 DEF Inv, JobsOK, main
  <2> QED  BY <2>3, <2>4, <2>7, <2>8, <2>9 DEF Inv
<1> QED  BY <1>3, <1>4 DEF JobStopped

\* The job fgpid finds is of a child, and no entry of that child says BG.
LEMMA ForegroundIs ==
  ASSUME Inv, fgpid # NoPid
  PROVE  fgpid \in Pid /\ \A k \in Slot : jobs[k].pid = fgpid => jobs[k].state # "BG"
<1> DEFINE marked == {k \in Slot : jobs[k].state = "FG"}
<1>1. marked # {} /\ fgpid = jobs[MinSlot(marked)].pid
  BY DEF fgpid
<1>2. MinSlot(marked) \in marked
  BY <1>1, MinSlotIs
<1>3. PICK k \in Slot : k = MinSlot(marked) /\ jobs[k].state = "FG"
  BY <1>2
<1>4. fgpid = jobs[k].pid
  BY <1>1, <1>3
<1> HIDE DEF marked
<1> QED  BY <1>3, <1>4 DEF Inv, TypeOK, JobsOK

LEMMA KeyFacts ==
  ASSUME Inv, NEW s \in Keyboard, NEW l, OnTop(s, l)
  PROVE  /\ stack # <<>> /\ Top \in Handler /\ Top \in Running /\ Top.sig = s
         /\ \A r \in Running : r.sig = s => r = Top
<1>1. stack # <<>> /\ Top.sig = s
  BY DEF OnTop
<1>2. PICK t \in Seq(Handler) : t = stack
  BY DEF Inv, TypeOK, Handler
<1>3. 1 \in 1..Len(t) /\ Head(t) = t[1]
  BY <1>1, <1>2, Popped
<1>4. Top \in Running /\ Top \in Handler
  BY <1>2, <1>3 DEF Top, Running
<1> QED  BY <1>1, <1>4, RunningIs DEF Inv

\* The handler of a key returns, or goes on to its kill.
LEMMA KeyInv ==
  ASSUME Inv, NEW s \in Keyboard, FindForeground(s) \/ KillForeground(s)
  PROVE  Inv'
<1>1. /\ stack # <<>> /\ Top \in Handler /\ Top \in Running /\ Top.sig = s
      /\ \A r \in Running : r.sig = s => r = Top
  BY KeyFacts DEF FindForeground, KillForeground
<1>2. UNCHANGED <<jobs, nextjid, over, kernel, main>>
  BY DEF FindForeground, KillForeground
<1>3. /\ \A p \in Pid : Listed(p)' <=> Listed(p)
      /\ \A p \in Pid : Present(p)' <=> Present(p)
  BY <1>2 DEF Listed, Present, kernel
<1>4. s # "CHLD"
  BY Signals
<1>5. CASE Return
  <2>1. stack' \in Seq(Handler) /\ Running' = Running \ {Top} /\ OneFrame'
    BY <1>1, <1>5, PopStep DEF Inv, Return
  <2>2. TypeOK'
    BY <2>1, <1>2 DEF Inv, TypeOK, kernel, main, Handler
  <2>3. FramesOK'
    BY <2>1, <1>2, <1>3 DEF Inv, FramesOK, Is, kernel, main
  <2>4. MainOK'
    BY <2>1, <1>2, <1>3 DEF Inv, MainOK, main
  <2>5. JobsOK'
    BY <2>1, <1>1, <1>2, <1>3, <1>4 DEF Inv, JobsOK, Is, main
  <2> QED  BY <2>1, <2>2, <2>3, <2>4, <2>5 DEF Inv
<1>6. CASE fgpid # NoPid /\ Replace("kill", fgpid)
  <2>1. PICK p \in Pid : p = fgpid
    BY <1>6, ForegroundIs
  <2> DEFINE r == [Top EXCEPT !.at = "kill", !.pid = p]
  <2>2. r \in Handler /\ r.sig = s /\ r.at = "kill" /\ r.pid = p
    BY <1>1 DEF Handler
  <2>3. stack' = <<r>> \o Tail(stack)
    BY <1>6, <2>1 DEF Replace
  <2>4. \A k \in Slot : jobs[k].pid = p => jobs[k].state # "BG"
    BY <1>6, <2>1, ForegroundIs
  <2> HIDE DEF r
  <2>5. stack' \in Seq(Handler) /\ Running' = (Running \ {Top}) \cup {r} /\ OneFrame'
    BY <1>1, <2>2, <2>3, ReplaceStep DEF Inv
  <2>6. TypeOK'
    BY <2>5, <1>2 DEF Inv, TypeOK, kernel, main, Handler
  <2>7. FramesOK'
    BY <2>2, <2>4, <2>5, <1>2, <1>3, <1>4 DEF Inv, FramesOK, Is, kernel, main
  <2>8. MainOK'
    BY <2>2, <2>5, <1>2, <1>3, <1>4 DEF Inv, MainOK, main
  <2>9. JobsOK'
    BY <2>2, <2>5, <1>1, <1>2, <1>3, <1>4 DEF Inv, JobsOK, Is, main
  <2> QED  BY <2>5, <2>6, <2>7, <2>8, <2>9 DEF Inv
<1> QED  BY <1>5, <1>6 DEF FindForeground, KillForeground

\* Main steps with the list and the children as they were.
LEMMA MainStep ==
  ASSUME Inv, stack = <<>>, UNCHANGED <<jobs, nextjid, stack, over, kernel, dropped>>,
         MainOK', pc # "add",
         pc' \in {"prompt", "fork", "unblock", "print", "waitfg", "set", "cont"},
         blocked' \in BOOLEAN, bg' \in BOOLEAN, pid' \in Pid \cup {NoPid}, slot' \in Slot \cup {0}
  PROVE  Inv'
<1>1. Running = {} /\ Running' = {} /\ OneFrame' /\ FramesOK'
  BY Idle
<1>2. TypeOK'
  BY DEF Inv, TypeOK, kernel
<1>3. JobsOK'
  BY <1>1 DEF Inv, JobsOK, Listed, Present, kernel
<1> QED  BY <1>1, <1>2, <1>3 DEF Inv

LEMMA StartInv ==
  ASSUME Inv, NEW b \in BOOLEAN, Start(b) \/ \E k \in Slot : FindJob(b, k)
  PROVE  Inv'
<1>1. CASE Start(b)
  <2>1. MainOK'
    BY <1>1, Idle DEF Start, At, MainOK
  <2> QED  BY <2>1, <1>1, MainStep DEF Start, At, Inv, TypeOK
<1>2. ASSUME NEW k \in Slot, FindJob(b, k)
      PROVE  Inv'
  <2>1. MainOK'
    BY <1>2 DEF FindJob, At, MainOK
  <2> QED  BY <2>1, <1>2, MainStep DEF FindJob, At, Inv, TypeOK
<1> QED  BY <1>1, <1>2

LEMMA UnblockInv ==
  ASSUME Inv, Unblock \/ WaitFg
  PROVE  Inv'
<1>1. MainOK'
  BY DEF Unblock, WaitFg, At, MainOK
<1>2. CASE Unblock
  BY <1>1, <1>2, MainStep DEF Unblock, At, Inv, TypeOK
<1>3. CASE WaitFg
  BY <1>1, <1>3, MainStep DEF WaitFg, At, Inv, TypeOK
<1> QED  BY <1>2, <1>3

LEMMA PrintJobInv ==
  ASSUME Inv, PrintJob
  PROVE  Inv'
<1>1. stack = <<>> /\ pc = "print" /\ pc' = "prompt" /\ over' \in {over, "crash"}
      /\ UNCHANGED <<jobs, nextjid, stack, kernel, blocked, slot, dropped>>
      /\ pid' = NoPid /\ bg' = FALSE
  BY DEF PrintJob, At
<1>2. Running = {} /\ Running' = {} /\ OneFrame' /\ FramesOK'
  BY <1>1, Idle
<1>3. TypeOK'
  BY <1>1 DEF Inv, TypeOK, kernel
<1>4. MainOK'
  BY <1>1 DEF MainOK
<1>5. JobsOK'
  BY <1>1, <1>2 DEF Inv, JobsOK, Listed, Present, kernel
<1> QED  BY <1>2, <1>3, <1>4, <1>5 DEF Inv

LEMMA ForkInv ==
  ASSUME Inv, NEW p \in Pid, Fork(p)
  PROVE  Inv'
<1>1. /\ stack = <<>> /\ pc = "fork" /\ child[p] = "none" /\ pid' = p /\ pc' = "add"
      /\ UNCHANGED <<jobs, nextjid, stack, over, stopNews, pending, merged, blocked, bg, slot, dropped>>
  BY DEF Fork, At
<1>2. /\ child' \in [Pid -> {"none", "run", "stop", "zombie", "gone"}]
      /\ child'[p] = "run" /\ \A q \in Pid \ {p} : child'[q] = child[q]
  BY DEF Fork, Inv, TypeOK
<1>3. Running = {} /\ Running' = {} /\ OneFrame' /\ FramesOK'
  BY <1>1, Idle
<1>4. stopNews' \subseteq {q \in Pid : child'[q] = "stop"}
  BY <1>1, <1>2 DEF Inv, TypeOK
<1>5. TypeOK'
  BY <1>1, <1>2, <1>4 DEF Inv, TypeOK
<1>6. ~Listed(p)
  BY <1>1, <1>3 DEF Inv, JobsOK, Present
<1>7. \A q \in Pid : Listed(q)' <=> Listed(q)
  BY <1>1 DEF Listed
<1>8. Present(p)' /\ \A q \in Pid \ {p} : Present(q)' <=> Present(q)
  BY <1>2 DEF Present
<1>9. MainOK'
  BY <1>1, <1>3, <1>6, <1>7, <1>8 DEF Inv, MainOK
<1>10. JobsOK'
  BY <1>1, <1>3, <1>7, <1>8 DEF Inv, JobsOK
<1> QED  BY <1>3, <1>5, <1>9, <1>10 DEF Inv

LEMMA AddJobInv ==
  ASSUME Inv, AddJob
  PROVE  Inv'
<1>1. /\ stack = <<>> /\ pc = "add" /\ pc' = "unblock"
      /\ UNCHANGED <<stack, over, kernel, blocked, bg, pid, slot>>
  BY DEF AddJob, At
<1>2. Running = {} /\ Running' = {} /\ OneFrame' /\ FramesOK'
  BY <1>1, Idle
<1>3. PICK p \in Pid : p = pid /\ Present(p) /\ ~Listed(p)
  BY <1>1 DEF Inv, MainOK
<1>4. MainOK'
  BY <1>1, <1>2 DEF Inv, MainOK
<1>5. \A q \in Pid : Present(q)' <=> Present(q)
  BY <1>1 DEF Present, kernel
<1>6. CASE dropped' = dropped \cup {pid} /\ UNCHANGED <<jobs, nextjid>>
  <2>1. TypeOK'
    BY <1>1, <1>3, <1>6 DEF Inv, TypeOK, kernel
  <2>2. \A q \in Pid : Listed(q)' <=> Listed(q)
    BY <1>6 DEF Listed
  <2>3. JobsOK'
    BY <2>2, <1>1, <1>2, <1>3, <1>5, <1>6 DEF Inv, JobsOK
  <2> QED  BY <2>1, <2>3, <1>2, <1>4 DEF Inv
<1>7. CASE /\ SlotsOf(NoPid) # {}
           /\ jobs' = [jobs EXCEPT ![MinSlot(SlotsOf(NoPid))] =
                         [pid |-> pid, jid |-> nextjid, state |-> IF bg THEN "BG" ELSE "FG"]]
           /\ nextjid' = IF nextjid + 1 > MAXJOBS THEN 1 ELSE nextjid + 1
           /\ UNCHANGED dropped
  <2>1. MinSlot(SlotsOf(NoPid)) \in SlotsOf(NoPid)
    BY <1>7, SlotsAre, MinSlotIs
  <2>2. PICK k \in Slot : k = MinSlot(SlotsOf(NoPid)) /\ jobs[k].pid = NoPid
    BY <2>1 DEF SlotsOf
  <2>3. PICK e : e = [pid |-> pid, jid |-> nextjid, state |-> IF bg THEN "BG" ELSE "FG"]
    OBVIOUS
  <2>4. e \in Entry /\ e.pid = p /\ e.jid # 0
    BY <2>3, <1>3 DEF Inv, TypeOK, Entry
  <2>5. jobs' = [jobs EXCEPT ![k] = e]
    BY <1>7, <2>2, <2>3
  <2>6. jobs' \in [Slot -> Entry] /\ jobs'[k] = e /\ \A j \in Slot \ {k} : jobs'[j] = jobs[j]
    BY <2>4, <2>5 DEF Inv, TypeOK, Entry
  <2>7. nextjid' \in Nat \ {0}
    BY <1>7, MAXJOBSAssumption DEF Inv, TypeOK
  <2>8. \A j \in Slot : jobs'[j].pid = NoPid <=> jobs'[j].jid = 0
    BY <2>4, <2>6, PidAssumption DEF Inv, TypeOK
  <2>9. TypeOK'
    BY <2>6, <2>7, <2>8, <1>1, <1>7 DEF Inv, TypeOK, kernel, Entry
  <2>10. Listed(p)' /\ \A q \in Pid \ {p} : Listed(q)' <=> Listed(q)
    BY <2>2, <2>4, <2>6, PidAssumption DEF Listed
  <2>11. \A i, j \in Slot : jobs'[i].pid = jobs'[j].pid /\ jobs'[j].pid # NoPid => i = j
    <3>1. \A j \in Slot : jobs[j].pid # p
      BY <1>3 DEF Listed
    <3> QED  BY <3>1, <2>4, <2>6 DEF Inv, JobsOK
  <2>12. JobsOK'
    BY <2>10, <2>11, <1>1, <1>2, <1>3, <1>5, <1>7 DEF Inv, JobsOK
  <2> QED  BY <2>9, <2>12, <1>2, <1>4 DEF Inv
<1> QED  BY <1>6, <1>7 DEF AddJob

LEMMA SetStateInv ==
  ASSUME Inv, SetState
  PROVE  Inv'
<1>1. /\ stack = <<>> /\ pc = "set" /\ pc' = "cont"
      /\ UNCHANGED <<nextjid, stack, over, kernel, blocked, bg, pid, slot, dropped>>
  BY DEF SetState, At
<1>2. Running = {} /\ Running' = {} /\ OneFrame' /\ FramesOK'
  BY <1>1, Idle
<1>3. slot \in Slot
  BY <1>1 DEF Inv, MainOK
<1>4. /\ jobs' \in [Slot -> Entry]
      /\ \A j \in Slot : jobs'[j].pid = jobs[j].pid /\ jobs'[j].jid = jobs[j].jid
  BY <1>3 DEF SetState, Inv, TypeOK, Entry
<1>5. TypeOK'
  BY <1>1, <1>4 DEF Inv, TypeOK, kernel, Entry
<1>6. MainOK'
  BY <1>1, <1>3 DEF MainOK
<1>7. JobsOK'
  BY <1>1, <1>2, <1>4 DEF Inv, JobsOK, Listed, Present, kernel
<1> QED  BY <1>2, <1>5, <1>6, <1>7 DEF Inv

LEMMA ContinueJobInv ==
  ASSUME Inv, ContinueJob
  PROVE  Inv'
<1>1. /\ stack = <<>> /\ pc = "cont" /\ pc' \in {"prompt", "waitfg"} /\ slot' = 0 /\ bg' = FALSE
      /\ UNCHANGED <<jobs, nextjid, stack, over, blocked, pid, dropped>>
  BY DEF ContinueJob, At
<1>2. Running = {} /\ Running' = {} /\ OneFrame' /\ FramesOK'
  BY <1>1, Idle
<1>3. PICK p \in Pid \cup {NoPid} : p = jobs[slot].pid
  BY <1>1 DEF Inv, MainOK, TypeOK
<1>4. Continued(p)
  BY <1>3 DEF ContinueJob
<1>5. /\ child' \in [Pid -> {"none", "run", "stop", "zombie", "gone"}]
      /\ stopNews' \subseteq {q \in Pid : child'[q] = "stop"}
      /\ pending' \subseteq {"CHLD"} \cup Keyboard /\ merged' \in BOOLEAN
      /\ \A q \in Pid : Present(q) <=> Present(q)'
  BY <1>4 DEF Continued, Raise, kernel, Inv, TypeOK, Present
<1>6. TypeOK'
  BY <1>1, <1>5 DEF Inv, TypeOK
<1>7. MainOK'
  BY <1>1 DEF MainOK
<1>8. JobsOK'
  BY <1>1, <1>2, <1>5 DEF Inv, JobsOK, Listed
<1> QED  BY <1>2, <1>6, <1>7, <1>8 DEF Inv

LEMMA StutterInv == Inv /\ UNCHANGED vars => Inv'
<1> SUFFICES ASSUME Inv, UNCHANGED vars PROVE Inv'
  OBVIOUS
<1> QED  BY OverInv DEF vars, Inv, TypeOK

LEMMA NextInv == Inv /\ [Next]_vars => Inv'
<1> SUFFICES ASSUME Inv, [Next]_vars PROVE Inv'
  OBVIOUS
<1>1. CASE UNCHANGED vars
  BY <1>1, StutterInv
<1>2. CASE Proceed
  <2>1. CASE ForkFails
    BY <2>1, OverInv DEF ForkFails
  <2> QED  BY <1>2, <2>1, DeliverInv, WaitPidInv, JobEndedInv, JobStoppedInv, KeyInv, ForkInv,
              AddJobInv, UnblockInv, PrintJobInv, SetStateInv, ContinueJobInv DEF Proceed
<1>3. CASE Environment
  <2>1. CASE Quit
    BY <2>1, OverInv DEF Quit
  <2> QED  BY <1>3, <2>1, KernelInv, StartInv DEF Environment
<1> QED  BY <1>1, <1>2, <1>3 DEF Next

\* The invariant holds in every state of the shell.
THEOREM Invariance == Spec => []Inv
BY InitInv, NextInv, PTL DEF Spec

\* Every variable of the shell keeps its type, and a free entry of the job
\* list keeps no job identifier (jobs.c, clearjob).
THEOREM TypeCorrect == Spec => []TypeOK
<1>1. Inv => TypeOK
  BY DEF Inv
<1> QED  BY <1>1, Invariance, PTL

LEMMA FramesAre ==
  ASSUME Inv, NEW l
  PROVE  \A i \in Frames("CHLD", l) : stack[i] \in Running /\ Is(stack[i], "CHLD", l)
BY DEF Frames, Running, Is

\* The handler of SIGCHLD finds a job for each child it is told of, unless
\* the job list was full: eval adds the child before it unblocks the signal.
THEOREM HandlerCorrect == Spec => []HandlerFindsJob
<1>1. Inv => HandlerFindsJob
  <2> SUFFICES ASSUME Inv, NEW i \in Frames("CHLD", "ended") \cup Frames("CHLD", "stopped")
               PROVE  SlotsOf(stack[i].pid) # {} \/ stack[i].pid \in dropped
    BY DEF HandlerFindsJob
  <2>1. PICK r \in Running : r = stack[i] /\ (Is(r, "CHLD", "ended") \/ Is(r, "CHLD", "stopped"))
    BY FramesAre
  <2>2. CASE Is(r, "CHLD", "ended")
    BY <2>1, <2>2, SlotsAre DEF Inv, FramesOK
  <2>3. CASE Is(r, "CHLD", "stopped")
    <3>1. r.pid \in Pid /\ Present(r.pid)
      BY <2>1, <2>3 DEF Inv, FramesOK
    <3>2. pc # "add"
      BY <2>1, <2>3 DEF Inv, MainOK, Is
    <3> QED  BY <2>1, <3>1, <3>2, SlotsAre DEF Inv, JobsOK
  <2> QED  BY <2>1, <2>2, <2>3
<1> QED  BY <1>1, Invariance, PTL

\* A child that is not reaped has one entry in the job list, and an entry is
\* of such a child or of the one whose entry the handler is about to delete.
THEOREM ListCorrect == Spec => []ListMatchesChildren
<1>1. Inv => ListMatchesChildren
  <2> SUFFICES ASSUME Inv, NEW p \in Pid
               PROVE  /\ Cardinality(SlotsOf(p)) <= 1
                      /\ Present(p) => SlotsOf(p) # {} \/ p \in dropped \/ (pc = "add" /\ pid = p)
                      /\ SlotsOf(p) # {} =>
                           Present(p) \/ \E i \in Frames("CHLD", "ended") : stack[i].pid = p
    BY DEF ListMatchesChildren, Alive, Present
  <2>1. Cardinality(SlotsOf(p)) <= 1
    <3>1. \A j, k \in SlotsOf(p) : j = k
      BY PidAssumption DEF Inv, JobsOK, SlotsOf
    <3>2. CASE SlotsOf(p) = {}
      BY <3>2, FS_EmptySet
    <3>3. ASSUME NEW k \in SlotsOf(p)
          PROVE  Cardinality(SlotsOf(p)) = 1
      <4>1. SlotsOf(p) = {k}
        BY <3>1, <3>3
      <4> QED  BY <4>1, FS_Singleton
    <3> QED  BY <3>2, <3>3
  <2>2. Present(p) => SlotsOf(p) # {} \/ p \in dropped \/ (pc = "add" /\ pid = p)
    BY SlotsAre DEF Inv, JobsOK
  <2>3. ASSUME SlotsOf(p) # {}, ~Present(p)
        PROVE  \E i \in Frames("CHLD", "ended") : stack[i].pid = p
    <3>1. PICK r \in Running : Is(r, "CHLD", "ended") /\ r.pid = p
      BY <2>3, SlotsAre DEF Inv, JobsOK
    <3>2. PICK i \in 1..Len(stack) : stack[i] = r
      BY DEF Running
    <3> QED  BY <3>1, <3>2 DEF Frames, Is
  <2> QED  BY <2>1, <2>2, <2>3
<1> QED  BY <1>1, Invariance, PTL

\* The signal of a key that a handler has chosen a job for finds no entry of
\* it in the background, whatever the other handlers did to the list.
THEOREM BackgroundCorrect == Spec => []BackgroundSpared
<1>1. Inv => BackgroundSpared
  <2> SUFFICES ASSUME Inv, NEW s \in Keyboard, NEW i \in Frames(s, "kill"),
                      NEW k \in SlotsOf(stack[i].pid)
               PROVE  jobs[k].state # "BG"
    BY DEF BackgroundSpared
  <2>1. PICK r \in Running : r = stack[i] /\ r.sig \in Keyboard /\ r.at = "kill"
    BY DEF Frames, Running
  <2> QED  BY <2>1 DEF Inv, FramesOK, SlotsOf
<1> QED  BY <1>1, Invariance, PTL

-----------------------------------------------------------------------------
(* The reports *)

LEMMA ExpectedIs == Expected \in 0..2
BY DEF Expected

\* Nothing new to report, and no signal or handler less that reports.
LEMMA NoNews ==
  ASSUME ReportsOK, Unreported' \subseteq Unreported, merged => merged',
         "CHLD" \in pending => "CHLD" \in pending',
         \A r \in Running : Is(r, "CHLD", "start") => r \in Running'
  PROVE  ReportsOK'
<1>1. /\ IsFiniteSet(Unreported) /\ IsFiniteSet(Unreported')
      /\ Cardinality(Unreported') <= Cardinality(Unreported)
  BY FS_Subset DEF ReportsOK
<1>2. Cardinality(Unreported) \in Nat /\ Cardinality(Unreported') \in Nat
  BY <1>1, FS_CardinalityType
<1>3. Expected' \in Nat /\ Expected \in Nat /\ Expected' >= Expected
  BY DEF Expected, Is
<1> QED  BY <1>1, <1>2, <1>3 DEF ReportsOK

\* One child more to report, with a signal of its own.
LEMMA News ==
  ASSUME ReportsOK, NEW p, Unreported' \subseteq Unreported \cup {p}, Raise("CHLD"),
         merged \in BOOLEAN, UNCHANGED stack
  PROVE  ReportsOK'
<1>1. /\ IsFiniteSet(Unreported) /\ IsFiniteSet(Unreported \cup {p})
      /\ Cardinality(Unreported \cup {p}) <= Cardinality(Unreported) + 1
  <2>1. IsFiniteSet(Unreported) /\ Cardinality(Unreported) \in Nat
    BY FS_CardinalityType DEF ReportsOK
  <2> QED  BY <2>1, FS_AddElement
<1>2. IsFiniteSet(Unreported') /\ Cardinality(Unreported') <= Cardinality(Unreported \cup {p})
  BY <1>1, FS_Subset
<1>3. /\ Cardinality(Unreported) \in Nat /\ Cardinality(Unreported') \in Nat
      /\ Cardinality(Unreported \cup {p}) \in Nat
  BY <1>1, <1>2, FS_CardinalityType
<1>4. ASSUME ~merged'
      PROVE  ~merged /\ Expected' = Expected + 1
  <2>1. ~merged /\ "CHLD" \notin pending /\ "CHLD" \in pending'
    BY <1>4 DEF Raise
  <2>2. Running' = Running
    BY DEF Running
  <2> QED  BY <2>1, <2>2 DEF Expected, Is
<1>5. Expected \in Nat
  BY ExpectedIs
<1> QED  BY <1>1, <1>2, <1>3, <1>4, <1>5 DEF ReportsOK

\* One report taken, at the cost of the handler that took it.
LEMMA Reported ==
  ASSUME ReportsOK, NEW p \in Unreported, Unreported' = Unreported \ {p},
         UNCHANGED <<pending, merged>>, \E r \in Running : Is(r, "CHLD", "start")
  PROVE  ReportsOK'
<1>1. /\ IsFiniteSet(Unreported) /\ IsFiniteSet(Unreported')
      /\ Cardinality(Unreported') = Cardinality(Unreported) - 1
  BY FS_RemoveElement DEF ReportsOK
<1>2. Cardinality(Unreported) \in Nat /\ Cardinality(Unreported') \in Nat
  BY <1>1, FS_CardinalityType
<1>3. Expected \in Nat /\ Expected' \in Nat /\ Expected' >= Expected - 1
  BY DEF Expected
<1> QED  BY <1>1, <1>2, <1>3 DEF ReportsOK

LEMMA WaitPidReports ==
  ASSUME Inv, ReportsOK, WaitPid
  PROVE  ReportsOK'
<1>1. /\ stack # <<>> /\ Top \in Handler /\ Top \in Running /\ Is(Top, "CHLD", "start")
  BY ReapingFacts DEF WaitPid
<1>2. UNCHANGED <<pending, merged>>
  BY DEF WaitPid
<1>3. CASE UNCHANGED <<stack, child, stopNews>>
  <2>1. Unreported' = Unreported /\ Running' = Running
    BY <1>3 DEF Unreported, Running
  <2> QED  BY <1>2, <2>1, NoNews
<1>4. CASE stopNews = {} /\ (\A p \in Pid : child[p] # "zombie") /\ UNCHANGED <<child, stopNews>>
  <2>1. Unreported = {} /\ Unreported' = {}
    BY <1>4 DEF Unreported
  <2>2. Expected' \in Nat
    BY DEF Expected
  <2> QED  BY <2>1, <2>2, FS_EmptySet DEF ReportsOK
<1>5. ASSUME NEW p \in Pid, child[p] = "zombie", child' = [child EXCEPT ![p] = "gone"],
             UNCHANGED stopNews
      PROVE  ReportsOK'
  <2>1. p \in Unreported /\ p \notin stopNews
    BY <1>5 DEF Unreported, Inv, TypeOK
  <2>2. child'[p] = "gone" /\ \A q \in Pid \ {p} : child'[q] = child[q]
    BY <1>5 DEF Inv, TypeOK
  <2>3. Unreported' = Unreported \ {p}
    BY <2>1, <2>2, <1>5 DEF Unreported
  <2> QED  BY <1>1, <1>2, <2>1, <2>3, Reported
<1>6. ASSUME NEW p \in stopNews, stopNews' = stopNews \ {p}, UNCHANGED child
      PROVE  ReportsOK'
  <2>1. p \in Unreported /\ child[p] # "zombie"
    BY <1>6 DEF Unreported, Inv, TypeOK
  <2>2. Unreported' = Unreported \ {p}
    BY <2>1, <1>6 DEF Unreported
  <2> QED  BY <1>1, <1>2, <2>1, <2>2, Reported
<1> QED  BY <1>3, <1>4, <1>5, <1>6 DEF WaitPid

LEMMA DeliverReports ==
  ASSUME Inv, ReportsOK, NEW s \in {"CHLD"} \cup Keyboard, Deliver(s)
  PROVE  ReportsOK'
<1> DEFINE r == [sig |-> s, at |-> "start", pid |-> NoPid]
<1>1. r \in Handler /\ r.sig = s /\ r.at = "start" /\ stack' = <<r>> \o stack
      /\ s \notin Handled /\ s \in pending
  BY DEF Deliver, Handler
<1> HIDE DEF r
<1>2. Running' = Running \cup {r}
  BY <1>1, PushStep DEF Inv
<1>3. Unreported' = Unreported /\ merged' = merged /\ pending' = pending \ {s}
  BY DEF Deliver, Unreported
<1>4. CASE s = "CHLD"
  <2>1. \A q \in Running : q.sig # "CHLD"
    BY <1>1, <1>4, RunningIs DEF Inv
  <2>2. Is(r, "CHLD", "start") /\ r \in Running'
    BY <1>1, <1>2, <1>4 DEF Is
  <2>3. ~(\E q \in Running : Is(q, "CHLD", "start")) /\ (\E q \in Running' : Is(q, "CHLD", "start"))
    BY <2>1, <2>2 DEF Is
  <2>4. Expected = 1
    BY <2>3, <1>1, <1>4 DEF Expected
  <2>5. Expected' = 1
    BY <2>2, <1>3, <1>4 DEF Expected, Is
  <2> QED  BY <2>4, <2>5, <1>3 DEF ReportsOK
<1>5. CASE s # "CHLD"
  BY <1>2, <1>3, <1>5, NoNews
<1> QED  BY <1>4, <1>5

\* The steps that leave the children and the signals alone.
LEMMA ShellReports ==
  ASSUME Inv, ReportsOK, UNCHANGED kernel,
         \/ UNCHANGED stack
         \/ stack # <<>> /\ ~Is(Top, "CHLD", "start")
            /\ (stack' = Tail(stack) \/ \E p \in Pid \cup {NoPid}, l \in {"kill"} : Replace(l, p))
  PROVE  ReportsOK'
<1>1. Unreported' = Unreported /\ pending' = pending /\ merged' = merged
  BY DEF Unreported, kernel
<1>2. CASE UNCHANGED stack
  <2>1. Running' = Running
    BY <1>2 DEF Running
  <2> QED  BY <1>1, <2>1, NoNews
<1>3. CASE stack # <<>> /\ ~Is(Top, "CHLD", "start") /\ stack' = Tail(stack)
  <2>1. Running' = Running \ {Top}
    BY <1>3, PopStep DEF Inv
  <2> QED  BY <1>1, <1>3, <2>1, NoNews
<1>4. ASSUME stack # <<>>, ~Is(Top, "CHLD", "start"), NEW p \in Pid \cup {NoPid}, Replace("kill", p)
      PROVE  ReportsOK'
  <2> DEFINE r == [Top EXCEPT !.at = "kill", !.pid = p]
  <2>1. PICK s \in Seq(Handler) : s = stack
    BY DEF Inv, TypeOK, Handler
  <2>2. Top \in Handler
    BY <2>1, <1>4, Popped DEF Top
  <2>3. r \in Handler /\ r.sig = Top.sig /\ stack' = <<r>> \o Tail(stack)
    BY <1>4, <2>2 DEF Handler, Replace
  <2> HIDE DEF r
  <2>4. Running' = (Running \ {Top}) \cup {r}
    BY <1>4, <2>3, ReplaceStep DEF Inv
  <2> QED  BY <1>1, <1>4, <2>4, NoNews
<1> QED  BY <1>2, <1>3, <1>4

LEMMA ChildReports ==
  ASSUME Inv, ReportsOK, NEW p \in Pid, ChildEnds(p) \/ ChildStops(p)
  PROVE  ReportsOK'
<1>1. Raise("CHLD") /\ UNCHANGED stack /\ merged \in BOOLEAN
  BY DEF ChildEnds, ChildStops, Inv, TypeOK
<1>2. /\ stopNews' \subseteq stopNews \cup {p}
      /\ \A q \in Pid \ {p} : child'[q] = child[q]
  BY DEF ChildEnds, ChildStops, Inv, TypeOK
<1>3. Unreported' \subseteq Unreported \cup {p}
  BY <1>2 DEF Unreported
<1> QED  BY <1>1, <1>3, News

LEMMA MainReports ==
  ASSUME Inv, ReportsOK, (\E p \in Pid : Fork(p)) \/ ContinueJob
  PROVE  ReportsOK'
<1>1. UNCHANGED stack
  BY DEF Fork, ContinueJob
<1>2. Running' = Running
  BY <1>1 DEF Running
<1>3. ASSUME NEW p \in Pid, Fork(p)
      PROVE  ReportsOK'
  <2>1. child'[p] = "run" /\ (\A q \in Pid \ {p} : child'[q] = child[q])
        /\ UNCHANGED <<stopNews, pending, merged>>
    BY <1>3 DEF Fork, Inv, TypeOK
  <2>2. Unreported' \subseteq Unreported
    BY <2>1 DEF Unreported
  <2> QED  BY <1>2, <2>1, <2>2, NoNews
<1>4. CASE ContinueJob
  <2>1. PICK p : p = jobs[slot].pid
    OBVIOUS
  <2>2. Continued(p)
    BY <2>1, <1>4 DEF ContinueJob
  <2>3. CASE UNCHANGED kernel
    BY <1>1, <2>3, ShellReports
  <2>4. CASE child' = [child EXCEPT ![p] = "run"] /\ stopNews' = stopNews \ {p} /\ Raise("CHLD")
    <3>1. \A q \in Pid : child'[q] \in {child[q], "run"}
      BY <2>4 DEF Inv, TypeOK
    <3>2. Unreported' \subseteq Unreported
      BY <3>1, <2>4 DEF Unreported
    <3> QED  BY <1>2, <2>4, <3>2, NoNews DEF Raise
  <2> QED  BY <2>2, <2>3, <2>4 DEF Continued
<1> QED  BY <1>3, <1>4

LEMMA ReportsStep == Inv /\ ReportsOK /\ [Next]_vars => ReportsOK'
<1> SUFFICES ASSUME Inv, ReportsOK, [Next]_vars PROVE ReportsOK'
  OBVIOUS
<1>1. CASE UNCHANGED vars
  BY <1>1, ShellReports DEF vars
<1>2. CASE Proceed
  <2>1. CASE JobEnded \/ JobStopped
    <3>1. stack # <<>> /\ ~Is(Top, "CHLD", "start") /\ UNCHANGED kernel
          /\ (UNCHANGED stack \/ stack' = Tail(stack))
      BY <2>1 DEF JobEnded, JobStopped, OnTop, Is, Return
    <3> QED  BY <3>1, ShellReports
  <2>2. ASSUME NEW s \in Keyboard, FindForeground(s) \/ KillForeground(s)
        PROVE  ReportsOK'
    <3>1. stack # <<>> /\ ~Is(Top, "CHLD", "start") /\ UNCHANGED kernel
      BY <2>2, Signals DEF FindForeground, KillForeground, OnTop, Is
    <3>2. Return \/ (fgpid # NoPid /\ Replace("kill", fgpid))
      BY <2>2 DEF FindForeground, KillForeground
    <3>3. CASE Return
      BY <3>1, <3>3, ShellReports DEF Return
    <3>4. CASE fgpid # NoPid /\ Replace("kill", fgpid)
      <4>1. fgpid \in Pid
        BY <3>4, ForegroundIs
      <4> QED  BY <3>1, <3>4, <4>1, ShellReports
    <3> QED  BY <3>2, <3>3, <3>4
  <2>3. CASE ForkFails \/ AddJob \/ Unblock \/ PrintJob \/ WaitFg \/ SetState
    <3>1. UNCHANGED <<kernel, stack>>
      BY <2>3 DEF ForkFails, AddJob, Unblock, PrintJob, WaitFg, SetState
    <3> QED  BY <3>1, ShellReports
  <2> QED  BY <1>2, <2>1, <2>2, <2>3, DeliverReports, WaitPidReports, MainReports DEF Proceed
<1>3. CASE Environment
  <2>1. ASSUME (\E b \in BOOLEAN : Start(b) \/ \E k \in Slot : FindJob(b, k)) \/ Quit
        PROVE  ReportsOK'
    <3>1. UNCHANGED <<kernel, stack>>
      BY <2>1 DEF Start, FindJob, Quit
    <3> QED  BY <3>1, ShellReports
  <2>2. ASSUME NEW s \in Keyboard, Key(s)
        PROVE  ReportsOK'
    <3>1. /\ Unreported' = Unreported /\ Running' = Running
          /\ (merged => merged') /\ ("CHLD" \in pending => "CHLD" \in pending')
      BY <2>2 DEF Key, Raise, Unreported, Running
    <3> QED  BY <3>1, NoNews
  <2> QED  BY <1>3, <2>1, <2>2, ChildReports DEF Environment
<1> QED  BY <1>1, <1>2, <1>3 DEF Next

\* As long as no SIGCHLD came while another was pending, every child with
\* something to report has a signal or a handler to come for it.
THEOREM ReportsCorrect == Spec => []NoReportLost
<1>1. Init => ReportsOK
  <2> SUFFICES ASSUME Init PROVE ReportsOK
    OBVIOUS
  <2>1. Unreported = {}
    BY DEF Init, Unreported
  <2> QED  BY <2>1, FS_EmptySet, ExpectedIs DEF ReportsOK
<1>2. Inv /\ ReportsOK => NoReportLost
  <2> SUFFICES ASSUME Inv, ReportsOK, ~merged
               PROVE  Cardinality(Unreported) <=
                        Cardinality(pending \cap {"CHLD"}) + Cardinality(Frames("CHLD", "start"))
    BY DEF NoReportLost
  <2>1. Cardinality(pending \cap {"CHLD"}) = IF "CHLD" \in pending THEN 1 ELSE 0
    <3>1. CASE "CHLD" \in pending
      <4>1. pending \cap {"CHLD"} = {"CHLD"}
        BY <3>1
      <4> QED  BY <3>1, <4>1, FS_Singleton
    <3>2. CASE "CHLD" \notin pending
      <4>1. pending \cap {"CHLD"} = {}
        BY <3>2
      <4> QED  BY <3>2, <4>1, FS_EmptySet
    <3> QED  BY <3>1, <3>2
  <2>2. Cardinality(Frames("CHLD", "start")) =
          IF \E r \in Running : Is(r, "CHLD", "start") THEN 1 ELSE 0
    <3>1. \A i, j \in Frames("CHLD", "start") : i = j
      BY DEF Inv, OneFrame, Frames
    <3>2. (\E r \in Running : Is(r, "CHLD", "start")) <=> Frames("CHLD", "start") # {}
      BY DEF Running, Is, Frames
    <3>3. CASE Frames("CHLD", "start") = {}
      BY <3>2, <3>3, FS_EmptySet
    <3>4. ASSUME NEW i \in Frames("CHLD", "start")
          PROVE  Cardinality(Frames("CHLD", "start")) = 1
      <4>1. Frames("CHLD", "start") = {i}
        BY <3>1, <3>4
      <4> QED  BY <4>1, FS_Singleton
    <3> QED  BY <3>2, <3>3, <3>4
  <2> QED  BY <2>1, <2>2 DEF ReportsOK, Expected
<1> QED  BY <1>1, <1>2, InitInv, NextInv, ReportsStep, Invariance, PTL DEF Spec
=============================================================================
