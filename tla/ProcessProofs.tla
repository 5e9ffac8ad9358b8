--------------------------- MODULE ProcessProofs ---------------------------
(***************************************************************************)
(* Proofs about ProcessLife, for any pages, programs and bounds: a process *)
(* that waits for a child of its own reads that child, is woken when it    *)
(* exits and gets its status; exec says whether the load succeeded.        *)
(*                                                                         *)
(* The argument turns on one fact (Kept): a child that no wait has let go, *)
(* and whose parent has not finished its exit, is not let go.  It has not  *)
(* left its page, then, and the pointer of the waiter is good.             *)
(***************************************************************************)
EXTENDS ProcessLife, FiniteSetTheorems, TLAPS

Spared(t) == t \notin past.killed \cup past.failed \cup past.reaped
Own(p, q) == thread[q].parent = p /\ past.maker[thread[q].tid] = thread[p].tid
Known == 1..(nextTid - 1)

\* Threads, pages and identifiers.
PagesOK ==
  /\ \A p \in Page : pc[p] = "free" <=> thread[p].tid = 0
  /\ \A p \in Page : thread[p].tid < nextTid
  /\ \A p, q \in Live : thread[p].tid = thread[q].tid => p = q
  /\ \A t \in 1..MaxTid : past.maker[t] < nextTid
  /\ past.loaded \subseteq Known

\* Main creates one process and no other; it never calls exit.
MainOK ==
  /\ thread[Main].tid = 1 /\ thread[Main].parent = Null /\ ~thread[Main].dead
  /\ pc[Main] \in {"task", "copy", "create", "created", "check", "sleep", "fault",
                   "close", "die", "halt", "ended"}
  /\ \A p \in Page \ {Main} : pc[p] \notin {"task", "halt", "ended"}
  /\ pc[Main] = "task" => nextTid = 2 /\ \A p \in Page \ {Main} : pc[p] = "free"

\* The identifiers that are left are enough for the calls of exec under way.
Room == nextTid + Cardinality(Pending) <= MaxTid + 1

CallsOK ==
  \A p \in Page :
    /\ pc[p] \in {"open", "copy", "create"} => call[p].cmd \in Program
    /\ InWait(p) => call[p].target \in Page /\ call[p].want \in Known

DeadOK ==
  \A p \in Live :
    /\ thread[p].dead => pc[p] \in {"notify", "zombie", "close", "die"}
    /\ pc[p] \in {"notify", "zombie"} => thread[p].dead
    /\ thread[p].status \in {-1, thread[p].tid}

\* A child is let go by a wait, or when its parent has gone through its exit.
Kept ==
  \A p, q \in Live :
    Own(p, q) /\ Spared(thread[q].tid) /\ pc[p] \notin {"die", "ended"} =>
      thread[q].canDie = 0 /\ pc[q] \notin {"close", "die"}

\* What a waiter points at.
Reads ==
  \A p \in Page : WaitsForOwn(p) =>
    thread[call[p].target].tid = call[p].want /\ thread[call[p].target].parent = p

\* An exit that has passed its up left a token.
Woken ==
  \A p \in Page :
    pc[p] = "sleep" /\ WaitsForOwn(p) /\ thread[call[p].target].dead
    /\ pc[call[p].target] # "notify" => thread[p].onChild > 0

\* exec and the load it waits for.
LoadsOK ==
  /\ \A q \in Page : pc[q] \in {"load", "loading"} =>
       LET p == thread[q].parent IN
       /\ p \in Live /\ past.maker[thread[q].tid] = thread[p].tid
       /\ thread[q].tid \notin past.loaded
       /\ p # Main => pc[p] = "created" /\ call[p].eax = thread[q].tid /\ thread[p].onLoad = 0
  /\ \A p \in Page \ {Main} :
       IF pc[p] # "created" THEN thread[p].onLoad = 0
       ELSE /\ thread[p].onLoad <= 1
            /\ call[p].eax # -1 =>
                 /\ call[p].eax \in Known /\ past.maker[call[p].eax] = thread[p].tid
                 /\ thread[p].onLoad > 0 => (thread[p].valid <=> call[p].eax \in past.loaded)

Inv == /\ TypeOK /\ PagesOK /\ MainOK /\ Room /\ CallsOK /\ DeadOK
       /\ Kept /\ Reads /\ Woken /\ LoadsOK

-----------------------------------------------------------------------------
(* What a thread does to itself *)

Call == [cmd : Program \cup {Null}, want : 0..MaxTid, target : Page \cup {Null}, eax : Statuses]

LEMMA Numbers == MaxTid \in Nat /\ MaxTid >= 2 /\ 0 \in Statuses /\ -1 \in Statuses
BY BoundAssumption DEF Statuses

LEMMA PendingIs ==
  IsFiniteSet(Pending) /\ Cardinality(Pending) \in Nat
<1>1. Pending \subseteq Page
  BY DEF Pending
<1> QED  BY <1>1, PageAssumption, FS_Subset, FS_CardinalityType

LEMMA RoomKept ==
  ASSUME TypeOK, Room, Pending' \subseteq Pending, UNCHANGED nextTid
  PROVE  Room'
<1>1. PICK S : S = Pending'
  OBVIOUS
<1>2. IsFiniteSet(S) /\ Cardinality(S) <= Cardinality(Pending)
  BY <1>1, PendingIs, FS_Subset
<1>3. Cardinality(S) \in Nat /\ Cardinality(Pending) \in Nat
  BY <1>2, PendingIs, FS_CardinalityType
<1> QED  BY <1>1, <1>2, <1>3, Numbers DEF Room, TypeOK

\* The thread in p goes on to l with c as its call; no struct thread changes.
LocalOK(p, l, c) ==
  /\ c \in Call /\ pc[p] # "free" /\ l \notin {"free", "task"}
  /\ IF p = Main THEN l \in {"copy", "create", "created", "check", "sleep", "fault", "close", "halt", "ended"}
                 ELSE l \in Labels \ {"task", "halt", "ended"}
  /\ l \in {"open", "copy", "create"} => c.cmd \in Program
  /\ l \in {"check", "sleep"} =>
       /\ c.target \in Page /\ c.want \in Known
       /\ \/ InWait(p) /\ c = call[p]
          \/ thread[c.target].tid = c.want /\ thread[c.target].parent = p
  /\ l = "sleep" => ~thread[c.target].dead
  /\ l \notin {"notify", "zombie"} /\ (thread[p].dead => l = "close")
  /\ l \in {"close", "die"} => thread[p].parent \notin Live
  /\ pc[p] = "notify" => thread[p].parent \notin Live
  /\ pc[p] \in {"die", "ended"} => l = "ended"
  /\ l \in {"load", "loading"} => pc[p] = "load"
  /\ p # Main => pc[p] # "created" /\ (l = "created" => c.eax = -1)

LEMMA LocalStep ==
  ASSUME Inv, NEW p \in Page, NEW l, NEW c, LocalOK(p, l, c),
         pc' = [pc EXCEPT ![p] = l], call' = [call EXCEPT ![p] = c],
         UNCHANGED <<thread, nextTid, past>>, array' \in Program, Room'
  PROVE  Inv'
<1>1. /\ pc' \in [Page -> Labels] /\ pc'[p] = l /\ \A q \in Page : q # p => pc'[q] = pc[q]
      /\ call' \in [Page -> Call] /\ call'[p] = c /\ \A q \in Page : q # p => call'[q] = call[q]
      /\ thread' = thread /\ nextTid' = nextTid /\ past' = past
  BY DEF Inv, TypeOK, LocalOK, Call, Labels
<1>2. Live' = Live /\ Known' = Known
  BY <1>1 DEF Live, Known
<1>3. TypeOK'
  BY <1>1 DEF Inv, TypeOK, Call
<1>4. PagesOK'
  BY <1>1, <1>2 DEF Inv, PagesOK, LocalOK
<1>5. MainOK'
  BY <1>1 DEF Inv, MainOK, LocalOK
<1>6. CallsOK'
  BY <1>1, <1>2 DEF Inv, CallsOK, LocalOK, InWait
<1>7. DeadOK'
  BY <1>1, <1>2 DEF Inv, DeadOK, LocalOK
<1>8. Kept'
  BY <1>1, <1>2 DEF Inv, Kept, LocalOK, Own, Spared
<1>9. ASSUME NEW q \in Page, WaitsForOwn(q)', q # p \/ (InWait(p) /\ c = call[p])
      PROVE  WaitsForOwn(q) /\ call'[q] = call[q]
  BY <1>1, <1>9 DEF WaitsForOwn, InWait
<1>10. Reads'
  BY <1>1, <1>9 DEF Inv, Reads, LocalOK, WaitsForOwn, InWait
<1>11. Woken'
  <2> SUFFICES ASSUME NEW q \in Page, pc'[q] = "sleep", WaitsForOwn(q)',
                      thread[call'[q].target].dead, pc'[call'[q].target] # "notify"
               PROVE  thread[q].onChild > 0
    BY <1>1 DEF Woken
  <2>1. q # p
    BY <1>1 DEF LocalOK
  <2>2. WaitsForOwn(q) /\ call'[q] = call[q] /\ pc[q] = "sleep" /\ call[q].target \in Page
    BY <1>1, <1>9, <2>1 DEF Inv, CallsOK, InWait
  <2>3. thread[call[q].target].parent = q /\ q \in Live
    BY <2>2 DEF Inv, Reads, PagesOK, Live
  <2>4. pc[call[q].target] # "notify"
    BY <1>1, <2>2, <2>3 DEF LocalOK
  <2> QED  BY <2>2, <2>4 DEF Inv, Woken
<1>12. LoadsOK'
  <2>1. ASSUME NEW q \in Page, pc'[q] \in {"load", "loading"}
        PROVE  pc[q] \in {"load", "loading"}
    BY <1>1, <2>1 DEF LocalOK
  <2>2. \A q \in Page : q # Main /\ pc[q] = "created" => q # p
    BY DEF LocalOK
  <2>3. \A q \in Page : q # Main /\ pc'[q] = "created" => q # p \/ call'[q].eax = -1
    BY <1>1 DEF LocalOK
  <2>4. \A q \in Page : thread[q].onLoad \in Nat /\ (q = p => pc[q] # "created" \/ q = Main)
    BY DEF Inv, TypeOK, LocalOK
  <2>5. ASSUME NEW q \in Page, pc'[q] \in {"load", "loading"}
        PROVE  LET r == thread[q].parent IN
               /\ r \in Live /\ past.maker[thread[q].tid] = thread[r].tid
               /\ thread[q].tid \notin past.loaded
               /\ r # Main => pc'[r] = "created" /\ call'[r].eax = thread[q].tid /\ thread[r].onLoad = 0
    <3>1. thread[q].parent \in Page
      BY <2>1, <2>5 DEF Inv, LoadsOK, Live
    <3> QED  BY <1>1, <2>1, <2>2, <2>5, <3>1 DEF Inv, LoadsOK
  <2>6. ASSUME NEW q \in Page, q # Main
        PROVE  IF pc'[q] # "created" THEN thread[q].onLoad = 0
               ELSE /\ thread[q].onLoad <= 1
                    /\ call'[q].eax # -1 =>
                         /\ call'[q].eax \in Known /\ past.maker[call'[q].eax] = thread[q].tid
                         /\ thread[q].onLoad > 0 => (thread[q].valid <=> call'[q].eax \in past.loaded)
    BY <1>1, <2>3, <2>4, <2>6 DEF Inv, LoadsOK
  <2> QED  BY <1>1, <1>2, <2>5, <2>6 DEF LoadsOK
<1> QED  BY <1>3, <1>4, <1>5, <1>6, <1>7, <1>8, <1>10, <1>11, <1>12 DEF Inv

Thread == [tid : 0..MaxTid, parent : Page \cup {Null}, dead : BOOLEAN, status : Statuses,
           canDie : Nat, onChild : Nat, onLoad : Nat, valid : BOOLEAN]

LEMMA FreshIs ==
  ASSUME NEW t \in 0..MaxTid, NEW p \in Page \cup {Null}
  PROVE  LET f == Fresh(t, p) IN
         /\ f \in Thread
         /\ f.tid = t /\ f.parent = p /\ ~f.dead /\ f.status = -1
         /\ f.canDie = 0 /\ f.onChild = 0 /\ f.onLoad = 0
BY Numbers DEF Fresh, Thread

LEMMA FreedIs ==
  /\ Freed \in Thread
  /\ Freed.tid = 0 /\ Freed.parent = Null /\ Freed.dead /\ Freed.status = -1
  /\ Freed.canDie = 0 /\ Freed.onLoad = 0
<1>1. PICK f : f = Fresh(0, Null)
  OBVIOUS
<1>2. /\ f \in Thread
      /\ f.tid = 0 /\ f.parent = Null /\ f.status = -1 /\ f.canDie = 0 /\ f.onLoad = 0
  BY <1>1, FreshIs, Numbers
<1>3. Freed = [f EXCEPT !.dead = TRUE]
  BY <1>1 DEF Freed
<1> QED  BY <1>2, <1>3 DEF Thread

LEMMA InitInv == Init => Inv
<1> SUFFICES ASSUME Init PROVE Inv
  OBVIOUS
<1>1. /\ Freed.tid = 0 /\ Freed.parent = Null /\ Freed.dead /\ Freed.status = -1
      /\ Freed.canDie = 0 /\ Freed.onLoad = 0
  BY FreedIs
<1>2. LET f == Fresh(1, Null) IN
      f.tid = 1 /\ f.parent = Null /\ ~f.dead /\ f.status = -1 /\ f.canDie = 0 /\ f.onLoad = 0
  BY FreshIs, Numbers, PageAssumption
<1>3. \A p \in Page : thread[p] = IF p = Main THEN Fresh(1, Null) ELSE Freed
  BY DEF Init
<1>4. \A p \in Page : pc[p] = IF p = Main THEN "task" ELSE "free"
  BY DEF Init
<1>5. Live = {Main} /\ nextTid = 2 /\ Known = {1} /\ Pending = {}
  BY <1>1, <1>2, <1>3, <1>4, PageAssumption DEF Live, Known, Pending, Init
<1>6. TypeOK
  <2>1. Fresh(1, Null) \in Thread
    BY FreshIs, Numbers
  <2>3. thread \in [Page -> Thread]
    BY <2>1, FreedIs DEF Init
  <2>2. pc \in [Page -> Labels] /\ call \in [Page -> Call] /\ array \in Program
    BY Numbers DEF Init, Labels, Call, Returned
  <2> QED  BY <2>3, <2>2, <1>5, Numbers DEF TypeOK, Init, Call, Thread
<1>7. PagesOK /\ MainOK
  BY <1>1, <1>2, <1>3, <1>4, <1>5, PageAssumption DEF PagesOK, MainOK, Init
<1>8. Room
  BY <1>5, Numbers, FS_EmptySet DEF Room
<1>9. CallsOK /\ Reads /\ Woken
  BY <1>4 DEF CallsOK, Reads, Woken, WaitsForOwn, InWait
<1>10. DeadOK /\ Kept
  BY <1>2, <1>3, <1>4, <1>5, PageAssumption DEF DeadOK, Kept, Own
<1>11. LoadsOK
  BY <1>1, <1>2, <1>3, <1>4 DEF LoadsOK
<1> QED  BY <1>6, <1>7, <1>8, <1>9, <1>10, <1>11 DEF Inv

LEMMA Unchanged ==
  ASSUME TypeOK, NEW p \in Page
  PROVE  call = [call EXCEPT ![p] = call[p]] /\ call[p] \in Call
BY DEF TypeOK, Call

LEMMA Alive ==
  ASSUME Inv, NEW p \in Page, pc[p] # "free"
  PROVE  /\ p \in Live
         /\ thread[p].dead => pc[p] \in {"notify", "zombie", "close", "die"}
BY DEF Inv, PagesOK, DeadOK, Live

LEMMA NoThread == \A p \in Page \cup {Null} : IsThread(p) <=> p \in Live
BY PageAssumption DEF IsThread, Live

LEMMA RunTaskOK ==
  ASSUME Inv, NEW c \in Exists, RunTask(c)
  PROVE  Inv'
<1> DEFINE d == [call[Main] EXCEPT !.cmd = c]
<1>1. Main \in Page /\ c \in Program /\ pc[Main] = "task" /\ pc' = [pc EXCEPT ![Main] = "copy"]
      /\ array' \in Program /\ UNCHANGED <<thread, nextTid, past>>
  BY PageAssumption, ProgramAssumption DEF RunTask, Goto, Inv, TypeOK
<1>2. call' = [call EXCEPT ![Main] = d] /\ d \in Call /\ d.cmd = c
  BY <1>1, ZenonT(40) DEF RunTask, Inv, TypeOK, Call
<1>3. LocalOK(Main, "copy", d)
  BY <1>1, <1>2, Alive DEF LocalOK
<1>4. Room'
  <2>1. PICK S : S = Pending'
    OBVIOUS
  <2>2. S = {Main}
    BY <1>1, <2>1 DEF Pending, Inv, MainOK, TypeOK
  <2>3. Cardinality(S) = 1
    BY <2>2, FS_Singleton
  <2>4. nextTid' = 2
    BY <1>1 DEF Inv, MainOK
  <2> QED  BY <2>1, <2>3, <2>4, Numbers DEF Room
<1> HIDE DEF d
<1> QED  BY <1>1, <1>2, <1>3, <1>4, LocalStep

LEMMA ExecCallOK ==
  ASSUME Inv, NEW p \in Page, NEW c \in Program, ExecCall(p, c)
  PROVE  Inv'
<1> DEFINE d == [call[p] EXCEPT !.cmd = c]
<1>1. pc[p] = "user" /\ pc' = [pc EXCEPT ![p] = "open"] /\ p # Main
      /\ array' \in Program /\ UNCHANGED <<thread, nextTid, past>>
  BY DEF ExecCall, Goto, Inv, TypeOK, MainOK
<1>2. call' = [call EXCEPT ![p] = d] /\ d \in Call /\ d.cmd = c
  BY ZenonT(40) DEF ExecCall, Inv, TypeOK, Call
<1>3. LocalOK(p, "open", d)
  BY <1>1, <1>2, Alive DEF LocalOK, Labels
<1>4. Room'
  <2>1. PICK S, T : S = Pending' /\ T = Pending
    OBVIOUS
  <2>2. S = T \cup {p} /\ p \notin T
    BY <1>1, <2>1 DEF Pending, Inv, TypeOK
  <2>3. Cardinality(S) = Cardinality(T) + 1 /\ Cardinality(T) \in Nat
    BY <2>1, <2>2, PendingIs, FS_AddElement
  <2>4. nextTid + Cardinality(T) <= MaxTid /\ nextTid' = nextTid /\ nextTid \in Nat
    BY <1>1, <2>1, Numbers DEF ExecCall, Inv, TypeOK
  <2> QED  BY <2>1, <2>3, <2>4, Numbers DEF Room
<1> HIDE DEF d
<1> QED  BY <1>1, <1>2, <1>3, <1>4, LocalStep

LEMMA ExecOpenOK ==
  ASSUME Inv, NEW p \in Page, ExecOpen(p)
  PROVE  Inv'
<1>1. PICK l, c : /\ \/ l = "copy" /\ c = call[p]
                     \/ l = "user" /\ c = Returned(-1)
                  /\ pc' = [pc EXCEPT ![p] = l] /\ call' = [call EXCEPT ![p] = c]
  <2>1. CASE array \in Exists
    <3>1. pc' = [pc EXCEPT ![p] = "copy"] /\ call' = call
      BY <2>1 DEF ExecOpen, Goto
    <3>2. call = [call EXCEPT ![p] = call[p]]
      BY Unchanged DEF Inv
    <3>3. call' = [call EXCEPT ![p] = call[p]]
      BY <3>1, <3>2
    <3> WITNESS "copy", call[p]
    <3> QED  BY <3>1, <3>3
  <2>2. CASE array \notin Exists
    BY <2>2 DEF ExecOpen, Goto, Returns
  <2> QED  BY <2>1, <2>2
<1>2. pc[p] = "open" /\ p # Main /\ array' \in Program /\ UNCHANGED <<thread, nextTid, past>>
  BY DEF ExecOpen, Inv, TypeOK, MainOK
<1>3. LocalOK(p, l, c)
  BY <1>1, <1>2, Alive, Unchanged, Numbers DEF LocalOK, Labels, Call, Returned, Inv, CallsOK
<1>4. Room'
  BY <1>1, <1>2, RoomKept DEF Pending, Inv, TypeOK
<1> QED  BY <1>1, <1>2, <1>3, <1>4, LocalStep

LEMMA ExecCopyOK ==
  ASSUME Inv, NEW p \in Page, ExecCopy(p)
  PROVE  Inv'
<1>1. PICK l, c : /\ \/ l = "create" /\ c = call[p]
                     \/ l = "created" /\ c = Returned(-1)
                  /\ pc' = [pc EXCEPT ![p] = l] /\ call' = [call EXCEPT ![p] = c]
  <2>1. CASE Live = Page
    BY <2>1 DEF ExecCopy, Goto, Returns
  <2>2. CASE Live # Page
    <3>1. pc' = [pc EXCEPT ![p] = "create"] /\ call' = call
      BY <2>2 DEF ExecCopy, Goto
    <3>2. call = [call EXCEPT ![p] = call[p]]
      BY Unchanged DEF Inv
    <3>3. call' = [call EXCEPT ![p] = call[p]]
      BY <3>1, <3>2
    <3> WITNESS "create", call[p]
    <3> QED  BY <3>1, <3>3
  <2> QED  BY <2>1, <2>2
<1>2. pc[p] = "copy" /\ array' \in Program /\ UNCHANGED <<thread, nextTid, past>>
  BY DEF ExecCopy, Inv, TypeOK, CallsOK
<1>3. LocalOK(p, l, c)
  BY <1>1, <1>2, Alive, Unchanged, Numbers DEF LocalOK, Labels, Call, Returned, Inv, CallsOK
<1>4. Room'
  BY <1>1, <1>2, RoomKept DEF Pending, Inv, TypeOK
<1> QED  BY <1>1, <1>2, <1>3, <1>4, LocalStep

LEMMA ThreadCreateFailsOK ==
  ASSUME Inv, NEW p \in Page, ThreadCreateFails(p)
  PROVE  Inv'
<1>1. PICK c : c = Returned(-1)
  OBVIOUS
<1>2. /\ pc[p] = "create" /\ array' \in Program /\ UNCHANGED <<thread, nextTid, past>>
      /\ pc' = [pc EXCEPT ![p] = "created"] /\ call' = [call EXCEPT ![p] = c]
  BY <1>1 DEF ThreadCreateFails, Inv, TypeOK, Goto, Returns
<1>3. LocalOK(p, "created", c)
  BY <1>1, <1>2, Alive, Numbers DEF LocalOK, Labels, Call, Returned
<1>4. Room'
  BY <1>2, RoomKept DEF Pending, Inv, TypeOK
<1> QED  BY <1>2, <1>3, <1>4, LocalStep

LEMMA LoadOpenOK ==
  ASSUME Inv, NEW p \in Page, LoadOpen(p)
  PROVE  Inv'
<1>1. PICK c : c = [call[p] EXCEPT !.cmd = array]
  OBVIOUS
<1>2. /\ pc[p] = "load" /\ p # Main /\ array' \in Program /\ UNCHANGED <<thread, nextTid, past>>
      /\ pc' = [pc EXCEPT ![p] = "loading"]
  BY <1>1 DEF LoadOpen, Inv, TypeOK, Goto, MainOK
<1>3. call' = [call EXCEPT ![p] = c] /\ c \in Call
  BY <1>1, ZenonT(40) DEF LoadOpen, Inv, TypeOK, Call
<1>4. LocalOK(p, "loading", c)
  BY <1>2, <1>3, Alive DEF LocalOK, Labels
<1>5. Room'
  BY <1>2, RoomKept DEF Pending, Inv, TypeOK
<1> QED  BY <1>2, <1>3, <1>4, <1>5, LocalStep

LEMMA WaitCallOK ==
  ASSUME Inv, NEW p \in Page, NEW t, WaitCall(p, t)
  PROVE  Inv'
<1>1. PICK l, c :
        /\ \/ l = "halt" /\ p = Main /\ c = Returned(-1)
           \/ l = "user" /\ p # Main /\ c = Returned(-1)
           \/ l = "check" /\ \E q \in Child(p, t) : c = [call[p] EXCEPT !.want = t, !.target = q]
        /\ pc' = [pc EXCEPT ![p] = l] /\ call' = [call EXCEPT ![p] = c]
  <2>1. CASE Child(p, t) = {}
    BY <2>1 DEF WaitCall, Goto, Returns
  <2>2. CASE Child(p, t) # {}
    <3>1. PICK q \in Child(p, t) : /\ call' = [call EXCEPT ![p].want = t, ![p].target = q]
                                   /\ pc' = [pc EXCEPT ![p] = "check"]
      BY <2>2 DEF WaitCall, Goto
    <3>2. call' = [call EXCEPT ![p] = [call[p] EXCEPT !.want = t, !.target = q]]
      BY <3>1 DEF Inv, TypeOK
    <3> QED  BY <3>1, <3>2
  <2> QED  BY <2>1, <2>2
<1>2. /\ pc[p] = "user" \/ (pc[p] = "created" /\ p = Main)
      /\ array' \in Program /\ UNCHANGED <<thread, nextTid, past>>
  BY DEF WaitCall, Inv, TypeOK
<1>3. p = Main => pc[p] # "user"
  BY DEF Inv, MainOK
<1>4. LocalOK(p, l, c)
  <2>1. CASE l # "check"
    <3>2. c = Returned(-1) /\ l \in {"halt", "user"} /\ (p = Main <=> l = "halt")
      BY <1>1, <2>1
    <3>1. c \in Call /\ l \in {"halt", "user"} /\ (p = Main <=> l = "halt")
      BY <3>2, Numbers DEF Call, Returned
    <3> QED  BY <1>2, <1>3, <3>1, Alive DEF LocalOK, Labels
  <2>2. CASE l = "check"
    <3>1. PICK q \in Child(p, t) : c = [call[p] EXCEPT !.want = t, !.target = q]
      BY <1>1, <2>2
    <3>2. q \in Page /\ thread[q].tid = t /\ t # 0 /\ thread[q].parent = p /\ t < nextTid
      BY DEF Child, Live, Inv, PagesOK
    <3>3. t \in 0..MaxTid /\ t \in Known
      BY <3>2, Numbers DEF Inv, TypeOK, Known
    <3>4. c \in Call /\ c.want = t /\ c.target = q
      BY <3>1, <3>2, <3>3, ZenonT(40) DEF Inv, TypeOK, Call
    <3> QED  BY <1>2, <1>3, <2>2, <3>2, <3>3, <3>4, Alive DEF LocalOK, Labels
  <2> QED  BY <2>1, <2>2
<1>5. Room'
  BY <1>1, <1>2, RoomKept DEF Pending, Inv, TypeOK
<1> QED  BY <1>1, <1>2, <1>4, <1>5, LocalStep

LEMMA WaitCheckOK ==
  ASSUME Inv, NEW p \in Page, WaitCheck(p)
  PROVE  Inv'
<1>1. /\ pc[p] = "check" /\ array' \in Program /\ UNCHANGED <<thread, nextTid, past>>
      /\ pc' = [pc EXCEPT ![p] = "sleep"] /\ call' = [call EXCEPT ![p] = call[p]]
      /\ ~thread[call[p].target].dead
  BY Unchanged DEF WaitCheck, Inv, TypeOK, Goto
<1>2. LocalOK(p, "sleep", call[p])
  BY <1>1, Alive, Unchanged DEF LocalOK, Labels, InWait, Inv, CallsOK
<1>3. Room'
  BY <1>1, RoomKept DEF Pending, Inv, TypeOK
<1> QED  BY <1>1, <1>2, <1>3, LocalStep

\* The three places where a pointer to a freed page is met.
LEMMA FaultOK ==
  ASSUME Inv, NEW p \in Page, NEW l, UNCHANGED <<thread, call, array, nextTid, past>>,
         pc' = [pc EXCEPT ![p] = l],
         \/ pc[p] = "check" /\ l = "fault"
         \/ pc[p] \in {"user", "fault", "notify"} /\ l = "close" /\ ~IsThread(thread[p].parent)
  PROVE  Inv'
<1>1. call' = [call EXCEPT ![p] = call[p]] /\ call[p] \in Call /\ array' \in Program
  BY Unchanged DEF Inv, TypeOK
<1>2. thread[p].parent \in Page \cup {Null}
  BY DEF Inv, TypeOK
<1>3. LocalOK(p, l, call[p])
  BY <1>1, <1>2, Alive, NoThread DEF LocalOK, Labels, Inv, MainOK
<1>4. Room'
  BY RoomKept DEF Pending, Inv, TypeOK
<1> QED  BY <1>1, <1>3, <1>4, LocalStep

LEMMA MainExitOK ==
  ASSUME Inv, ThreadExit(Main)
  PROVE  Inv'
<1>1. PICK c : c = Returned(0)
  OBVIOUS
<1>2. /\ Main \in Page /\ pc[Main] = "die" /\ array' \in Program /\ UNCHANGED <<thread, nextTid, past>>
      /\ pc' = [pc EXCEPT ![Main] = "ended"] /\ call' = [call EXCEPT ![Main] = c]
  BY <1>1, PageAssumption DEF ThreadExit, Inv, TypeOK, Goto, Returns
<1>3. LocalOK(Main, "ended", c)
  BY <1>1, <1>2, Numbers DEF LocalOK, Labels, Call, Returned, Inv, MainOK
<1>4. Room'
  BY <1>2, RoomKept DEF Pending, Inv, TypeOK
<1> QED  BY <1>2, <1>3, <1>4, LocalStep

-----------------------------------------------------------------------------
(* What a thread does to others: one lemma per part that many steps keep.  *)
(* The thread in p goes on to l with c as its call; threads stay where     *)
(* they are and who they are.                                              *)

Same ==
  /\ \A q \in Page : thread'[q].tid = thread[q].tid /\ thread'[q].parent = thread[q].parent
  /\ nextTid' = nextTid /\ past'.maker = past.maker
  /\ past.killed \subseteq past'.killed /\ past.failed \subseteq past'.failed
  /\ past.reaped \subseteq past'.reaped

Goes(p, l, c) ==
  /\ pc' = [pc EXCEPT ![p] = l] /\ call' = [call EXCEPT ![p] = c]
  /\ pc[p] \notin {"free", "task", "die", "ended"}
  /\ l \in Labels \ {"free", "task", "open", "copy", "create", "created", "load", "loading",
                     "sleep", "ended"}
  /\ l = "halt" => p = Main
  /\ p = Main => l \in {"check", "die", "halt"}
  /\ l = "check" => InWait(p) /\ c = call[p]

LEMMA SameLive ==
  ASSUME Same
  PROVE  Live' = Live /\ Known' = Known /\ (\A p, q \in Page : Own(p, q)' <=> Own(p, q))
         /\ \A t : Spared(t)' => Spared(t)
BY DEF Same, Live, Known, Own, Spared

LEMMA GoesTo ==
  ASSUME Inv, NEW p \in Page, NEW l, NEW c, Goes(p, l, c)
  PROVE  /\ pc'[p] = l /\ \A q \in Page : q # p => pc'[q] = pc[q] /\ call'[q] = call[q]
         /\ call'[p] = c
BY DEF Inv, TypeOK, Goes

LEMMA SameStep ==
  ASSUME Inv, NEW p \in Page, NEW l, NEW c, Goes(p, l, c), Same, TypeOK',
         past'.loaded \subseteq Known, ~thread'[Main].dead
  PROVE  PagesOK' /\ MainOK' /\ Room' /\ CallsOK' /\ Reads'
<1>1. /\ pc'[p] = l /\ \A q \in Page : q # p => pc'[q] = pc[q] /\ call'[q] = call[q]
      /\ call'[p] = c
  BY GoesTo
<1>2. Live' = Live /\ Known' = Known
  BY SameLive
<1>3. PagesOK'
  BY <1>1, <1>2 DEF Inv, PagesOK, Goes, Same, Live
<1>4. MainOK'
  BY <1>1, PageAssumption DEF Inv, MainOK, Goes, Same, Labels
<1>5. Room'
  BY <1>1, RoomKept DEF Inv, Pending, Goes, Same
<1>6. CallsOK'
  BY <1>1, <1>2 DEF Inv, CallsOK, Goes, InWait
<1>7. ASSUME NEW q \in Page, WaitsForOwn(q)'
      PROVE  WaitsForOwn(q) /\ call'[q] = call[q]
  BY <1>1, <1>7 DEF WaitsForOwn, InWait, Goes, Same
<1>8. Reads'
  BY <1>7 DEF Inv, Reads, Same, CallsOK, WaitsForOwn
<1> QED  BY <1>3, <1>4, <1>5, <1>6, <1>8

LEMMA DeadKept ==
  ASSUME Inv, NEW p \in Page, NEW l, NEW c, Goes(p, l, c), Same,
         \A q \in Page : thread'[q].dead = thread[q].dead /\ thread'[q].status = thread[q].status,
         l = "zombie" => pc[p] = "notify", l # "notify",
         l \notin {"zombie", "close", "die"} => ~thread[p].dead
  PROVE  DeadOK'
<1>1. /\ pc'[p] = l /\ \A q \in Page : q # p => pc'[q] = pc[q]
  BY GoesTo
<1> QED  BY <1>1, SameLive DEF Inv, DeadOK, Same, Live

LEMMA WokenKept ==
  ASSUME Inv, NEW p \in Page, NEW l, NEW c, Goes(p, l, c), Same, TypeOK',
         \A q \in Page : q = p \/ thread'[q].onChild >= thread[q].onChild,
         \A q \in Page : thread'[q].dead => thread[q].dead \/ (q = p /\ l = "notify"),
         pc[p] = "notify" => \A q \in Page : thread[p].parent = q => thread'[q].onChild > 0
  PROVE  Woken'
<1>1. /\ pc'[p] = l /\ \A q \in Page : q # p => pc'[q] = pc[q] /\ call'[q] = call[q]
  BY GoesTo
<1> SUFFICES ASSUME NEW q \in Page, pc'[q] = "sleep", WaitsForOwn(q)',
                    thread'[call'[q].target].dead, pc'[call'[q].target] # "notify"
             PROVE  thread'[q].onChild > 0
  BY DEF Woken
<1>2. q # p /\ pc[q] = "sleep" /\ call'[q] = call[q]
  BY <1>1 DEF Goes
<1>3. WaitsForOwn(q) /\ call[q].target \in Page
  BY <1>2 DEF WaitsForOwn, InWait, Same, Inv, CallsOK
<1>4. thread[call[q].target].parent = q
  BY <1>3 DEF Inv, Reads
<1>5. thread[call[q].target].dead
  BY <1>1, <1>2, <1>3
<1>6. thread'[q].onChild >= thread[q].onChild
  BY <1>2
<1>7. thread[q].onChild \in Nat /\ thread'[q].onChild \in Nat
  BY DEF Inv, TypeOK
<1>8. CASE pc[call[q].target] # "notify"
  BY <1>2, <1>3, <1>5, <1>6, <1>7, <1>8 DEF Inv, Woken
<1>9. CASE pc[call[q].target] = "notify"
  BY <1>1, <1>2, <1>3, <1>4, <1>9
<1> QED  BY <1>8, <1>9

LEMMA LoadsKept ==
  ASSUME Inv, NEW p \in Page, NEW l, NEW c, Goes(p, l, c), Same, past'.loaded = past.loaded,
         \A q \in Page : thread'[q].onLoad = thread[q].onLoad /\ thread'[q].valid = thread[q].valid,
         pc[p] = "created" => p = Main
  PROVE  LoadsOK'
<1>1. /\ pc'[p] = l /\ \A q \in Page : q # p => pc'[q] = pc[q] /\ call'[q] = call[q]
      /\ l \notin {"load", "loading", "created"}
  BY GoesTo DEF Goes
<1>2. Live' = Live /\ Known' = Known
  BY SameLive
<1>3. ASSUME NEW q \in Page, pc'[q] \in {"load", "loading"}
      PROVE  LET r == thread'[q].parent IN
             /\ r \in Live /\ past'.maker[thread'[q].tid] = thread'[r].tid
             /\ thread'[q].tid \notin past'.loaded
             /\ r # Main => pc'[r] = "created" /\ call'[r].eax = thread'[q].tid /\ thread'[r].onLoad = 0
  <2>1. q # p /\ pc[q] \in {"load", "loading"}
    BY <1>1, <1>3
  <2>2. PICK r \in Live : r = thread[q].parent
    BY <2>1 DEF Inv, LoadsOK
  <2>3. /\ past.maker[thread[q].tid] = thread[r].tid /\ thread[q].tid \notin past.loaded
        /\ r # Main => pc[r] = "created" /\ call[r].eax = thread[q].tid /\ thread[r].onLoad = 0
    BY <2>1, <2>2 DEF Inv, LoadsOK
  <2>4. r \in Page /\ thread'[q].parent = r /\ (r # Main => r # p)
    BY <2>2, <2>3 DEF Live, Same
  <2> QED  BY <1>1, <2>2, <2>3, <2>4 DEF Same
<1>4. ASSUME NEW q \in Page \ {Main}
      PROVE  IF pc'[q] # "created" THEN thread'[q].onLoad = 0
             ELSE /\ thread'[q].onLoad <= 1
                  /\ call'[q].eax # -1 =>
                       /\ call'[q].eax \in Known /\ past'.maker[call'[q].eax] = thread'[q].tid
                       /\ thread'[q].onLoad > 0 => (thread'[q].valid <=> call'[q].eax \in past'.loaded)
  <2>1. CASE q = p
    BY <1>1, <2>1 DEF Inv, LoadsOK
  <2>2. CASE q # p
    BY <1>1, <2>2 DEF Inv, LoadsOK, Same
  <2> QED  BY <2>1, <2>2
<1> QED  BY <1>2, <1>3, <1>4 DEF LoadsOK

-----------------------------------------------------------------------------
(* wait *)

LEMMA Types ==
  ASSUME Inv
  PROVE  /\ thread \in [Page -> Thread] /\ pc \in [Page -> Labels] /\ call \in [Page -> Call]
         /\ \A p \in Page : thread[p] \in Thread
         /\ \A t \in Statuses : Returned(t) \in Call
BY Numbers DEF Inv, TypeOK, Thread, Call, Returned

Past == [maker : [1..MaxTid -> 0..MaxTid], loaded : SUBSET (1..MaxTid),
         failed : SUBSET (1..MaxTid), killed : SUBSET (1..MaxTid), reaped : SUBSET (1..MaxTid)]

LEMMA PastKept ==
  ASSUME NEW r \in Past, NEW t \in 1..MaxTid
  PROVE  /\ [r EXCEPT !.loaded = @ \cup {t}] \in Past
         /\ [r EXCEPT !.failed = @ \cup {t}] \in Past
         /\ [r EXCEPT !.killed = @ \cup {t}] \in Past
         /\ [r EXCEPT !.reaped = @ \cup {t}] \in Past
BY DEF Past

LEMMA TypeStep ==
  ASSUME Inv, NEW p \in Page, NEW l, NEW c, Goes(p, l, c), c \in Call, nextTid' = nextTid,
         thread' \in [Page -> Thread], array' \in Program,
         NEW t \in 1..MaxTid,
         \/ past' = past
         \/ past' = [past EXCEPT !.loaded = @ \cup {t}]
         \/ past' = [past EXCEPT !.failed = @ \cup {t}]
         \/ past' = [past EXCEPT !.killed = @ \cup {t}]
         \/ past' = [past EXCEPT !.reaped = @ \cup {t}]
  PROVE  TypeOK'
<1>1. pc' \in [Page -> Labels]
  BY DEF Goes, Inv, TypeOK
<1>2. call' \in [Page -> Call]
  BY Types DEF Goes
<1>3. past \in Past
  BY DEF Inv, TypeOK, Past
<1>4. past' \in Past
  BY <1>3, PastKept
<1> QED  BY <1>1, <1>2, <1>4 DEF Inv, TypeOK, Thread, Call, Past

LEMMA WaitWokenOK ==
  ASSUME Inv, NEW p \in Page, WaitWoken(p)
  PROVE  Inv'
<1>1. /\ pc[p] = "sleep" /\ thread[p].onChild > 0
      /\ thread' = [thread EXCEPT ![p].onChild = @ - 1]
      /\ UNCHANGED <<array, nextTid, past>>
      /\ call' = [call EXCEPT ![p] = call[p]] /\ pc' = [pc EXCEPT ![p] = "check"]
  BY Unchanged DEF WaitWoken, Goto, Inv
<1>2. Goes(p, "check", call[p])
  BY <1>1 DEF Goes, Labels, InWait
<1>3. /\ thread' \in [Page -> Thread]
      /\ \A q \in Page : q # p => thread'[q] = thread[q]
      /\ \A q \in Page : /\ thread'[q].tid = thread[q].tid /\ thread'[q].parent = thread[q].parent
                         /\ thread'[q].dead = thread[q].dead /\ thread'[q].status = thread[q].status
                         /\ thread'[q].canDie = thread[q].canDie
                         /\ thread'[q].onLoad = thread[q].onLoad /\ thread'[q].valid = thread[q].valid
  BY <1>1, Types DEF Thread
<1>4. Same /\ TypeOK'
  <2>1. Same
    BY <1>1, <1>3 DEF Same
  <2>2. 1 \in 1..MaxTid /\ call[p] \in Call /\ array' \in Program
    BY <1>1, Types, Numbers DEF Inv, TypeOK
  <2> QED  BY <1>1, <1>2, <1>3, <2>1, <2>2, TypeStep
<1>5. ~thread[p].dead
  BY <1>1, Alive
<1>6. PagesOK' /\ MainOK' /\ Room' /\ CallsOK' /\ Reads'
  BY <1>1, <1>2, <1>3, <1>4, SameStep, PageAssumption DEF Inv, PagesOK, MainOK
<1>7. DeadOK'
  BY <1>2, <1>3, <1>4, <1>5, DeadKept
<1>8. Kept'
  BY <1>1, <1>2, <1>3, <1>4, SameLive, GoesTo DEF Inv, Kept, Live
<1>9. Woken'
  <2>1. \A q \in Page : q = p \/ thread'[q].onChild >= thread[q].onChild
    BY <1>3 DEF Inv, TypeOK
  <2> QED  BY <1>1, <1>2, <1>3, <1>4, <2>1, WokenKept
<1>10. LoadsOK'
  BY <1>1, <1>2, <1>3, <1>4, LoadsKept
<1> QED  BY <1>4, <1>6, <1>7, <1>8, <1>9, <1>10 DEF Inv

LEMMA WaitReapOK ==
  ASSUME Inv, NEW p \in Page, WaitReap(p)
  PROVE  Inv'
<1>1. PICK q : q = call[p].target
  OBVIOUS
<1>2. pc[p] = "check" /\ q \in Page /\ thread[q].dead
  BY <1>1 DEF WaitReap, Inv, CallsOK, InWait
<1>3. CASE ~IsThread(q)
  <2>1. UNCHANGED <<thread, call, array, nextTid, past>> /\ pc' = [pc EXCEPT ![p] = "fault"]
    BY <1>1, <1>3 DEF WaitReap, Goto
  <2> QED  BY <1>2, <2>1, FaultOK
<1>4. CASE IsThread(q)
  <2>1. PICK l, c, t : l = (IF p = Main THEN "halt" ELSE "user") /\ c = Returned(thread[q].status)
                       /\ t = thread[q].tid
    OBVIOUS
  <2>2. /\ thread' = [thread EXCEPT ![q].canDie = @ + 1]
        /\ past' = [past EXCEPT !.reaped = @ \cup {t}]
        /\ UNCHANGED <<array, nextTid>>
        /\ call' = [call EXCEPT ![p] = c] /\ pc' = [pc EXCEPT ![p] = l]
    BY <1>1, <1>4, <2>1 DEF WaitReap, Goto, Returns
  <2>3. t \in 1..MaxTid /\ c \in Call
    BY <1>2, <1>4, <2>1, Types, Numbers DEF IsThread, Thread
  <2>4. Goes(p, l, c)
    BY <1>2, <2>1, <2>2 DEF Goes, Labels
  <2>5. /\ thread' \in [Page -> Thread]
        /\ \A r \in Page : r # q => thread'[r] = thread[r]
        /\ \A r \in Page : /\ thread'[r].tid = thread[r].tid /\ thread'[r].parent = thread[r].parent
                           /\ thread'[r].dead = thread[r].dead /\ thread'[r].status = thread[r].status
                           /\ thread'[r].onChild = thread[r].onChild
                           /\ thread'[r].onLoad = thread[r].onLoad /\ thread'[r].valid = thread[r].valid
    BY <1>2, <2>2, Types DEF Thread
  <2>6. /\ past'.maker = past.maker /\ past'.loaded = past.loaded /\ past'.killed = past.killed
        /\ past'.failed = past.failed /\ past'.reaped = past.reaped \cup {t}
    BY <2>2 DEF Inv, TypeOK
  <2>7. Same
    BY <2>2, <2>5, <2>6 DEF Same
  <2>8. TypeOK'
    <3>1. array' \in Program
      BY <2>2 DEF Inv, TypeOK
    <3> QED  BY <2>2, <2>3, <2>4, <2>5, <3>1, TypeStep
  <2>9. ~thread[p].dead
    BY <1>2, Alive
  <2>10. PagesOK' /\ MainOK' /\ Room' /\ CallsOK' /\ Reads'
    BY <2>4, <2>5, <2>6, <2>7, <2>8, SameStep, PageAssumption DEF Inv, PagesOK, MainOK
  <2>11. DeadOK'
    BY <2>1, <2>4, <2>5, <2>7, <2>9, DeadKept
  <2>12. Kept'
    <3>1. l \notin {"close", "die", "ended"}
      BY <2>1
    <3> QED  BY <1>2, <2>1, <2>4, <2>5, <2>6, <2>7, <3>1, SameLive, GoesTo DEF Inv, Kept, Live, Spared
  <2>13. Woken'
    <3>1. \A r \in Page : thread'[r].onChild >= thread[r].onChild
      BY <2>5 DEF Inv, TypeOK
    <3> QED  BY <1>2, <2>4, <2>5, <2>7, <2>8, <3>1, WokenKept
  <2>14. LoadsOK'
    BY <1>2, <2>4, <2>5, <2>6, <2>7, LoadsKept
  <2> QED  BY <2>8, <2>10, <2>11, <2>12, <2>13, <2>14 DEF Inv
<1> QED  BY <1>3, <1>4

-----------------------------------------------------------------------------
(* exit *)

LEMMA ExitCallOK ==
  ASSUME Inv, NEW p \in Page, NEW v \in {thread[p].tid, -1, -2}, ExitCall(p, v)
  PROVE  Inv'
<1>1. pc[p] \in {"user", "fault"} /\ UNCHANGED <<call, array, nextTid, past>>
  BY DEF ExitCall
<1>2. CASE ~IsThread(thread[p].parent)
  <2>1. UNCHANGED thread /\ pc' = [pc EXCEPT ![p] = "close"]
    BY <1>2 DEF ExitCall, Goto
  <2> QED  BY <1>1, <1>2, <2>1, FaultOK
<1>3. CASE IsThread(thread[p].parent)
  <2>1. PICK w : w = IF v < -1 THEN -1 ELSE v
    OBVIOUS
  <2>2. /\ thread' = [thread EXCEPT ![p].status = w, ![p].dead = TRUE]
        /\ pc' = [pc EXCEPT ![p] = "notify"] /\ call' = [call EXCEPT ![p] = call[p]]
    BY <1>1, <1>3, <2>1, Unchanged DEF ExitCall, Goto, Inv
  <2>3. w \in {-1, thread[p].tid} /\ w \in Statuses
    <3>1. thread[p].tid \in 0..MaxTid
      BY Types DEF Thread
    <3> QED  BY <2>1, <3>1, Numbers DEF Statuses
  <2>4. p # Main
    BY <1>3 DEF Inv, MainOK, IsThread
  <2>5. Goes(p, "notify", call[p])
    BY <1>1, <2>2, <2>4 DEF Goes, Labels
  <2>6. /\ thread' \in [Page -> Thread]
        /\ \A r \in Page : r # p => thread'[r] = thread[r]
        /\ thread'[p].dead /\ thread'[p].status = w
        /\ \A r \in Page : /\ thread'[r].tid = thread[r].tid /\ thread'[r].parent = thread[r].parent
                           /\ thread'[r].canDie = thread[r].canDie
                           /\ thread'[r].onChild = thread[r].onChild
                           /\ thread'[r].onLoad = thread[r].onLoad /\ thread'[r].valid = thread[r].valid
    BY <2>2, <2>3, Types, ZenonT(40) DEF Thread
  <2>7. Same
    BY <1>1, <2>6 DEF Same
  <2>8. TypeOK'
    <3>1. array' \in Program /\ call[p] \in Call /\ 1 \in 1..MaxTid
      BY <1>1, Types, Numbers DEF Inv, TypeOK
    <3> QED  BY <1>1, <2>5, <2>6, <3>1, TypeStep
  <2>9. PagesOK' /\ MainOK' /\ Room' /\ CallsOK' /\ Reads'
    BY <1>1, <2>4, <2>5, <2>6, <2>7, <2>8, SameStep, PageAssumption DEF Inv, PagesOK, MainOK
  <2>10. DeadOK'
    BY <2>3, <2>5, <2>6, <2>7, SameLive, GoesTo DEF Inv, DeadOK, Live
  <2>11. Kept'
    BY <1>1, <2>5, <2>6, <2>7, SameLive, GoesTo DEF Inv, Kept, Live
  <2>12. Woken'
    <3>1. \A r \in Page : thread'[r].onChild >= thread[r].onChild
      BY <2>6 DEF Inv, TypeOK
    <3> QED  BY <1>1, <2>5, <2>6, <2>7, <2>8, <3>1, WokenKept
  <2>13. LoadsOK'
    BY <1>1, <2>5, <2>6, <2>7, LoadsKept
  <2> QED  BY <2>8, <2>9, <2>10, <2>11, <2>12, <2>13 DEF Inv
<1> QED  BY <1>2, <1>3

LEMMA ExitNotifyOK ==
  ASSUME Inv, NEW p \in Page, ExitNotify(p)
  PROVE  Inv'
<1>1. pc[p] = "notify" /\ UNCHANGED <<call, array, nextTid, past>>
  BY DEF ExitNotify
<1>2. CASE ~IsThread(thread[p].parent)
  <2>1. UNCHANGED thread /\ pc' = [pc EXCEPT ![p] = "close"]
    BY <1>2 DEF ExitNotify, Goto
  <2> QED  BY <1>1, <1>2, <2>1, FaultOK
<1>3. CASE IsThread(thread[p].parent)
  <2>1. PICK r \in Page : r = thread[p].parent
    BY <1>3, Types DEF Thread, IsThread
  <2>2. /\ thread' = [thread EXCEPT ![r].onChild = @ + 1]
        /\ pc' = [pc EXCEPT ![p] = "zombie"] /\ call' = [call EXCEPT ![p] = call[p]]
    BY <1>1, <1>3, <2>1, Unchanged DEF ExitNotify, Goto, Inv
  <2>4. p # Main
    BY <1>3 DEF Inv, MainOK, IsThread
  <2>5. Goes(p, "zombie", call[p])
    BY <1>1, <2>2, <2>4 DEF Goes, Labels
  <2>6. /\ thread' \in [Page -> Thread]
        /\ \A q \in Page : q # r => thread'[q] = thread[q]
        /\ thread'[r].onChild = thread[r].onChild + 1
        /\ \A q \in Page : /\ thread'[q].tid = thread[q].tid /\ thread'[q].parent = thread[q].parent
                           /\ thread'[q].dead = thread[q].dead /\ thread'[q].status = thread[q].status
                           /\ thread'[q].canDie = thread[q].canDie
                           /\ thread'[q].onLoad = thread[q].onLoad /\ thread'[q].valid = thread[q].valid
    BY <2>2, Types DEF Thread
  <2>7. Same
    BY <1>1, <2>6 DEF Same
  <2>8. TypeOK'
    <3>1. array' \in Program /\ call[p] \in Call /\ 1 \in 1..MaxTid
      BY <1>1, Types, Numbers DEF Inv, TypeOK
    <3> QED  BY <1>1, <2>5, <2>6, <3>1, TypeStep
  <2>9. PagesOK' /\ MainOK' /\ Room' /\ CallsOK' /\ Reads'
    BY <1>1, <2>5, <2>6, <2>7, <2>8, SameStep, PageAssumption DEF Inv, PagesOK, MainOK
  <2>10. DeadOK'
    BY <1>1, <2>5, <2>6, <2>7, DeadKept
  <2>11. Kept'
    BY <1>1, <2>5, <2>6, <2>7, SameLive, GoesTo DEF Inv, Kept, Live
  <2>12. Woken'
    <3>1. \A q \in Page : thread'[q].onChild >= thread[q].onChild
      BY <2>6, Types DEF Thread
    <3>2. thread'[r].onChild > 0
      BY <2>6 DEF Inv, TypeOK
    <3> QED  BY <2>1, <2>5, <2>6, <2>7, <2>8, <3>1, <3>2, WokenKept
  <2>13. LoadsOK'
    BY <1>1, <2>5, <2>6, <2>7, LoadsKept
  <2> QED  BY <2>8, <2>9, <2>10, <2>11, <2>12, <2>13 DEF Inv
<1> QED  BY <1>2, <1>3

LEMMA ExitReapedOK ==
  ASSUME Inv, NEW p \in Page, ExitReaped(p)
  PROVE  Inv'
<1>1. /\ pc[p] = "zombie" /\ thread[p].canDie > 0
      /\ thread' = [thread EXCEPT ![p].canDie = @ - 1]
      /\ UNCHANGED <<array, nextTid, past>>
      /\ call' = [call EXCEPT ![p] = call[p]] /\ pc' = [pc EXCEPT ![p] = "close"]
  BY Unchanged DEF ExitReaped, Goto, Inv
<1>2. Goes(p, "close", call[p])
  BY <1>1 DEF Goes, Labels, Inv, MainOK
<1>3. /\ thread' \in [Page -> Thread]
      /\ \A q \in Page : q # p => thread'[q] = thread[q]
      /\ \A q \in Page : /\ thread'[q].tid = thread[q].tid /\ thread'[q].parent = thread[q].parent
                         /\ thread'[q].dead = thread[q].dead /\ thread'[q].status = thread[q].status
                         /\ thread'[q].onChild = thread[q].onChild
                         /\ thread'[q].onLoad = thread[q].onLoad /\ thread'[q].valid = thread[q].valid
  BY <1>1, Types DEF Thread
<1>4. Same
  BY <1>1, <1>3 DEF Same
<1>5. TypeOK'
  <2>1. 1 \in 1..MaxTid /\ call[p] \in Call /\ array' \in Program
    BY <1>1, Types, Numbers DEF Inv, TypeOK
  <2> QED  BY <1>1, <1>2, <1>3, <2>1, TypeStep
<1>6. PagesOK' /\ MainOK' /\ Room' /\ CallsOK' /\ Reads'
  BY <1>1, <1>2, <1>3, <1>4, <1>5, SameStep, PageAssumption DEF Inv, PagesOK, MainOK
<1>7. DeadOK'
  BY <1>2, <1>3, <1>4, DeadKept
<1>8. Kept'
  <2>1. ASSUME NEW r \in Live, Own(r, p), Spared(thread[p].tid)
        PROVE  pc[r] \in {"die", "ended"}
    <3>1. p \in Live /\ ~(thread[p].canDie = 0)
      BY <1>1, Alive
    <3> QED  BY <2>1, <3>1 DEF Inv, Kept
  <2>2. SUFFICES ASSUME NEW r \in Live, NEW q \in Live, Own(r, q), Spared(thread[q].tid),
                        pc'[r] \notin {"die", "ended"}
                 PROVE  thread'[q].canDie = 0 /\ pc'[q] \notin {"close", "die"}
    BY <1>1, <1>3, <1>4, SameLive DEF Kept, Live, Spared
  <2>3. pc[r] \notin {"die", "ended"}
    BY <1>1, <1>2, <2>2, GoesTo DEF Live
  <2>4. q # p
    BY <2>1, <2>2, <2>3
  <2> QED  BY <1>2, <1>3, <2>2, <2>3, <2>4, GoesTo DEF Inv, Kept, Live
<1>9. Woken'
  <2>1. \A q \in Page : thread'[q].onChild >= thread[q].onChild
    BY <1>3 DEF Inv, TypeOK
  <2> QED  BY <1>1, <1>2, <1>3, <1>4, <1>5, <2>1, WokenKept
<1>10. LoadsOK'
  BY <1>1, <1>2, <1>3, <1>4, LoadsKept
<1> QED  BY <1>5, <1>6, <1>7, <1>8, <1>9, <1>10 DEF Inv

LEMMA ExitReleaseOK ==
  ASSUME Inv, NEW p \in Page, ExitRelease(p)
  PROVE  Inv'
<1>1. /\ pc[p] = "close" /\ UNCHANGED <<array, nextTid, past>>
      /\ thread' = [q \in Page |->
           IF q \in Live /\ thread[q].parent = p THEN [thread[q] EXCEPT !.canDie = @ + 1]
                                                 ELSE thread[q]]
      /\ call' = [call EXCEPT ![p] = call[p]] /\ pc' = [pc EXCEPT ![p] = "die"]
  BY Unchanged DEF ExitRelease, Goto, Inv
<1>2. Goes(p, "die", call[p])
  BY <1>1 DEF Goes, Labels
<1>3. /\ thread' \in [Page -> Thread]
      /\ \A q \in Page : thread[q].parent # p => thread'[q] = thread[q]
      /\ \A q \in Page : /\ thread'[q].tid = thread[q].tid /\ thread'[q].parent = thread[q].parent
                         /\ thread'[q].dead = thread[q].dead /\ thread'[q].status = thread[q].status
                         /\ thread'[q].onChild = thread[q].onChild
                         /\ thread'[q].onLoad = thread[q].onLoad /\ thread'[q].valid = thread[q].valid
  <2>1. ASSUME NEW q \in Page
        PROVE  /\ thread'[q] \in Thread
               /\ thread[q].parent # p => thread'[q] = thread[q]
               /\ thread'[q].tid = thread[q].tid /\ thread'[q].parent = thread[q].parent
               /\ thread'[q].dead = thread[q].dead /\ thread'[q].status = thread[q].status
               /\ thread'[q].onChild = thread[q].onChild
               /\ thread'[q].onLoad = thread[q].onLoad /\ thread'[q].valid = thread[q].valid
    BY <1>1, Types DEF Thread
  <2> QED  BY <1>1, <2>1
<1>4. Same
  BY <1>1, <1>3 DEF Same
<1>5. TypeOK'
  <2>1. 1 \in 1..MaxTid /\ call[p] \in Call /\ array' \in Program
    BY <1>1, Types, Numbers DEF Inv, TypeOK
  <2> QED  BY <1>1, <1>2, <1>3, <2>1, TypeStep
<1>6. PagesOK' /\ MainOK' /\ Room' /\ CallsOK' /\ Reads'
  BY <1>1, <1>2, <1>3, <1>4, <1>5, SameStep, PageAssumption DEF Inv, PagesOK, MainOK
<1>7. DeadOK'
  BY <1>2, <1>3, <1>4, DeadKept
<1>8. Kept'
  <2>1. SUFFICES ASSUME NEW r \in Live, NEW q \in Live, Own(r, q), Spared(thread[q].tid),
                        pc'[r] \notin {"die", "ended"}
                 PROVE  thread'[q].canDie = 0 /\ pc'[q] \notin {"close", "die"}
    BY <1>1, <1>3, <1>4, SameLive DEF Kept, Live, Spared
  <2>2. r # p /\ pc[r] \notin {"die", "ended"}
    BY <1>1, <1>2, <2>1, GoesTo DEF Live
  <2>3. thread[q].canDie = 0 /\ pc[q] \notin {"close", "die"}
    BY <2>1, <2>2 DEF Inv, Kept
  <2>4. q # p /\ thread[q].parent # p
    BY <1>1, <2>1, <2>2, <2>3 DEF Own
  <2> QED  BY <1>2, <1>3, <2>3, <2>4, GoesTo DEF Live
<1>9. Woken'
  <2>1. \A q \in Page : thread'[q].onChild >= thread[q].onChild
    BY <1>3, Types DEF Thread
  <2> QED  BY <1>1, <1>2, <1>3, <1>4, <1>5, <2>1, WokenKept
<1>10. LoadsOK'
  BY <1>1, <1>2, <1>3, <1>4, LoadsKept
<1> QED  BY <1>5, <1>6, <1>7, <1>8, <1>9, <1>10 DEF Inv

LEMMA KillOK ==
  ASSUME Inv, NEW p \in Page, Kill(p)
  PROVE  Inv'
<1>1. PICK t : t = thread[p].tid
  OBVIOUS
<1>2. /\ pc[p] = "user" /\ UNCHANGED <<thread, array, nextTid>>
      /\ past' = [past EXCEPT !.killed = @ \cup {t}]
      /\ call' = [call EXCEPT ![p] = call[p]] /\ pc' = [pc EXCEPT ![p] = "die"]
  BY <1>1, Unchanged DEF Kill, Goto, Inv
<1>3. Goes(p, "die", call[p])
  BY <1>2 DEF Goes, Labels
<1>4. /\ past'.maker = past.maker /\ past'.loaded = past.loaded /\ past'.reaped = past.reaped
      /\ past'.failed = past.failed /\ past'.killed = past.killed \cup {t}
  BY <1>2 DEF Inv, TypeOK
<1>5. Same
  BY <1>2, <1>4 DEF Same
<1>6. TypeOK'
  <2>1. thread' \in [Page -> Thread] /\ t \in 1..MaxTid /\ call[p] \in Call /\ array' \in Program
    <3>1. p \in Live
      BY <1>2, Alive
    <3>2. t \in 1..MaxTid
      BY <1>1, <3>1, Types, Numbers DEF Thread, Live
    <3> QED  BY <1>2, <3>2, Types DEF Inv, TypeOK
  <2> QED  BY <1>2, <1>3, <2>1, TypeStep
<1>7. ~thread[p].dead
  BY <1>2, Alive
<1>8. PagesOK' /\ MainOK' /\ Room' /\ CallsOK' /\ Reads'
  BY <1>2, <1>3, <1>4, <1>5, <1>6, SameStep, PageAssumption DEF Inv, PagesOK, MainOK
<1>9. DeadOK'
  BY <1>2, <1>3, <1>5, DeadKept
<1>10. Kept'
  BY <1>1, <1>2, <1>3, <1>4, <1>5, SameLive, GoesTo DEF Inv, Kept, Live, Spared
<1>11. Woken'
  <2>1. \A q \in Page : thread'[q].onChild >= thread[q].onChild
    BY <1>2, Types DEF Thread
  <2> QED  BY <1>2, <1>3, <1>5, <1>6, <2>1, WokenKept
<1>12. LoadsOK'
  BY <1>2, <1>3, <1>4, <1>5, LoadsKept
<1> QED  BY <1>6, <1>8, <1>9, <1>10, <1>11, <1>12 DEF Inv

-----------------------------------------------------------------------------
(* exec, its load and the end of a thread *)

LEMMA ExecReturnOK ==
  ASSUME Inv, NEW p \in Page, ExecReturn(p)
  PROVE  Inv'
<1>1. PICK c : c = Returned(IF thread[p].valid THEN call[p].eax ELSE -1)
  OBVIOUS
<1>2. /\ pc[p] = "created" /\ p # Main /\ thread[p].onLoad > 0
      /\ UNCHANGED <<array, nextTid, past>>
      /\ thread' = [thread EXCEPT ![p].onLoad = @ - 1]
      /\ call' = [call EXCEPT ![p] = c] /\ pc' = [pc EXCEPT ![p] = "user"]
  BY <1>1 DEF ExecReturn, Goto, Returns
<1>3. Goes(p, "user", c)
  BY <1>2 DEF Goes, Labels
<1>4. /\ thread' \in [Page -> Thread]
      /\ \A q \in Page : q # p => thread'[q] = thread[q]
      /\ thread'[p].onLoad = thread[p].onLoad - 1
      /\ \A q \in Page : /\ thread'[q].tid = thread[q].tid /\ thread'[q].parent = thread[q].parent
                         /\ thread'[q].dead = thread[q].dead /\ thread'[q].status = thread[q].status
                         /\ thread'[q].canDie = thread[q].canDie
                         /\ thread'[q].onChild = thread[q].onChild /\ thread'[q].valid = thread[q].valid
  BY <1>2, Types DEF Thread
<1>5. Same
  BY <1>2, <1>4 DEF Same
<1>6. TypeOK'
  <2>1. call[p].eax \in Statuses
    BY Types DEF Call
  <2>2. 1 \in 1..MaxTid /\ c \in Call /\ array' \in Program
    <3>1. (IF thread[p].valid THEN call[p].eax ELSE -1) \in Statuses
      BY <2>1, Numbers
    <3> QED  BY <1>1, <1>2, <3>1, Types, Numbers, SMTT(20) DEF Inv, TypeOK
  <2> QED  BY <1>2, <1>3, <1>4, <2>2, TypeStep
<1>7. ~thread[p].dead
  BY <1>2, Alive
<1>8. PagesOK' /\ MainOK' /\ Room' /\ CallsOK' /\ Reads'
  BY <1>2, <1>3, <1>4, <1>5, <1>6, SameStep, PageAssumption DEF Inv, PagesOK, MainOK
<1>9. DeadOK'
  BY <1>2, <1>3, <1>4, <1>5, <1>7, DeadKept
<1>10. Kept'
  BY <1>2, <1>3, <1>4, <1>5, SameLive, GoesTo DEF Inv, Kept, Live
<1>11. Woken'
  <2>1. \A q \in Page : thread'[q].onChild >= thread[q].onChild
    BY <1>4, Types DEF Thread
  <2> QED  BY <1>2, <1>3, <1>4, <1>5, <1>6, <2>1, WokenKept
<1>12. LoadsOK'
  <2>1. \A q \in Page : q # p => pc'[q] = pc[q] /\ call'[q] = call[q]
    BY <1>3, GoesTo
  <2>2. pc'[p] = "user" /\ thread'[p].onLoad = 0
    <3>1. thread[p].onLoad \in Nat /\ thread[p].onLoad <= 1
      BY <1>2, Types DEF Inv, LoadsOK, Thread
    <3> QED  BY <1>2, <1>3, <1>4, <3>1, GoesTo
  <2>3. ASSUME NEW q \in Page, pc'[q] \in {"load", "loading"}
        PROVE  LET r == thread'[q].parent IN
               /\ r \in Live' /\ past'.maker[thread'[q].tid] = thread'[r].tid
               /\ thread'[q].tid \notin past'.loaded
               /\ r # Main => pc'[r] = "created" /\ call'[r].eax = thread'[q].tid /\ thread'[r].onLoad = 0
    <3>1. pc[q] \in {"load", "loading"} /\ q # p
      BY <2>1, <2>2, <2>3
    <3>2. PICK r \in Live : r = thread[q].parent
      BY <3>1 DEF Inv, LoadsOK
    <3>3. /\ past.maker[thread[q].tid] = thread[r].tid /\ thread[q].tid \notin past.loaded
          /\ r # Main => pc[r] = "created" /\ call[r].eax = thread[q].tid /\ thread[r].onLoad = 0
      BY <3>1, <3>2 DEF Inv, LoadsOK
    <3>4. r # p /\ r \in Page /\ r \in Live'
      BY <1>2, <1>5, <3>3, SameLive DEF Live
    <3> QED  BY <1>2, <1>4, <2>1, <3>1, <3>2, <3>3, <3>4
  <2>4. ASSUME NEW q \in Page \ {Main}
        PROVE  IF pc'[q] # "created" THEN thread'[q].onLoad = 0
               ELSE /\ thread'[q].onLoad <= 1
                    /\ call'[q].eax # -1 =>
                         /\ call'[q].eax \in Known' /\ past'.maker[call'[q].eax] = thread'[q].tid
                         /\ thread'[q].onLoad > 0 => (thread'[q].valid <=> call'[q].eax \in past'.loaded)
    <3>1. CASE q = p
      BY <2>2, <3>1
    <3>2. CASE q # p
      BY <1>2, <1>4, <1>5, <2>1, <3>2, SameLive DEF Inv, LoadsOK
    <3> QED  BY <3>1, <3>2
  <2> QED  BY <2>3, <2>4 DEF LoadsOK
<1> QED  BY <1>6, <1>8, <1>9, <1>10, <1>11, <1>12 DEF Inv

LEMMA LoadEndOK ==
  ASSUME Inv, NEW p \in Page, LoadEnd(p)
  PROVE  Inv'
<1>1. PICK r \in Live : r = thread[p].parent
  BY DEF LoadEnd, Inv, LoadsOK
<1>2. /\ pc[p] = "loading" /\ r \in Page /\ IsThread(r)
      /\ past.maker[thread[p].tid] = thread[r].tid /\ thread[p].tid \notin past.loaded
      /\ r # Main => pc[r] = "created" /\ call[r].eax = thread[p].tid /\ thread[r].onLoad = 0
  BY <1>1, NoThread DEF LoadEnd, Inv, LoadsOK, Live
<1>3. r # p /\ p # Main
  BY <1>2 DEF Inv, MainOK
<1>a. PICK ok \in BOOLEAN :
        /\ thread' = [thread EXCEPT ![r].valid = ok, ![r].onLoad = @ + 1]
        /\ pc' = [pc EXCEPT ![p] = IF ok THEN "user" ELSE "die"]
        /\ past' = IF ok THEN [past EXCEPT !.loaded = @ \cup {thread[p].tid}]
                         ELSE [past EXCEPT !.failed = @ \cup {thread[p].tid}]
  BY <1>1, <1>2 DEF LoadEnd, Goto
<1>b. PICK l, c, t : l = (IF ok THEN "user" ELSE "die") /\ c = Returned(0) /\ t = thread[p].tid
  OBVIOUS
<1>4. /\ thread' = [thread EXCEPT ![r].valid = ok, ![r].onLoad = @ + 1]
      /\ l = (IF ok THEN "user" ELSE "die") /\ c = Returned(0) /\ t = thread[p].tid
      /\ pc' = [pc EXCEPT ![p] = l] /\ call' = [call EXCEPT ![p] = c]
      /\ past' = IF ok THEN [past EXCEPT !.loaded = @ \cup {t}]
                       ELSE [past EXCEPT !.failed = @ \cup {t}]
      /\ UNCHANGED <<array, nextTid>>
  BY <1>a, <1>b DEF LoadEnd, Returns
<1>5. Goes(p, l, c)
  BY <1>2, <1>3, <1>4 DEF Goes, Labels
<1>6. /\ thread' \in [Page -> Thread]
      /\ \A q \in Page : q # r => thread'[q] = thread[q]
      /\ thread'[r].onLoad = thread[r].onLoad + 1 /\ thread'[r].valid = ok
      /\ \A q \in Page : /\ thread'[q].tid = thread[q].tid /\ thread'[q].parent = thread[q].parent
                         /\ thread'[q].dead = thread[q].dead /\ thread'[q].status = thread[q].status
                         /\ thread'[q].canDie = thread[q].canDie
                         /\ thread'[q].onChild = thread[q].onChild
  BY <1>2, <1>4, Types DEF Thread
<1>7. /\ past'.maker = past.maker /\ past'.killed = past.killed /\ past'.reaped = past.reaped
      /\ past'.loaded = IF ok THEN past.loaded \cup {t} ELSE past.loaded
      /\ past'.failed = IF ok THEN past.failed ELSE past.failed \cup {t}
  BY <1>4 DEF Inv, TypeOK
<1>8. Same
  BY <1>4, <1>6, <1>7 DEF Same
<1>9. p \in Live /\ t \in Known /\ t \in 1..MaxTid
  <2>1. p \in Live /\ thread[p].tid < nextTid
    BY <1>2, Alive DEF Inv, PagesOK
  <2>2. thread[p].tid \in 1..MaxTid
    BY <2>1, Types, Numbers DEF Thread, Live
  <2> QED  BY <1>4, <2>1, <2>2 DEF Known, Inv, TypeOK
<1>10. TypeOK'
  <2>1. c \in Call /\ array' \in Program
    BY <1>4, Types, Numbers DEF Inv, TypeOK
  <2> QED  BY <1>4, <1>5, <1>6, <1>9, <2>1, TypeStep
<1>11. ~thread[p].dead
  BY <1>2, Alive
<1>12. PagesOK' /\ MainOK' /\ Room' /\ CallsOK' /\ Reads'
  <2>1. past'.loaded \subseteq Known
    BY <1>7, <1>9 DEF Inv, PagesOK
  <2> QED  BY <1>5, <1>6, <1>8, <1>10, <2>1, SameStep, PageAssumption DEF Inv, MainOK
<1>13. DeadOK'
  BY <1>4, <1>5, <1>6, <1>8, <1>11, DeadKept
<1>14. Kept'
  BY <1>2, <1>4, <1>5, <1>6, <1>7, <1>8, SameLive, GoesTo DEF Inv, Kept, Live, Spared
<1>15. Woken'
  <2>1. \A q \in Page : thread'[q].onChild >= thread[q].onChild
    BY <1>6, Types DEF Thread
  <2> QED  BY <1>2, <1>5, <1>6, <1>8, <1>10, <2>1, WokenKept
<1>16. LoadsOK'
  <2>1. pc'[p] = l /\ \A q \in Page : q # p => pc'[q] = pc[q] /\ call'[q] = call[q]
    BY <1>5, GoesTo
  <2>2. ASSUME NEW q \in Page, pc'[q] \in {"load", "loading"}
        PROVE  LET s == thread'[q].parent IN
               /\ s \in Live' /\ past'.maker[thread'[q].tid] = thread'[s].tid
               /\ thread'[q].tid \notin past'.loaded
               /\ s # Main => pc'[s] = "created" /\ call'[s].eax = thread'[q].tid /\ thread'[s].onLoad = 0
    <3>1. pc[q] \in {"load", "loading"} /\ q # p
      BY <1>4, <2>1, <2>2
    <3>2. PICK s \in Live : s = thread[q].parent
      BY <3>1 DEF Inv, LoadsOK
    <3>3. /\ past.maker[thread[q].tid] = thread[s].tid /\ thread[q].tid \notin past.loaded
          /\ s # Main => pc[s] = "created" /\ call[s].eax = thread[q].tid /\ thread[s].onLoad = 0
      BY <3>1, <3>2 DEF Inv, LoadsOK
    <3>4. thread[q].tid # t
      BY <1>4, <1>9, <3>1, Alive DEF Inv, PagesOK
    <3>5. s # Main => s # r /\ s # p
      BY <1>2, <1>4, <3>3, <3>4
    <3>6. s \in Page /\ s \in Live'
      BY <1>8, SameLive DEF Live
    <3> QED  BY <1>6, <1>7, <2>1, <3>1, <3>2, <3>3, <3>4, <3>5, <3>6
  <2>3. ASSUME NEW q \in Page \ {Main}
        PROVE  IF pc'[q] # "created" THEN thread'[q].onLoad = 0
               ELSE /\ thread'[q].onLoad <= 1
                    /\ call'[q].eax # -1 =>
                         /\ call'[q].eax \in Known' /\ past'.maker[call'[q].eax] = thread'[q].tid
                         /\ thread'[q].onLoad > 0 => (thread'[q].valid <=> call'[q].eax \in past'.loaded)
    <3>1. CASE q = p
      BY <1>2, <1>3, <1>4, <1>6, <2>1, <3>1 DEF Inv, LoadsOK
    <3>2. CASE q = r
      <4>1. /\ pc'[q] = "created" /\ call'[q].eax = t /\ thread'[q].onLoad = 1
            /\ thread'[q].valid = ok /\ past'.maker[t] = thread'[q].tid
        BY <1>2, <1>3, <1>4, <1>6, <1>7, <2>1, <3>2
      <4>2. ok <=> t \in past'.loaded
        BY <1>2, <1>4, <1>7
      <4>3. t \in Known'
        BY <1>8, <1>9, SameLive
      <4> QED  BY <4>1, <4>2, <4>3
    <3>3. CASE q # p /\ q # r
      <4>1. pc'[q] = pc[q] /\ call'[q] = call[q] /\ thread'[q] = thread[q]
        BY <1>6, <2>1, <3>3
      <4>2. CASE pc[q] # "created"
        BY <4>1, <4>2 DEF Inv, LoadsOK
      <4>3. CASE pc[q] = "created"
        <5>1. call[q].eax # -1 => call[q].eax \in Known /\ past.maker[call[q].eax] = thread[q].tid
          BY <4>3 DEF Inv, LoadsOK
        <5>2. call[q].eax # -1 => call[q].eax # t
          BY <1>2, <1>4, <3>3, <4>3, <5>1, Alive DEF Inv, PagesOK
        <5> QED  BY <1>7, <1>8, <4>1, <4>3, <5>1, <5>2, SameLive DEF Inv, LoadsOK
      <4> QED  BY <4>2, <4>3
    <3> QED  BY <3>1, <3>2, <3>3
  <2> QED  BY <2>2, <2>3 DEF LoadsOK
<1> QED  BY <1>10, <1>12, <1>13, <1>14, <1>15, <1>16 DEF Inv

LEMMA ThreadExitOK ==
  ASSUME Inv, NEW p \in Page, p # Main, ThreadExit(p)
  PROVE  Inv'
<1>1. PICK c : c = Returned(0)
  OBVIOUS
<1>2. /\ pc[p] = "die" /\ UNCHANGED <<array, nextTid, past>>
      /\ thread' = [thread EXCEPT ![p] = Freed]
      /\ call' = [call EXCEPT ![p] = c] /\ pc' = [pc EXCEPT ![p] = "free"]
  BY <1>1 DEF ThreadExit, Goto, Returns
<1>3. /\ thread' \in [Page -> Thread] /\ call' \in [Page -> Call] /\ pc' \in [Page -> Labels]
      /\ thread'[p] = Freed /\ pc'[p] = "free"
      /\ \A q \in Page : q # p => thread'[q] = thread[q] /\ call'[q] = call[q] /\ pc'[q] = pc[q]
  BY <1>1, <1>2, Types, FreedIs, Numbers DEF Labels
<1>4. Live' = Live \ {p} /\ Known' = Known /\ p \in Live
  BY <1>2, <1>3, FreedIs, Alive DEF Live, Known
<1>5. TypeOK'
  BY <1>2, <1>3 DEF Inv, TypeOK, Thread, Call
<1>6. PagesOK'
  <2>1. thread'[p].tid = 0 /\ 0 < nextTid
    BY <1>3, FreedIs, Numbers DEF Inv, TypeOK
  <2> QED  BY <1>2, <1>3, <1>4, <2>1 DEF Inv, PagesOK, Live
<1>7. MainOK'
  BY <1>2, <1>3, PageAssumption DEF Inv, MainOK
<1>8. Room'
  BY <1>2, <1>3, RoomKept DEF Inv, Pending
<1>9. CallsOK'
  BY <1>3, <1>4 DEF Inv, CallsOK, InWait
<1>10. DeadOK'
  BY <1>3, <1>4 DEF Inv, DeadOK, Live
<1>11. Kept'
  BY <1>2, <1>3, <1>4 DEF Inv, Kept, Live, Own, Spared
<1>12. ASSUME NEW q \in Page, WaitsForOwn(q)'
       PROVE  /\ WaitsForOwn(q) /\ q # p /\ call[q].target \in Page \ {p}
  <2>1. WaitsForOwn(q) /\ q # p
    BY <1>2, <1>3, <1>12 DEF WaitsForOwn, InWait
  <2>2. /\ call[q].target \in Page /\ call[q].want \in Known /\ thread[call[q].target].tid = call[q].want
        /\ thread[call[q].target].parent = q
    BY <2>1 DEF Inv, CallsOK, Reads, WaitsForOwn
  <2>3. q \in Live /\ call[q].target \in Live /\ pc[q] \notin {"die", "ended"}
    BY <2>1, <2>2, Alive DEF WaitsForOwn, InWait, Live, Known
  <2>4. Own(q, call[q].target) /\ Spared(thread[call[q].target].tid)
    BY <2>1, <2>2 DEF Own, Spared, WaitsForOwn
  <2> QED  BY <1>2, <2>1, <2>2, <2>3, <2>4 DEF Inv, Kept
<1>13. Reads'
  BY <1>3, <1>12 DEF Inv, Reads
<1>14. Woken'
  BY <1>3, <1>12 DEF Inv, Woken
<1>15. LoadsOK'
  <2>1. ASSUME NEW q \in Page, pc'[q] \in {"load", "loading"}
        PROVE  LET r == thread'[q].parent IN
               /\ r \in Live' /\ past'.maker[thread'[q].tid] = thread'[r].tid
               /\ thread'[q].tid \notin past'.loaded
               /\ r # Main => pc'[r] = "created" /\ call'[r].eax = thread'[q].tid /\ thread'[r].onLoad = 0
    <3>1. pc[q] \in {"load", "loading"} /\ q # p
      BY <1>3, <2>1
    <3>2. PICK r \in Live : r = thread[q].parent
      BY <3>1 DEF Inv, LoadsOK
    <3>3. /\ past.maker[thread[q].tid] = thread[r].tid /\ thread[q].tid \notin past.loaded
          /\ r # Main => pc[r] = "created" /\ call[r].eax = thread[q].tid /\ thread[r].onLoad = 0
      BY <3>1, <3>2 DEF Inv, LoadsOK
    <3>4. r # p /\ r \in Page
      BY <1>2, <3>3 DEF Live
    <3> QED  BY <1>2, <1>3, <1>4, <3>1, <3>2, <3>3, <3>4
  <2>2. ASSUME NEW q \in Page \ {Main}
        PROVE  IF pc'[q] # "created" THEN thread'[q].onLoad = 0
               ELSE /\ thread'[q].onLoad <= 1
                    /\ call'[q].eax # -1 =>
                         /\ call'[q].eax \in Known' /\ past'.maker[call'[q].eax] = thread'[q].tid
                         /\ thread'[q].onLoad > 0 => (thread'[q].valid <=> call'[q].eax \in past'.loaded)
    <3>1. CASE q = p
      BY <1>3, <3>1, FreedIs
    <3>2. CASE q # p
      BY <1>2, <1>3, <1>4, <3>2 DEF Inv, LoadsOK
    <3> QED  BY <3>1, <3>2
  <2> QED  BY <2>1, <2>2 DEF LoadsOK
<1> QED  BY <1>5, <1>6, <1>7, <1>8, <1>9, <1>10, <1>11, <1>13, <1>14, <1>15 DEF Inv

LEMMA ThreadCreateOK ==
  ASSUME Inv, NEW p \in Page, NEW q \in Page, ThreadCreate(p, q)
  PROVE  Inv'
<1>1. PICK n, f, c : n = nextTid /\ f = Fresh(n, p) /\ c = [call[p] EXCEPT !.eax = n]
  OBVIOUS
<1>2. PICK S : S = Pending
  OBVIOUS
<1>3. /\ p \in S /\ IsFiniteSet(S) /\ Cardinality(S) \in Nat /\ Cardinality(S \ {p}) = Cardinality(S) - 1
      /\ Cardinality(S \ {p}) \in Nat
  <2>1. p \in S
    BY <1>2 DEF ThreadCreate, Pending
  <2>2. IsFiniteSet(S) /\ Cardinality(S) \in Nat
    BY <1>2, PendingIs
  <2>3. Cardinality(S \ {p}) = Cardinality(S) - 1 /\ IsFiniteSet(S \ {p})
    BY <2>1, <2>2, FS_RemoveElement
  <2> QED  BY <2>1, <2>2, <2>3, FS_CardinalityType
<1>4. n \in 2..MaxTid /\ n \in Statuses
  <2>1. n \in Nat /\ n >= 2 /\ n + Cardinality(S) <= MaxTid + 1
    BY <1>1, <1>2, Numbers DEF Inv, TypeOK, Room
  <2> QED  BY <1>3, <2>1, Numbers DEF Statuses
<1>5. /\ pc[p] = "create" /\ pc[q] = "free" /\ q # p /\ q # Main /\ p \in Live /\ q \notin Live
      /\ ~thread[p].dead
  BY Alive DEF ThreadCreate, Live, Inv, PagesOK, MainOK
<1>6. f \in Thread /\ f.tid = n /\ f.parent = p /\ ~f.dead /\ f.status = -1 /\ f.canDie = 0
      /\ f.onChild = 0 /\ f.onLoad = 0
  BY <1>1, <1>4, FreshIs, Numbers
<1>7. call' = [call EXCEPT ![p] = c] /\ c \in Call /\ c.eax = n
  BY <1>1, <1>4, Types DEF ThreadCreate, Call
<1>8. /\ thread' = [thread EXCEPT ![q] = f] /\ nextTid' = n + 1
      /\ pc' = [pc EXCEPT ![p] = "created", ![q] = "load"]
      /\ past' = [past EXCEPT !.maker[n] = thread[p].tid] /\ array' = array
  BY <1>1 DEF ThreadCreate
<1>9. /\ thread' \in [Page -> Thread] /\ call' \in [Page -> Call] /\ pc' \in [Page -> Labels]
      /\ thread'[q] = f /\ \A r \in Page : r # q => thread'[r] = thread[r]
      /\ call'[p] = c /\ \A r \in Page : r # p => call'[r] = call[r]
      /\ pc'[p] = "created" /\ pc'[q] = "load" /\ \A r \in Page : r # p /\ r # q => pc'[r] = pc[r]
  BY <1>5, <1>6, <1>7, <1>8, Types DEF Labels
<1>10. /\ past'.maker \in [1..MaxTid -> 0..MaxTid]
       /\ past'.maker[n] = thread[p].tid /\ \A t \in 1..MaxTid : t # n => past'.maker[t] = past.maker[t]
       /\ past'.loaded = past.loaded /\ past'.killed = past.killed /\ past'.failed = past.failed
       /\ past'.reaped = past.reaped /\ past' \in Past
  <2>1. past \in Past /\ thread[p].tid \in 0..MaxTid /\ n \in 1..MaxTid
    BY <1>4, Types, Numbers DEF Inv, TypeOK, Thread, Past
  <2>2. past'.maker = [past.maker EXCEPT ![n] = thread[p].tid]
    BY <1>8, <2>1 DEF Past
  <2>3. /\ past'.loaded = past.loaded /\ past'.killed = past.killed /\ past'.failed = past.failed
        /\ past'.reaped = past.reaped
    BY <1>8, <2>1 DEF Past
  <2>4. past'.maker \in [1..MaxTid -> 0..MaxTid]
    BY <2>1, <2>2 DEF Past
  <2>5. past' \in Past
    BY <1>8, <2>1, <2>4 DEF Past
  <2> QED  BY <2>1, <2>2, <2>3, <2>4, <2>5 DEF Past
<1>11. Live' = Live \cup {q} /\ Known' = Known \cup {n} /\ n \notin Known /\ Known \subseteq 1..MaxTid
  <2>1. Live' = Live \cup {q}
    BY <1>4, <1>6, <1>9 DEF Live
  <2>2. n \in Nat /\ nextTid = n /\ nextTid' = n + 1 /\ n >= 2 /\ n <= MaxTid
    BY <1>1, <1>4, <1>8, Numbers
  <2> QED  BY <2>1, <2>2, Numbers DEF Known
<1>12. \A r \in Live : thread[r].tid \in Known
  <2> SUFFICES ASSUME NEW r \in Live PROVE thread[r].tid \in Known
    OBVIOUS
  <2>1. thread[r].tid \in 0..MaxTid /\ thread[r].tid # 0 /\ thread[r].tid < nextTid
    BY Types DEF Inv, PagesOK, Thread, Live
  <2>2. nextTid \in Nat
    BY <1>1, <1>4
  <2> QED  BY <2>1, <2>2, Numbers DEF Known
<1>13. TypeOK'
  <2>1. nextTid' \in 2..(MaxTid + 1)
    BY <1>4, <1>8, Numbers
  <2> QED  BY <1>8, <1>9, <1>10, <2>1 DEF Inv, TypeOK, Thread, Call, Past
<1>14. PagesOK'
  <2>1. \A r \in Page : pc'[r] = "free" <=> thread'[r].tid = 0
    BY <1>4, <1>5, <1>6, <1>9 DEF Inv, PagesOK
  <2>2. nextTid = n /\ n \in Nat /\ \A r \in Page : thread[r].tid \in Nat
    BY <1>1, <1>4, Types, Numbers DEF Thread
  <2>3. \A r \in Page : thread'[r].tid < nextTid'
    BY <1>6, <1>8, <1>9, <2>2 DEF Inv, PagesOK
  <2>4. \A r, s \in Live' : thread'[r].tid = thread'[s].tid => r = s
    <3>1. \A r \in Live : r # q /\ r \in Page /\ thread'[r].tid = thread[r].tid /\ thread[r].tid # n
      BY <1>5, <1>9, <1>11, <1>12 DEF Live
    <3>2. thread'[q].tid = n
      BY <1>6, <1>9
    <3> QED  BY <1>11, <3>1, <3>2 DEF Inv, PagesOK
  <2>5. \A t \in 1..MaxTid : past'.maker[t] < nextTid'
    <3>1. ASSUME NEW t \in 1..MaxTid PROVE past'.maker[t] < n + 1
      <4>1. past'.maker[t] \in Nat /\ past'.maker[t] < n
        <5>1. thread[p].tid < n /\ past.maker[t] < n /\ past.maker[t] \in Nat
          BY <2>2, Numbers DEF Inv, PagesOK, TypeOK
        <5> QED  BY <1>10, <2>2, <5>1
      <4> QED  BY <4>1, <2>2
    <3> QED  BY <1>8, <3>1
  <2>6. past'.loaded \subseteq Known'
    BY <1>10, <1>11 DEF Inv, PagesOK
  <2> QED  BY <2>1, <2>3, <2>4, <2>5, <2>6 DEF PagesOK
<1>15. MainOK'
  BY <1>5, <1>9, PageAssumption DEF Inv, MainOK
<1>16. Room'
  <2>1. Pending' = S \ {p}
    BY <1>2, <1>5, <1>9 DEF Pending
  <2>2. n + Cardinality(S) <= MaxTid + 1
    BY <1>1, <1>2 DEF Inv, Room
  <2> QED  BY <1>3, <1>4, <1>8, <2>1, <2>2, Numbers DEF Room
<1>17. CallsOK'
  BY <1>9, <1>11 DEF Inv, CallsOK, InWait
<1>18. DeadOK'
  BY <1>5, <1>6, <1>9, <1>11 DEF Inv, DeadOK, Live
<1>19. Kept'
  <2> SUFFICES ASSUME NEW r \in Live', NEW s \in Live', Own(r, s)', Spared(thread[s].tid)',
                      pc'[r] \notin {"die", "ended"}
               PROVE  thread'[s].canDie = 0 /\ pc'[s] \notin {"close", "die"}
    BY DEF Kept
  <2>1. CASE s = q
    BY <1>6, <1>9, <2>1
  <2>2. CASE s # q
    <3>1. s \in Live /\ thread'[s] = thread[s] /\ thread[s].tid \in Known /\ s \in Page /\ r \in Page
      BY <1>9, <1>11, <1>12, <2>2 DEF Live
    <3>2. past'.maker[thread[s].tid] = past.maker[thread[s].tid]
      BY <1>10, <1>11, <3>1
    <3>3. past.maker[thread[s].tid] < nextTid /\ nextTid = n
      BY <1>1, <1>11, <3>1 DEF Inv, PagesOK
    <3>4. r # q
      BY <1>4, <1>6, <1>9, <3>1, <3>2, <3>3 DEF Own
    <3>5. r \in Live /\ thread'[r] = thread[r] /\ pc[r] \notin {"die", "ended"}
      BY <1>5, <1>9, <1>11, <3>1, <3>4
    <3>6. Own(r, s) /\ Spared(thread[s].tid)
      BY <1>10, <3>1, <3>2, <3>5 DEF Own, Spared
    <3>7. thread[s].canDie = 0 /\ pc[s] \notin {"close", "die"}
      BY <3>1, <3>5, <3>6 DEF Inv, Kept
    <3> QED  BY <1>9, <2>2, <3>1, <3>7
  <2> QED  BY <2>1, <2>2
<1>20. ASSUME NEW r \in Page, WaitsForOwn(r)'
       PROVE  /\ WaitsForOwn(r) /\ r # p /\ r # q /\ call'[r] = call[r] /\ thread'[r] = thread[r]
              /\ call[r].target \in Page \ {q}
  <2>1. InWait(r) /\ r # p /\ r # q /\ call'[r] = call[r] /\ thread'[r] = thread[r]
    BY <1>9, <1>20 DEF WaitsForOwn, InWait
  <2>2. call[r].want \in Known /\ call[r].target \in Page
    BY <2>1 DEF Inv, CallsOK
  <2>3. past'.maker[call[r].want] = past.maker[call[r].want]
    BY <1>10, <1>11, <2>2
  <2>4. WaitsForOwn(r)
    BY <1>10, <1>20, <2>1, <2>3 DEF WaitsForOwn
  <2>5. thread[call[r].target].tid = call[r].want
    BY <2>4 DEF Inv, Reads
  <2>6. call[r].target \in Live
    BY <2>2, <2>5 DEF Live, Known
  <2>7. Own(r, call[r].target) /\ call[r].target # q
    BY <1>5, <2>4, <2>5, <2>6 DEF Own, WaitsForOwn, Inv, Reads
  <2> QED  BY <2>1, <2>2, <2>4, <2>7
<1>21. Reads'
  BY <1>9, <1>20 DEF Inv, Reads
<1>22. Woken'
  <2> SUFFICES ASSUME NEW r \in Page, pc'[r] = "sleep", WaitsForOwn(r)',
                      thread'[call'[r].target].dead, pc'[call'[r].target] # "notify"
               PROVE  thread'[r].onChild > 0
    BY DEF Woken
  <2>1. /\ WaitsForOwn(r) /\ pc[r] = "sleep" /\ call'[r] = call[r] /\ thread'[r] = thread[r]
        /\ call[r].target \in Page \ {q} /\ thread'[call[r].target] = thread[call[r].target]
    BY <1>9, <1>20
  <2>2. call[r].target # p
    BY <1>5, <2>1
  <2>3. pc[call[r].target] # "notify"
    BY <1>9, <2>1, <2>2
  <2> QED  BY <2>1, <2>3 DEF Inv, Woken
<1>23. LoadsOK'
  <2>1. ASSUME NEW r \in Page, pc'[r] \in {"load", "loading"}
        PROVE  LET s == thread'[r].parent IN
               /\ s \in Live' /\ past'.maker[thread'[r].tid] = thread'[s].tid
               /\ thread'[r].tid \notin past'.loaded
               /\ s # Main => pc'[s] = "created" /\ call'[s].eax = thread'[r].tid /\ thread'[s].onLoad = 0
    <3>1. CASE r = q
      <4>1. p \in Live' /\ thread'[p] = thread[p] /\ thread'[q].parent = p /\ thread'[q].tid = n
        BY <1>5, <1>6, <1>9, <1>11
      <4>2. n \notin past'.loaded /\ past'.maker[n] = thread'[p].tid
        BY <1>10, <1>11, <4>1 DEF Inv, PagesOK
      <4>3. p # Main => thread'[p].onLoad = 0
        BY <1>5, <4>1 DEF Inv, LoadsOK
      <4> QED  BY <1>7, <1>9, <3>1, <4>1, <4>2, <4>3
    <3>2. CASE r # q
      <4>1. pc[r] \in {"load", "loading"} /\ thread'[r] = thread[r]
        BY <1>9, <2>1, <3>2
      <4>2. r \in Live /\ thread[r].tid \in Known
        BY <1>12, <4>1, Alive
      <4>3. PICK s \in Live : s = thread[r].parent
        BY <4>1 DEF Inv, LoadsOK
      <4>4. /\ past.maker[thread[r].tid] = thread[s].tid /\ thread[r].tid \notin past.loaded
            /\ s # Main => pc[s] = "created" /\ call[s].eax = thread[r].tid /\ thread[s].onLoad = 0
        BY <4>1, <4>3 DEF Inv, LoadsOK
      <4>5. s \in Live' /\ s # q /\ thread'[s] = thread[s] /\ s \in Page
        BY <1>5, <1>9, <1>11 DEF Live
      <4>6. past'.maker[thread[r].tid] = past.maker[thread[r].tid]
        BY <1>10, <1>11, <4>2
      <4>7. s # Main => s # p
        BY <1>5, <4>4
      <4> QED  BY <1>9, <1>10, <4>1, <4>3, <4>4, <4>5, <4>6, <4>7
    <3> QED  BY <3>1, <3>2
  <2>2. ASSUME NEW r \in Page \ {Main}
        PROVE  IF pc'[r] # "created" THEN thread'[r].onLoad = 0
               ELSE /\ thread'[r].onLoad <= 1
                    /\ call'[r].eax # -1 =>
                         /\ call'[r].eax \in Known' /\ past'.maker[call'[r].eax] = thread'[r].tid
                         /\ thread'[r].onLoad > 0 => (thread'[r].valid <=> call'[r].eax \in past'.loaded)
    <3>1. CASE r = q
      BY <1>6, <1>9, <3>1
    <3>2. CASE r = p
      <4>1. thread'[p] = thread[p] /\ thread[p].onLoad = 0
        BY <1>5, <1>9, <2>2, <3>2 DEF Inv, LoadsOK
      <4> QED  BY <1>7, <1>9, <1>10, <1>11, <3>2, <4>1
    <3>3. CASE r # p /\ r # q
      <4>1. pc'[r] = pc[r] /\ call'[r] = call[r] /\ thread'[r] = thread[r]
        BY <1>9, <3>3
      <4>2. CASE pc[r] # "created"
        BY <4>1, <4>2 DEF Inv, LoadsOK
      <4>3. CASE pc[r] = "created"
        <5>1. call[r].eax # -1 => call[r].eax \in Known /\ past.maker[call[r].eax] = thread[r].tid
          BY <4>3 DEF Inv, LoadsOK
        <5>2. call[r].eax # -1 => past'.maker[call[r].eax] = thread[r].tid
          BY <1>10, <1>11, <5>1
        <5> QED  BY <1>10, <1>11, <4>1, <4>3, <5>1, <5>2 DEF Inv, LoadsOK
      <4> QED  BY <4>2, <4>3
    <3> QED  BY <3>1, <3>2, <3>3
  <2> QED  BY <2>1, <2>2 DEF LoadsOK
<1> QED  BY <1>13, <1>14, <1>15, <1>16, <1>17, <1>18, <1>19, <1>21, <1>22, <1>23 DEF Inv

-----------------------------------------------------------------------------
(* The theorems *)

LEMMA ContinueOK ==
  ASSUME Inv, NEW p \in Page, Continue(p)
  PROVE  Inv'
<1>1. CASE ExecOpen(p)
  BY <1>1, ExecOpenOK
<1>2. CASE ExecCopy(p)
  BY <1>2, ExecCopyOK
<1>3. CASE ThreadCreateFails(p)
  BY <1>3, ThreadCreateFailsOK
<1>4. CASE LoadOpen(p)
  BY <1>4, LoadOpenOK
<1>5. CASE LoadEnd(p)
  BY <1>5, LoadEndOK
<1>6. CASE ExecReturn(p)
  BY <1>6, ExecReturnOK
<1>7. CASE WaitCheck(p)
  BY <1>7, WaitCheckOK
<1>8. CASE WaitWoken(p)
  BY <1>8, WaitWokenOK
<1>9. CASE WaitReap(p)
  BY <1>9, WaitReapOK
<1>10. CASE ExitNotify(p)
  BY <1>10, ExitNotifyOK
<1>11. CASE ExitReaped(p)
  BY <1>11, ExitReapedOK
<1>12. CASE ExitRelease(p)
  BY <1>12, ExitReleaseOK
<1>13. CASE ThreadExit(p)
  BY <1>13, ThreadExitOK, MainExitOK
<1>14. CASE \E q \in Page : ThreadCreate(p, q)
  BY <1>14, ThreadCreateOK
<1>15. CASE pc[p] = "created" /\ WaitCall(p, call[p].eax)
  BY <1>15, WaitCallOK
<1>16. CASE pc[p] = "fault" /\ ExitCall(p, -1)
  BY <1>16, ExitCallOK
<1> QED  BY <1>1, <1>2, <1>3, <1>4, <1>5, <1>6, <1>7, <1>8, <1>9, <1>10, <1>11, <1>12, <1>13,
            <1>14, <1>15, <1>16 DEF Continue

LEMMA InvokeOK ==
  ASSUME Inv, NEW p \in Page, Invoke(p)
  PROVE  Inv'
<1>1. CASE \E c \in Program : ExecCall(p, c)
  BY <1>1, ExecCallOK
<1>2. CASE \E t \in 1..MaxTid : pc[p] = "user" /\ WaitCall(p, t)
  BY <1>2, WaitCallOK
<1>3. CASE \E v \in {thread[p].tid, -2} : pc[p] = "user" /\ ExitCall(p, v)
  BY <1>3, ExitCallOK
<1>4. CASE Kill(p)
  BY <1>4, KillOK
<1> QED  BY <1>1, <1>2, <1>3, <1>4 DEF Invoke

LEMMA NextInv == Inv /\ [Next]_vars => Inv'
<1> SUFFICES ASSUME Inv, [Next]_vars PROVE Inv'
  OBVIOUS
<1>1. CASE UNCHANGED vars
  BY <1>1 DEF vars, Inv, TypeOK, PagesOK, MainOK, Room, CallsOK, DeadOK, Kept, Reads, Woken,
              LoadsOK, Live, Known, Pending, Own, Spared, WaitsForOwn, InWait
<1>2. CASE Next
  BY <1>2, RunTaskOK, ContinueOK, InvokeOK DEF Next
<1> QED  BY <1>1, <1>2

\* The invariant of this proof.
THEOREM Invariance == Spec => []Inv
BY InitInv, NextInv, PTL DEF Spec

\* Every variable keeps its type, whatever the processes call and in which
\* order their threads run.
THEOREM TypeCorrect == Spec => []TypeOK
<1>1. Inv => TypeOK
  BY DEF Inv
<1> QED  BY Invariance, <1>1, PTL

\* A process that waits for a child it created, which was neither killed nor let
\* go, reads the thread of that child and no other (process_wait, sys_exit).
THEOREM ReadsCorrect == Spec => []WaitReadsChild
<1>1. Inv => WaitReadsChild
  BY DEF Inv, Reads, WaitReadsChild
<1> QED  BY Invariance, <1>1, PTL

\* A waiter whose child is dead has a wake-up coming (process_wait, sys_exit).
THEOREM NoExitLost == Spec => []NoLostExit
<1>1. Inv => NoLostExit
  <2> SUFFICES ASSUME Inv, NEW p \in Page, pc[p] = "sleep", WaitsForOwn(p),
                      thread[p].onChild = 0, thread[call[p].target].dead
               PROVE  pc[call[p].target] = "notify"
    BY DEF NoLostExit
  <2> QED  BY DEF Inv, Woken
<1> QED  BY Invariance, <1>1, PTL

\* A process leaves exec by ExecReturn, and a wait by WaitReap.
LEMMA Leaves ==
  ASSUME Inv, Next, NEW p \in Page, pc'[p] \in {"user", "halt"}
  PROVE  /\ pc[p] = "created" /\ pc'[p] = "user" => ExecReturn(p)
         /\ InWait(p) => WaitReap(p) /\ IsThread(call[p].target)
<1>1. pc \in [Page -> Labels] /\ Main \in Page
  BY PageAssumption DEF Inv, TypeOK
<1>2. CASE \E c \in Exists : RunTask(c)
  BY <1>1, <1>2 DEF RunTask, Goto, InWait
<1>3. ASSUME NEW q \in Page, q # p, Continue(q) \/ Invoke(q), pc[p] # "free"
      PROVE  pc'[p] = pc[p]
  <2>1. CASE \E r \in Page : ThreadCreate(q, r)
    BY <1>1, <1>3, <2>1, Alive DEF ThreadCreate
  <2>2. CASE WaitCall(q, call[q].eax) \/ \E t \in 1..MaxTid : WaitCall(q, t)
    BY <1>1, <1>3, <2>2 DEF WaitCall, Goto
  <2>3. CASE ExitCall(q, -1) \/ \E v \in {thread[q].tid, -2} : ExitCall(q, v)
    BY <1>1, <1>3, <2>3 DEF ExitCall, Goto
  <2>4. CASE ExecOpen(q) \/ ExecCopy(q) \/ ThreadCreateFails(q) \/ LoadOpen(q) \/ LoadEnd(q)
             \/ ExecReturn(q) \/ WaitCheck(q) \/ WaitWoken(q) \/ WaitReap(q)
    BY <1>1, <1>3, <2>4 DEF ExecOpen, ExecCopy, ThreadCreateFails, LoadOpen, LoadEnd,
       ExecReturn, WaitCheck, WaitWoken, WaitReap, Goto
  <2>5. CASE ExitNotify(q) \/ ExitReaped(q) \/ ExitRelease(q) \/ ThreadExit(q) \/ Kill(q)
             \/ \E c \in Program : ExecCall(q, c)
    BY <1>1, <1>3, <2>5 DEF ExitNotify, ExitReaped, ExitRelease, ThreadExit, Kill, ExecCall, Goto
  <2> QED  BY <1>3, <2>1, <2>2, <2>3, <2>4, <2>5 DEF Continue, Invoke
<1>4. CASE Continue(p) \/ Invoke(p)
  <2>1. CASE \E r \in Page : ThreadCreate(p, r)
    BY <1>1, <2>1 DEF ThreadCreate, InWait
  <2>2. CASE (pc[p] = "created" /\ WaitCall(p, call[p].eax)) \/ \E t \in 1..MaxTid : pc[p] = "user" /\ WaitCall(p, t)
    BY <1>1, <2>2 DEF WaitCall, Goto, InWait
  <2>3. CASE ExitCall(p, -1) \/ \E v \in {thread[p].tid, -2} : ExitCall(p, v)
    BY <1>1, <2>3 DEF ExitCall, Goto, InWait
  <2>4. CASE ExecOpen(p) \/ ExecCopy(p) \/ ThreadCreateFails(p) \/ LoadOpen(p) \/ LoadEnd(p)
    BY <1>1, <2>4 DEF ExecOpen, ExecCopy, ThreadCreateFails, LoadOpen, LoadEnd, Goto, InWait
  <2>5. CASE ExecReturn(p)
    BY <2>5 DEF ExecReturn, InWait
  <2>6. CASE WaitReap(p)
    <3>1. pc[p] = "check"
      BY <2>6 DEF WaitReap
    <3>2. IsThread(call[p].target)
      BY <1>1, <2>6 DEF WaitReap, Goto
    <3> QED  BY <2>6, <3>1, <3>2
  <2>7. CASE WaitCheck(p) \/ WaitWoken(p)
    BY <1>1, <2>7 DEF WaitCheck, WaitWoken, Goto
  <2>8. CASE ExitNotify(p) \/ ExitReaped(p) \/ ExitRelease(p) \/ ThreadExit(p) \/ Kill(p)
             \/ \E c \in Program : ExecCall(p, c)
    BY <1>1, <2>8 DEF ExitNotify, ExitReaped, ExitRelease, ThreadExit, Kill, ExecCall, Goto, InWait
  <2> QED  BY <1>4, <2>1, <2>2, <2>3, <2>4, <2>5, <2>6, <2>7, <2>8 DEF Continue, Invoke
<1> QED  BY <1>2, <1>3, <1>4 DEF Next, InWait

\* exec returns the identifier of a child that was loaded, or -1 (SYS_EXEC,
\* process_execute, start_process).
THEOREM ExecCorrect == Spec => ExecTruthful
<1>1. ASSUME Inv, [Next]_vars, NEW p \in Page, pc[p] = "created", pc'[p] = "user"
      PROVE  IF call'[p].eax = -1
               THEN call[p].eax = -1 \/ call[p].eax \notin past.loaded
               ELSE /\ call'[p].eax \in past.loaded
                    /\ past.maker[call'[p].eax] = thread[p].tid
  <2>1. ExecReturn(p)
    BY <1>1, Leaves DEF vars
  <2>2. p # Main /\ thread[p].onLoad > 0
        /\ call'[p].eax = IF thread[p].valid THEN call[p].eax ELSE -1
    <3>1. /\ p # Main /\ thread[p].onLoad > 0
          /\ call' = [call EXCEPT ![p] = Returned(IF thread[p].valid THEN call[p].eax ELSE -1)]
      BY <2>1 DEF ExecReturn, Returns
    <3> QED  BY <1>1, <3>1, Types DEF Returned
  <2>3. call[p].eax # -1 =>
          /\ past.maker[call[p].eax] = thread[p].tid
          /\ thread[p].valid <=> call[p].eax \in past.loaded
    BY <1>1, <2>2 DEF Inv, LoadsOK
  <2> QED  BY <2>2, <2>3
<1>2. Inv /\ [Next]_vars =>
        [\A p \in Page :
           pc[p] = "created" /\ pc'[p] = "user" =>
             IF call'[p].eax = -1
               THEN call[p].eax = -1 \/ call[p].eax \notin past.loaded
               ELSE /\ call'[p].eax \in past.loaded
                    /\ past.maker[call'[p].eax] = thread[p].tid]_vars
  BY <1>1
<1> QED  BY Invariance, <1>2, PTL DEF Spec, ExecTruthful

\* wait returns the status its child passed to exit, or -1 (process_wait,
\* sys_exit).
THEOREM StatusCorrect == Spec => StatusDelivered
<1>1. ASSUME Inv, [Next]_vars, NEW p \in Page, WaitsForOwn(p), pc'[p] \in {"user", "halt"}
      PROVE  call'[p].eax \in {-1, call[p].want}
  <2>1. WaitReap(p) /\ IsThread(call[p].target)
    BY <1>1, Leaves DEF vars, WaitsForOwn, InWait
  <2>2. call'[p].eax = thread[call[p].target].status
    <3>1. call' = [call EXCEPT ![p] = Returned(thread[call[p].target].status)]
      BY <2>1 DEF WaitReap, Returns
    <3> QED  BY <1>1, <3>1, Types DEF Returned
  <2>3. thread[call[p].target].tid = call[p].want /\ call[p].target \in Live
    BY <1>1, <2>1 DEF Inv, Reads, CallsOK, WaitsForOwn, IsThread, Live
  <2>4. thread[call[p].target].status \in {-1, thread[call[p].target].tid}
    BY <1>1, <2>3 DEF Inv, DeadOK
  <2> QED  BY <2>2, <2>3, <2>4
<1>2. Inv /\ [Next]_vars =>
        [\A p \in Page :
           WaitsForOwn(p) /\ pc'[p] \in {"user", "halt"} => call'[p].eax \in {-1, call[p].want}]_vars
  BY <1>1
<1> QED  BY Invariance, <1>2, PTL DEF Spec, StatusDelivered
=============================================================================
