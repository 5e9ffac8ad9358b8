------------------------ MODULE VirtualMemoryProofs ------------------------
(***************************************************************************)
(* Proofs about VirtualMemory, for any processes, pages, frames and slots: *)
(* the frame table, the swap table and the page tables agree, a process    *)
(* reaches its own frames only, and paged memory is memory.                *)
(*                                                                         *)
(* None of the three is inductive.  What is missing is what the holder of  *)
(* the frame lock relies on between two of its steps (HandlerOK), what is  *)
(* left of a process that is gone (GoneOK), which pages are mapped (Mapped), *)
(* which pages of the stack there are while it grows (StackOK), and that a free frame is fresh and a page *)
(* of the program's code is never written (ContentOK).                     *)
(***************************************************************************)
EXTENDS VirtualMemory, FiniteSetTheorems, WellFoundedInduction, TLAPS

Place == {Nowhere, InFile} \cup {InFrame(f) : f \in Frame} \cup {InSwap(s) : s \in Slot}

\* OnePlace, said of frames and slots instead of the fields of a place.
Marked ==
  \A p \in Proc, v \in Page :
    /\ \A f \in Frame : table[p][v] = InFrame(f) => frame[f].owner = p /\ frame[f].page = v
    /\ \A s \in Slot : table[p][v] = InSwap(s) => swap[s].owner = p /\ swap[s].page = v

HasLock == {"get", "unmap", "write", "put"}
HasFrame == {"unmap", "write", "put"}

\* Who is inside the handler holds the lock, and fte is its frame.
LockOK ==
  /\ \A p \in Proc : pc[p] \in HasLock <=> holder = p
  /\ \A p \in Proc : pc[p] \in HasFrame => fte \in Frame
  /\ \A p \in Proc : pc[p] = "get" => fte = Nobody
  /\ holder = Nobody => fte = Nobody

\* What a process leaves behind when it is dying, and when it is gone.
GoneOK ==
  \A p \in Proc, v \in Page :
    /\ pc[p] \in {"none", "dying"} => table[p][v] = Nowhere
    /\ pc[p] = "none" => map[p][v] = Nobody

\* A page in a frame is mapped to it, unless it is the one being evicted.
Mapped ==
  \A p \in Proc, v \in Page, f \in Frame : table[p][v] = InFrame(f) /\ f # fte => map[p][v] = f

\* The victim is the page of its frame until it is written; the frame that is
\* to be filled belongs to no page; the page of the fault is where it was when
\* the process faulted.
VictimOK(p) ==
  LET o == frame[fte].owner
      v == frame[fte].page IN
  /\ o \in Proc /\ v \in Page
  /\ table[o][v] = InFrame(fte)
  /\ pc[p] = "write" => map[o][v] = Nobody

GivenOK(p) ==
  /\ frame[fte].owner = p /\ frame[fte].data = Fresh
  /\ \A q \in Proc, v \in Page : table[q][v] # InFrame(fte)

FaultOK(p) ==
  /\ fault[p].page \in Page
  /\ fault[p].from = "swap" => \E s \in Slot : table[p][fault[p].page] = InSwap(s)
  /\ fault[p].from = "file" => table[p][fault[p].page] = InFile
  /\ fault[p].from = "stack" => fault[p].page \in Stack

HandlerOK ==
  \A p \in Proc :
    /\ pc[p] \in {"unmap", "write"} => VictimOK(p)
    /\ pc[p] = "put" /\ ~panic => GivenOK(p)
    /\ pc[p] \in HasLock => FaultOK(p)

\* The stack reaches from its top to bottom; while it grows there is a gap
\* above the page of the fault, which is filled upwards from that page.
Solid(p) == \A v \in Stack : table[p][v] = Nowhere <=> v > bottom[p]
Growing(p) ==
  \E j \in Stack :
    LET top == bottom[p] + j - fault[p].page IN
    /\ -1 <= top /\ top < j /\ j <= fault[p].page
    /\ \A v \in Stack : table[p][v] = Nowhere <=> (top < v /\ v <= j) \/ v > fault[p].page

StackOK ==
  \A p \in Proc :
    /\ pc[p] \in {"none", "setup"} => bottom[p] = -1
    /\ pc[p] \in {"setup", "user", "killed"} => Solid(p)
    /\ pc[p] \in HasLock /\ fault[p].from # "stack" => Solid(p)
    /\ pc[p] \in HasLock /\ fault[p].from = "stack" => Growing(p)

ContentOK ==
  /\ \A f \in Frame : frame[f].owner = Nobody => frame[f].data = Fresh
  /\ \A p \in Proc, v \in Code :
       /\ \A f \in Frame : table[p][v] = InFrame(f) => frame[f].data = File
       /\ \A s \in Slot : table[p][v] # InSwap(s)

Inv ==
  /\ TypeOK /\ LockOK /\ GoneOK /\ Marked /\ NothingLeaks /\ MapsOwn /\ Mapped
  /\ HandlerOK /\ StackOK /\ ContentOK

-----------------------------------------------------------------------------
(* Places *)

LEMMA PlaceFacts ==
  /\ \A f, g \in Frame : InFrame(f) = InFrame(g) => f = g
  /\ \A s, t \in Slot : InSwap(s) = InSwap(t) => s = t
  /\ \A f \in Frame, s \in Slot : InFrame(f) # InSwap(s)
  /\ \A f \in Frame : InFrame(f) # Nowhere /\ InFrame(f) # InFile
  /\ \A s \in Slot : InSwap(s) # Nowhere /\ InSwap(s) # InFile
  /\ Nowhere # InFile
BY DEF InFrame, InSwap, Nowhere, InFile

LEMMA FieldFacts ==
  /\ \A f \in Frame : InFrame(f).in = "frame" /\ InFrame(f).at = f
  /\ \A s \in Slot : InSwap(s).in = "swap" /\ InSwap(s).at = s
  /\ Nowhere.in = "none" /\ InFile.in = "file"
BY DEF InFrame, InSwap, Nowhere, InFile

LEMMA Pages ==
  /\ Nobody \notin Page /\ Nobody \notin Proc /\ Nobody \notin Frame
  /\ Stack \subseteq Page /\ Code \subseteq Page /\ Code \cap Stack = {}
  /\ Stack \subseteq Int /\ \A v \in Page : v \notin Code /\ v \notin Data => v \in Stack
BY NameAssumption, PageAssumption, SizeAssumption DEF Page, Stack, Frame

LEMMA PlaceIs ==
  ASSUME TypeOK, NEW p \in Proc, NEW v \in Page
  PROVE  /\ table[p][v] \in Place
         /\ \/ table[p][v] \in {Nowhere, InFile}
            \/ \E f \in Frame : table[p][v] = InFrame(f)
            \/ \E s \in Slot : table[p][v] = InSwap(s)
BY DEF TypeOK, Place

LEMMA OnePlaceIs == TypeOK => (OnePlace <=> Marked)
<1> SUFFICES ASSUME TypeOK PROVE OnePlace <=> Marked
  OBVIOUS
<1>1. ASSUME NEW p \in Proc, NEW v \in Page
      PROVE  /\ table[p][v].in = "frame" <=> \E f \in Frame : table[p][v] = InFrame(f)
             /\ table[p][v].in = "swap" <=> \E s \in Slot : table[p][v] = InSwap(s)
  BY PlaceIs, FieldFacts
<1> QED  BY <1>1, FieldFacts DEF OnePlace, Marked

-----------------------------------------------------------------------------
(* The invariant holds at the start. *)

LEMMA InitInv == Init => Inv
<1> SUFFICES ASSUME Init PROVE Inv
  OBVIOUS
<1> USE DEF Init
<1>1. TypeOK
  <2>1. frame \in [Frame -> Held] /\ swap \in [Slot -> Held]
    BY DEF Held, FreeFrame, FreeSlot, Content
  <2>2. hand \in Frame /\ -1 \in -1..(Depth - 1)
    BY SizeAssumption DEF Frame
  <2>3. fault \in [Proc -> [page : Page \cup {Nobody}, from : {"none", "swap", "file", "stack"}]]
    BY DEF NoFault
  <2> QED  BY <2>1, <2>2, <2>3 DEF TypeOK
<1>2. LockOK /\ GoneOK /\ NothingLeaks /\ MapsOwn
  BY NameAssumption DEF LockOK, GoneOK, NothingLeaks, MapsOwn, HasLock, HasFrame, FreeFrame, FreeSlot
<1>3. Marked /\ ContentOK
  BY PlaceFacts, Pages DEF Marked, ContentOK, FreeFrame
<1>4. HandlerOK /\ StackOK
  BY DEF HandlerOK, StackOK, HasLock
<1>map. Mapped
  BY PlaceFacts DEF Mapped
<1> QED  BY <1>map, <1>1, <1>2, <1>3, <1>4 DEF Inv

-----------------------------------------------------------------------------
(* Every action keeps it. *)

LEMMA ExecStep ==
  ASSUME Inv, NEW p \in Proc, Exec(p)
  PROVE  Inv'
<1> USE DEF Inv, Exec, Goto
<1>1. TypeOK'
  BY DEF TypeOK
<1>2. LockOK'
  BY DEF LockOK, HasLock, HasFrame, TypeOK
<1>3. GoneOK' /\ MapsOwn'
  BY PlaceFacts DEF GoneOK, MapsOwn, TypeOK
<1>0. \A q \in Proc, v \in Page :
        /\ table'[q][v] = IF q # p THEN table[q][v] ELSE IF v \in Stack THEN Nowhere ELSE InFile
        /\ table[p][v] = Nowhere
  BY DEF GoneOK, TypeOK
<1>4. \A q \in Proc, v \in Page, f \in Frame : table'[q][v] = InFrame(f) <=> table[q][v] = InFrame(f)
  BY <1>0, PlaceFacts
<1>5. \A q \in Proc, v \in Page, s \in Slot : table'[q][v] = InSwap(s) <=> table[q][v] = InSwap(s)
  BY <1>0, PlaceFacts
<1>6. Marked'
  BY <1>4, <1>5 DEF Marked
<1>7. NothingLeaks'
  BY <1>4, <1>5 DEF NothingLeaks, FramesOf, SlotsOf, TypeOK, Held
<1>8. HandlerOK'
  <2> SUFFICES ASSUME NEW q \in Proc
               PROVE  /\ pc'[q] \in {"unmap", "write"} => VictimOK(q)'
                      /\ pc'[q] = "put" /\ ~panic => GivenOK(q)'
                      /\ pc'[q] \in HasLock => FaultOK(q)'
    BY DEF HandlerOK
  <2>1. pc'[q] \in HasLock => q # p /\ pc[q] = pc'[q]
    BY DEF HasLock, TypeOK
  <2>2. CASE pc'[q] \in HasLock
    <3>1. table'[q] = table[q]
      BY <2>1, <2>2 DEF TypeOK
    <3>2. pc'[q] \in {"unmap", "write"} => VictimOK(q)'
      BY <2>1, <2>2, <1>1, <1>4 DEF HandlerOK, VictimOK, TypeOK, HasFrame, LockOK
    <3>3. pc'[q] = "put" /\ ~panic => GivenOK(q)'
      BY <2>1, <2>2, <1>4 DEF HandlerOK, GivenOK, LockOK, HasFrame
    <3>4. FaultOK(q)'
      BY <2>1, <2>2, <3>1, <1>5 DEF HandlerOK, FaultOK
    <3> QED  BY <3>2, <3>3, <3>4
  <2> QED  BY <2>2 DEF HasLock
<1>9. StackOK'
  <2>1. \A q \in Proc : pc'[q] = IF q = p THEN "setup" ELSE pc[q]
    BY DEF TypeOK
  <2>2. Solid(p)'
    BY <1>0, PlaceFacts, Pages, SizeAssumption DEF StackOK, Solid, Stack
  <2>3. \A q \in Proc : q # p => table'[q] = table[q]
    BY DEF TypeOK
  <2>4. \A q \in Proc : q # p => (Solid(q) => Solid(q)') /\ (Growing(q) => Growing(q)')
    BY <2>3 DEF Solid, Growing
  <2> QED  BY <2>1, <2>2, <2>4 DEF StackOK, HasLock
<1>10. ContentOK'
  BY <1>4, <1>5, Pages DEF ContentOK
<1>map. Mapped'
  BY <1>4 DEF Mapped
<1> QED  BY <1>map, <1>1, <1>2, <1>3, <1>6, <1>7, <1>8, <1>9, <1>10

LEMMA AccessStep ==
  ASSUME Inv, NEW p \in Proc, NEW v \in Page, NEW write \in BOOLEAN, Access(p, v, write)
  PROVE  Inv'
<1> USE DEF Inv
<1>0. /\ pc[p] = "user" /\ map[p][v] # Nobody
      /\ write => v \notin Code
      /\ accessed' = [accessed EXCEPT ![p] = @ \cup {v}]
      /\ UNCHANGED <<swap, table, map, bottom, hand, holder, pc, fault, fte, panic>>
  BY DEF Access
<1>2. PICK g \in Frame : g = map[p][v] /\ table[p][v] = InFrame(g)
  <2>1. map[p][v] \in Frame
    BY <1>0 DEF TypeOK
  <2>2. table[p][v] = InFrame(map[p][v])
    BY <1>0 DEF MapsOwn
  <2> QED  BY <2>1, <2>2
<1>a. frame' = IF write THEN [frame EXCEPT ![g] = [@ EXCEPT !.data = p]] ELSE frame
  BY <1>2 DEF Access
<1>1. TypeOK'
  <2>1. frame' \in [Frame -> Held]
    <3>1. frame \in [Frame -> Held] /\ p \in Content
      BY DEF TypeOK, Content
    <3>2. frame[g] \in Held
      BY <3>1
    <3>3. [frame[g] EXCEPT !.data = p] \in Held
      BY <3>1, <3>2 DEF Held
    <3> QED  BY <1>a, <3>1, <3>3
  <2>2. accessed' \in [Proc -> SUBSET Page]
    BY <1>0 DEF TypeOK
  <2> QED  BY <1>0, <2>1, <2>2 DEF TypeOK
<1>3. frame[g].owner = p /\ frame[g].page = v
  BY <1>2 DEF Marked
<1>4. \A f \in Frame : /\ frame'[f].owner = frame[f].owner /\ frame'[f].page = frame[f].page
                       /\ f # g \/ ~write => frame'[f] = frame[f]
  BY <1>2, <1>a DEF TypeOK, Held
<1>5. LockOK' /\ GoneOK' /\ MapsOwn'
  BY <1>0 DEF LockOK, GoneOK, MapsOwn
<1>6. Marked'
  BY <1>0, <1>4 DEF Marked
<1>7. NothingLeaks'
  BY <1>0, <1>4 DEF NothingLeaks, FramesOf, SlotsOf
<1>8. HandlerOK'
  <2> SUFFICES ASSUME NEW q \in Proc
               PROVE  /\ pc[q] \in {"unmap", "write"} => VictimOK(q)'
                      /\ pc[q] = "put" /\ ~panic => GivenOK(q)'
                      /\ pc[q] \in HasLock => FaultOK(q)'
    BY <1>0 DEF HandlerOK
  <2>1. pc[q] \in {"unmap", "write"} => VictimOK(q)'
    BY <1>0, <1>4 DEF HandlerOK, VictimOK, LockOK, HasFrame
  <2>2. pc[q] = "put" /\ ~panic => GivenOK(q)'
    BY <1>0, <1>2, <1>4 DEF HandlerOK, GivenOK, LockOK, HasFrame
  <2>3. pc[q] \in HasLock => FaultOK(q)'
    BY <1>0 DEF HandlerOK, FaultOK
  <2> QED  BY <2>1, <2>2, <2>3
<1>9. StackOK'
  BY <1>0 DEF StackOK, Solid, Growing
<1>10. ContentOK'
  <2>1. \A f \in Frame : frame'[f].owner = Nobody => frame'[f].data = Fresh
    BY <1>3, <1>4, Pages DEF ContentOK
  <2>2. \A q \in Proc, w \in Code, f \in Frame : table[q][w] = InFrame(f) => frame'[f].data = File
    <3> SUFFICES ASSUME NEW q \in Proc, NEW w \in Code, NEW f \in Frame, table[q][w] = InFrame(f)
                 PROVE  frame'[f].data = File
      OBVIOUS
    <3>1. CASE f = g /\ write
      BY <1>0, <3>1, <1>2, <1>3, Pages DEF Marked
    <3>2. CASE f # g \/ ~write
      BY <3>2, <1>4 DEF ContentOK
    <3> QED  BY <3>1, <3>2
  <2> QED  BY <1>0, <2>1, <2>2 DEF ContentOK
<1>map. Mapped'
  BY <1>0 DEF Mapped
<1> QED  BY <1>map, <1>1, <1>5, <1>6, <1>7, <1>8, <1>9, <1>10

\* Taking the lock, for any of the three kinds of fault.
LEMMA AsksStep ==
  ASSUME Inv, NEW p \in Proc, NEW v \in Page, NEW from \in {"swap", "file", "stack"},
         Asks(p, v, from), pc[p] \in {"user", "setup"},
         from = "swap" => \E s \in Slot : table[p][v] = InSwap(s),
         from = "file" => table[p][v] = InFile,
         from = "stack" => v \in Stack /\ table[p][v] = Nowhere
  PROVE  Inv'
<1> USE DEF Inv, Asks, Goto
<1>1. TypeOK'
  BY DEF TypeOK
<1>2. \A q \in Proc : pc[q] \notin HasLock
  BY Pages DEF LockOK
<1>3. \A q \in Proc : pc'[q] = IF q = p THEN "get" ELSE pc[q]
  BY DEF TypeOK
<1>4. LockOK'
  BY <1>2, <1>3, Pages DEF LockOK, HasLock, HasFrame
<1>5. GoneOK' /\ MapsOwn' /\ ContentOK'
  BY <1>3 DEF GoneOK, MapsOwn, ContentOK
<1>6. Marked' /\ NothingLeaks'
  BY DEF Marked, NothingLeaks, FramesOf, SlotsOf
<1>7. HandlerOK'
  <2>1. fault'[p] = [page |-> v, from |-> from]
    BY DEF TypeOK
  <2>2. FaultOK(p)'
    BY <2>1 DEF FaultOK
  <2> QED  BY <1>2, <1>3, <2>2 DEF HandlerOK, HasLock
<1>8. StackOK'
  <2>1. fault'[p] = [page |-> v, from |-> from]
    BY DEF TypeOK
  <2>2. Solid(p)
    BY DEF StackOK
  <2>3. ASSUME from = "stack" PROVE Growing(p)'
    <3> DEFINE top == bottom[p] + v - v
    <3>1. v \in Stack /\ v \in Int /\ bottom[p] \in Int /\ bottom[p] >= -1 /\ v > bottom[p]
      BY <2>2, <2>3, SizeAssumption DEF Solid, TypeOK, Stack
    <3>2. top = bottom[p]
      BY <3>1
    <3>3. \A w \in Stack : table[p][w] = Nowhere <=> (top < w /\ w <= v) \/ w > v
      <4>1. \A w \in Stack : w \in Int
        BY Pages
      <4>2. \A w \in Stack : table[p][w] = Nowhere <=> w > bottom[p]
        BY <2>2 DEF Solid
      <4> QED  BY <4>1, <4>2, <3>1
    <3>4. /\ -1 <= top /\ top < v /\ v <= v
          /\ \A w \in Stack : table'[p][w] = Nowhere <=> (top < w /\ w <= v) \/ w > v
      BY <3>1, <3>2, <3>3
    <3>5. bottom' = bottom /\ fault'[p].page = v
      BY <2>1
    <3> QED  BY <3>1, <3>4, <3>5 DEF Growing
  <2>4. \A q \in Proc : Solid(q) => Solid(q)'
    BY DEF Solid
  <2> QED  BY <1>2, <1>3, <2>1, <2>2, <2>3, <2>4 DEF StackOK, HasLock
<1>map. Mapped'
  BY DEF Mapped
<1> QED  BY <1>map, <1>1, <1>4, <1>5, <1>6, <1>7, <1>8

\* The least of a set of numbers, by way of the sets 0..n.
LEMMA LowestIs ==
  ASSUME NEW S, S \subseteq Nat, S # {}
  PROVE  Lowest(S) \in S
<1> DEFINE T == {0..n : n \in S}
<1>1. T \subseteq FiniteSubsetsOf(Nat) /\ T # {}
  <2>1. \A n \in S : IsFiniteSet(0..n) /\ 0..n \subseteq Nat
    BY FS_Interval
  <2> QED  BY <2>1 DEF FiniteSubsetsOf
<1>2. PICK u \in T : \A w \in T : <<w, u>> \notin StrictSubsetOrdering(Nat)
  BY <1>1, FS_StrictSubsetOrderingWellFounded, WFMin
<1>3. PICK n \in S : u = 0..n
  OBVIOUS
<1>4. ASSUME NEW m \in S, m < n
      PROVE  FALSE
  <2>1. 0..m \in T /\ 0..m \subseteq 0..n /\ 0..m # 0..n /\ 0..m \subseteq Nat /\ 0..n \subseteq Nat
    BY <1>4
  <2> QED  BY <1>2, <1>3, <2>1 DEF StrictSubsetOrdering
<1>5. \A m \in S : n <= m
  BY <1>4
<1> QED  BY <1>5 DEF Lowest

LEMMA OneInside ==
  ASSUME Inv, NEW p \in Proc, pc[p] \in HasLock
  PROVE  holder = p /\ \A q \in Proc : pc[q] \in HasLock => q = p
BY DEF Inv, LockOK

\* A page is in a frame or slot that has an owner.
LEMMA Taken ==
  ASSUME Inv, NEW p \in Proc, NEW v \in Page
  PROVE  /\ \A f \in Frame : table[p][v] = InFrame(f) => frame[f].owner # Nobody
         /\ \A s \in Slot : table[p][v] = InSwap(s) => swap[s].owner # Nobody
BY Pages DEF Inv, Marked

LEMMA FaultKillsStep ==
  ASSUME Inv, NEW p \in Proc, NEW v \in Page, FaultKills(p, v)
  PROVE  Inv'
<1> USE DEF Inv, FaultKills, Goto
<1>1. TypeOK'
  BY DEF TypeOK
<1>2. \A q \in Proc : pc'[q] = IF q = p THEN "killed" ELSE pc[q]
  BY DEF TypeOK
<1>3. LockOK' /\ GoneOK' /\ MapsOwn' /\ ContentOK'
  BY <1>2 DEF LockOK, GoneOK, MapsOwn, ContentOK, HasLock, HasFrame
<1>4. Marked' /\ NothingLeaks'
  BY DEF Marked, NothingLeaks, FramesOf, SlotsOf
<1>5. HandlerOK'
  BY <1>2 DEF HandlerOK, VictimOK, GivenOK, FaultOK, HasLock
<1>6. StackOK'
  BY <1>2 DEF StackOK, Solid, Growing, HasLock
<1>map. Mapped'
  BY DEF Mapped
<1> QED  BY <1>map, <1>1, <1>3, <1>4, <1>5, <1>6

LEMMA TakeFreeStep ==
  ASSUME Inv, NEW p \in Proc, TakeFree(p)
  PROVE  Inv'
<1> USE DEF Inv
<1> DEFINE g == Lowest(FreeFrames)
<1>1. g \in Frame /\ frame[g].owner = Nobody
  <2>1. FreeFrames # {} /\ FreeFrames \subseteq Nat
    BY SizeAssumption DEF TakeFree, FreeFrames, Frame
  <2> QED  BY <2>1, LowestIs DEF FreeFrames
<1>2. /\ pc[p] = "get"
      /\ frame' = [frame EXCEPT ![g] = [@ EXCEPT !.owner = p]]
      /\ fte' = g
      /\ pc' = [pc EXCEPT ![p] = "put"]
      /\ UNCHANGED <<swap, table, map, accessed, bottom, hand, holder, fault, panic>>
  BY DEF TakeFree, Goto
<1> HIDE DEF g
<1>3. \A q \in Proc : pc'[q] = IF q = p THEN "put" ELSE pc[q]
  BY <1>2 DEF TypeOK
<1>4. /\ frame'[g] = [frame[g] EXCEPT !.owner = p]
      /\ \A f \in Frame : f # g => frame'[f] = frame[f]
      /\ frame'[g].owner = p /\ frame'[g].data = Fresh
  BY <1>1, <1>2 DEF TypeOK, Held, ContentOK
<1>5. \A q \in Proc, v \in Page : table[q][v] # InFrame(g)
  BY <1>1, Taken
<1>6. \A q \in Proc : pc[q] \in HasLock => q = p
  BY <1>2, OneInside DEF HasLock
<1>7. TypeOK'
  <2>1. frame \in [Frame -> Held] /\ frame[g] \in Held
    BY <1>1 DEF TypeOK
  <2>2. [frame[g] EXCEPT !.owner = p] \in Held
    BY <2>1 DEF Held
  <2>3. frame' \in [Frame -> Held]
    BY <1>2, <2>1, <2>2
  <2>4. pc' \in [Proc -> {"none", "setup", "user", "get", "unmap", "write", "put", "killed", "dying"}]
    BY <1>2 DEF TypeOK
  <2> QED  BY <1>1, <1>2, <2>3, <2>4 DEF TypeOK
<1>8. LockOK'
  BY <1>1, <1>2, <1>3, <1>6, OneInside, Pages DEF LockOK, HasLock, HasFrame
<1>9. GoneOK' /\ MapsOwn'
  BY <1>2, <1>3 DEF GoneOK, MapsOwn
<1>10. Marked' /\ ContentOK'
  BY <1>2, <1>4, <1>5, Pages DEF Marked, ContentOK
<1>11. NothingLeaks'
  <2>1. \A q : FramesOf(q)' = FramesOf(q) /\ SlotsOf(q)' = SlotsOf(q)
    BY <1>2 DEF FramesOf, SlotsOf
  <2>2. fte = Nobody
    BY <1>2 DEF LockOK
  <2> QED  BY <1>1, <1>2, <1>4, <2>1, <2>2, Pages DEF NothingLeaks
<1>12. HandlerOK'
  <2>1. GivenOK(p)'
    BY <1>2, <1>4, <1>5 DEF GivenOK
  <2>2. FaultOK(p)'
    BY <1>2 DEF HandlerOK, FaultOK, HasLock
  <2> QED  BY <1>3, <1>6, <2>1, <2>2 DEF HandlerOK, HasLock
<1>13. StackOK'
  BY <1>2, <1>3 DEF StackOK, Solid, Growing, HasLock
<1>map. Mapped'
  <2>1. fte = Nobody
    BY <1>2 DEF LockOK
  <2> QED  BY <1>2, <2>1, Pages DEF Mapped
<1> QED  BY <1>map, <1>7, <1>8, <1>9, <1>10, <1>11, <1>12, <1>13

\* The owner of a frame has a page in it, as long as nobody is getting one.
LEMMA Occupied ==
  ASSUME Inv, fte = Nobody, NEW f \in Frame, frame[f].owner # Nobody
  PROVE  /\ frame[f].owner \in Proc /\ frame[f].page \in Page
         /\ table[frame[f].owner][frame[f].page] = InFrame(f)
         /\ Live(frame[f].owner)
<1>1. frame[f].owner \in Proc
  BY DEF Inv, TypeOK, Held
<1>2. PICK v \in Page : table[frame[f].owner][v] = InFrame(f)
  BY <1>1, Pages DEF Inv, NothingLeaks, FramesOf
<1>3. frame[f].page = v
  BY <1>1, <1>2 DEF Inv, Marked
<1>4. Live(frame[f].owner)
  BY <1>1, <1>2, PlaceFacts DEF Inv, GoneOK, Live
<1> QED  BY <1>1, <1>2, <1>3, <1>4

LEMMA ClockTurnStep ==
  ASSUME Inv, NEW p \in Proc, ClockTurn(p)
  PROVE  Inv' /\ ~panic'
<1> USE DEF Inv
<1> DEFINE o == frame[hand].owner
           v == frame[hand].page
<1>1. hand \in Frame /\ fte = Nobody /\ pc[p] = "get" /\ frame[hand].owner # Nobody
  BY DEF ClockTurn, TypeOK, LockOK, FreeFrames
<1>2. o \in Proc /\ v \in Page /\ table[o][v] = InFrame(hand) /\ Live(o)
  BY <1>1, Occupied
<1>3. /\ panic' = FALSE
      /\ hand' = (hand + 1) % NumFrames
      /\ \/ /\ accessed' = [accessed EXCEPT ![o] = @ \ {v}]
            /\ UNCHANGED <<fte, pc>>
         \/ /\ fte' = hand
            /\ pc' = [pc EXCEPT ![p] = "unmap"]
            /\ UNCHANGED accessed
      /\ UNCHANGED <<frame, swap, table, map, bottom, holder, fault>>
  BY <1>2 DEF ClockTurn, Goto
<1>4. hand' \in Frame
  BY <1>1, <1>3, SizeAssumption DEF Frame
<1>5. \A q \in Proc : pc[q] \in HasLock => q = p
  BY <1>1, OneInside DEF HasLock
<1>6. \A q \in Proc : q # p => pc'[q] = pc[q]
  BY <1>3 DEF TypeOK
<1>7. (pc'[p] = "get" /\ fte' = Nobody) \/ (pc'[p] = "unmap" /\ fte' = hand)
  BY <1>1, <1>3 DEF TypeOK
<1> HIDE DEF o, v
<1>8. TypeOK'
  <2>1. accessed' \in [Proc -> SUBSET Page]
    BY <1>2, <1>3, ZenonT(40) DEF TypeOK
  <2>2. pc' \in [Proc -> {"none", "setup", "user", "get", "unmap", "write", "put", "killed", "dying"}]
    BY <1>3 DEF TypeOK
  <2> QED  BY <1>1, <1>3, <1>4, <2>1, <2>2 DEF TypeOK
<1>9. LockOK'
  BY <1>1, <1>3, <1>5, <1>6, <1>7, OneInside, Pages DEF LockOK, HasLock, HasFrame
<1>10. GoneOK' /\ MapsOwn'
  BY <1>1, <1>3, <1>6, <1>7 DEF GoneOK, MapsOwn
<1>11. Marked' /\ ContentOK'
  BY <1>3 DEF Marked, ContentOK
<1>12. NothingLeaks'
  <2>1. \A q : FramesOf(q)' = FramesOf(q) /\ SlotsOf(q)' = SlotsOf(q)
    BY <1>3 DEF FramesOf, SlotsOf
  <2> QED  BY <1>1, <1>3, <2>1, Pages DEF NothingLeaks
<1>13. HandlerOK'
  <2>1. pc'[p] = "unmap" => VictimOK(p)'
    BY <1>2, <1>3, <1>7 DEF VictimOK, o, v
  <2>2. FaultOK(p)'
    BY <1>1, <1>3 DEF HandlerOK, FaultOK, HasLock
  <2> QED  BY <1>5, <1>6, <1>7, <2>1, <2>2 DEF HandlerOK, HasLock
<1>14. StackOK'
  BY <1>1, <1>3, <1>6, <1>7 DEF StackOK, Solid, Growing, HasLock
<1>map. Mapped'
  BY <1>1, <1>3, Pages DEF Mapped
<1> QED  BY <1>map, <1>3, <1>8, <1>9, <1>10, <1>11, <1>12, <1>13, <1>14

LEMMA UnmapStep ==
  ASSUME Inv, NEW p \in Proc, Unmap(p)
  PROVE  Inv' /\ ~panic'
<1> USE DEF Inv
<1> DEFINE o == frame[fte].owner
           v == frame[fte].page
<1>1. pc[p] = "unmap" /\ fte \in Frame
  BY DEF Unmap, LockOK, HasFrame
<1>2. o \in Proc /\ v \in Page /\ table[o][v] = InFrame(fte)
  BY <1>1 DEF HandlerOK, VictimOK
<1>3. /\ map' = [map EXCEPT ![o][v] = Nobody]
      /\ panic' = FALSE
      /\ pc' = [pc EXCEPT ![p] = "write"]
      /\ UNCHANGED <<frame, swap, table, accessed, bottom, hand, holder, fault, fte>>
  BY <1>1, <1>2, PlaceFacts DEF Unmap, Goto
<1> HIDE DEF o, v
<1>4. \A q \in Proc : pc'[q] = IF q = p THEN "write" ELSE pc[q]
  BY <1>3 DEF TypeOK
<1>5. \A q \in Proc, w \in Page : map'[q][w] = IF q = o /\ w = v THEN Nobody ELSE map[q][w]
  BY <1>2, <1>3 DEF TypeOK
<1>6. \A q \in Proc : pc[q] \in HasLock => q = p
  BY <1>1, OneInside DEF HasLock
<1>7. TypeOK'
  BY <1>2, <1>3 DEF TypeOK
<1>8. LockOK'
  BY <1>1, <1>3, <1>4 DEF LockOK, HasLock, HasFrame
<1>9. GoneOK' /\ MapsOwn'
  BY <1>1, <1>3, <1>4, <1>5 DEF GoneOK, MapsOwn
<1>10. Marked' /\ ContentOK'
  BY <1>3 DEF Marked, ContentOK
<1>11. NothingLeaks'
  BY <1>3 DEF NothingLeaks, FramesOf, SlotsOf
<1>12. HandlerOK'
  <2>1. VictimOK(p)'
    BY <1>2, <1>3, <1>5 DEF VictimOK, o, v
  <2>2. FaultOK(p)'
    BY <1>1, <1>3 DEF HandlerOK, FaultOK, HasLock
  <2> QED  BY <1>4, <1>6, <2>1, <2>2 DEF HandlerOK, HasLock
<1>13. StackOK'
  BY <1>1, <1>3, <1>4 DEF StackOK, Solid, Growing, HasLock
<1>map. Mapped'
  BY <1>1, <1>2, <1>3, <1>5, PlaceFacts DEF Mapped
<1> QED  BY <1>map, <1>3, <1>7, <1>8, <1>9, <1>10, <1>11, <1>12, <1>13

\* Nothing but pc, and panic, when there is no slot for the victim.
LEMMA NoSlotStep ==
  ASSUME Inv, NEW p \in Proc, pc[p] = "write", pc' = [pc EXCEPT ![p] = "put"], panic' = TRUE,
         UNCHANGED <<frame, swap, table, map, accessed, bottom, hand, holder, fault, fte>>
  PROVE  Inv'
<1> USE DEF Inv
<1>1. \A q \in Proc : pc'[q] = IF q = p THEN "put" ELSE pc[q]
  BY DEF TypeOK
<1>2. \A q \in Proc : pc[q] \in HasLock => q = p
  BY OneInside DEF HasLock
<1>3. TypeOK'
  BY DEF TypeOK
<1>4. LockOK'
  BY <1>1 DEF LockOK, HasLock, HasFrame
<1>5. GoneOK' /\ MapsOwn' /\ Marked' /\ ContentOK'
  BY <1>1 DEF GoneOK, MapsOwn, Marked, ContentOK
<1>6. NothingLeaks'
  BY DEF NothingLeaks, FramesOf, SlotsOf
<1>7. HandlerOK'
  <2>1. FaultOK(p)'
    BY DEF HandlerOK, FaultOK, HasLock
  <2> QED  BY <1>1, <1>2, <2>1 DEF HandlerOK, HasLock
<1>8. StackOK'
  BY <1>1 DEF StackOK, Solid, Growing, HasLock
<1>map. Mapped'
  BY DEF Mapped
<1> QED  BY <1>map, <1>3, <1>4, <1>5, <1>6, <1>7, <1>8

\* The victim v of o leaves its frame: for the file, or for the slot s.
LEMMA EvictStep ==
  ASSUME Inv, NEW p \in Proc, NEW o \in Proc, NEW v \in Page, NEW x \in Place,
         pc[p] = "write", o = frame[fte].owner, v = frame[fte].page,
         \/ v \in Code /\ x = InFile /\ swap' = swap
         \/ /\ v \notin Code
            /\ \E s \in Slot : /\ x = InSwap(s) /\ swap[s].owner = Nobody
                               /\ swap' = [swap EXCEPT ![s] = frame[fte]],
         table' = [table EXCEPT ![o][v] = x],
         frame' = [frame EXCEPT ![fte] = [FreeFrame EXCEPT !.owner = p]],
         pc' = [pc EXCEPT ![p] = "put"],
         UNCHANGED <<map, accessed, bottom, hand, holder, fault, fte, panic>>
  PROVE  Inv'
<1> USE DEF Inv
<1>1. /\ fte \in Frame /\ table[o][v] = InFrame(fte) /\ map[o][v] = Nobody
      /\ \A q \in Proc : pc[q] \in HasLock => q = p
  BY OneInside DEF HandlerOK, VictimOK, LockOK, HasFrame, HasLock
<1>2. \A q \in Proc : pc'[q] = IF q = p THEN "put" ELSE pc[q]
  BY DEF TypeOK
<1>3. \A q \in Proc, w \in Page : table'[q][w] = IF q = o /\ w = v THEN x ELSE table[q][w]
  BY DEF TypeOK
<1>4. \A q \in Proc, w \in Page : table[q][w] = InFrame(fte) <=> q = o /\ w = v
  BY <1>1 DEF Marked
<1>5. /\ frame'[fte].owner = p /\ frame'[fte].data = Fresh
      /\ \A f \in Frame : f # fte => frame'[f] = frame[f]
  <2>1. frame'[fte] = [FreeFrame EXCEPT !.owner = p]
    BY <1>1 DEF TypeOK
  <2> QED  BY <1>1, <2>1 DEF TypeOK, FreeFrame
<1>6. x # Nowhere /\ \A f \in Frame : x # InFrame(f)
  BY PlaceFacts
<1>7. \A q \in Proc, w \in Page : table'[q][w] # InFrame(fte)
  BY <1>1, <1>3, <1>4, <1>6
<1>8. \A q \in Proc, w \in Page, f \in Frame : f # fte =>
        (table'[q][w] = InFrame(f) <=> table[q][w] = InFrame(f))
  BY <1>1, <1>3, <1>6, PlaceFacts
<1>9. \A q \in Proc, w \in Page : table'[q][w] = Nowhere <=> table[q][w] = Nowhere
  BY <1>1, <1>3, <1>6, PlaceFacts
<1>10. \A q \in Proc, w \in Page, s \in Slot : table[q][w] = InSwap(s) =>
         table'[q][w] = InSwap(s) /\ swap'[s] = swap[s] /\ x # InSwap(s)
  <2> SUFFICES ASSUME NEW q \in Proc, NEW w \in Page, NEW s \in Slot, table[q][w] = InSwap(s)
               PROVE  table'[q][w] = InSwap(s) /\ swap'[s] = swap[s] /\ x # InSwap(s)
    OBVIOUS
  <2>1. swap[s].owner # Nobody
    BY Taken
  <2>2. x # InSwap(s)
    BY <2>1, PlaceFacts
  <2>3. swap'[s] = swap[s]
    BY <2>2, PlaceFacts DEF TypeOK
  <2>4. table'[q][w] = InSwap(s)
    BY <1>1, <1>3, PlaceFacts
  <2> QED  BY <2>2, <2>3, <2>4
<1>11. ASSUME NEW s \in Slot, x = InSwap(s)
       PROVE  swap'[s].owner = o /\ swap'[s].page = v
  <2>1. swap' = [swap EXCEPT ![s] = frame[fte]]
    BY <1>11, PlaceFacts
  <2>2. swap'[s] = frame[fte]
    BY <2>1 DEF TypeOK
  <2> QED  BY <2>2
<1>12. TypeOK'
  <2>1. [FreeFrame EXCEPT !.owner = p] \in Held
    BY DEF FreeFrame, Held, Content
  <2>2. frame' \in [Frame -> Held]
    BY <2>1 DEF TypeOK
  <2>3. swap' \in [Slot -> Held]
    BY <1>1 DEF TypeOK
  <2>4. table' \in [Proc -> [Page -> Place]]
    BY DEF TypeOK, Place
  <2>5. pc' \in [Proc -> {"none", "setup", "user", "get", "unmap", "write", "put", "killed", "dying"}]
    BY DEF TypeOK
  <2> QED  BY <2>2, <2>3, <2>4, <2>5 DEF TypeOK, Place
<1>13. LockOK'
  BY <1>1, <1>2 DEF LockOK, HasLock, HasFrame
<1>14. GoneOK'
  BY <1>2, <1>9 DEF GoneOK
<1>15. MapsOwn'
  BY <1>1, <1>2, <1>3 DEF MapsOwn
<1>16. Marked'
  <2>1. ASSUME NEW q \in Proc, NEW w \in Page, NEW f \in Frame, table'[q][w] = InFrame(f)
        PROVE  frame'[f].owner = q /\ frame'[f].page = w
    BY <1>5, <1>7, <1>8, <2>1 DEF Marked
  <2>2. ASSUME NEW q \in Proc, NEW w \in Page, NEW s \in Slot, table'[q][w] = InSwap(s)
        PROVE  swap'[s].owner = q /\ swap'[s].page = w
    BY <1>3, <1>10, <1>11, <2>2 DEF Marked
  <2> QED  BY <2>1, <2>2 DEF Marked
<1>17. NothingLeaks'
  <2>1. ASSUME NEW f \in Frame, frame'[f].owner # Nobody, f # fte
        PROVE  (f \in FramesOf(frame[f].owner))'
    <3>1. frame[f].owner \in Proc /\ frame'[f] = frame[f] /\ f \in FramesOf(frame[f].owner)
      BY <1>5, <2>1 DEF NothingLeaks, TypeOK, Held
    <3> QED  BY <1>8, <2>1, <3>1 DEF FramesOf
  <2>2. ASSUME NEW s \in Slot, swap'[s].owner # Nobody
        PROVE  (s \in SlotsOf(swap[s].owner))'
    <3>1. CASE x = InSwap(s)
      BY <1>3, <1>11, <3>1 DEF SlotsOf
    <3>2. CASE x # InSwap(s)
      <4>1. swap'[s] = swap[s]
        BY <3>2 DEF TypeOK
      <4>2. swap[s].owner \in Proc /\ s \in SlotsOf(swap[s].owner)
        BY <2>2, <4>1 DEF NothingLeaks, TypeOK, Held
      <4> QED  BY <1>10, <4>1, <4>2 DEF SlotsOf
    <3> QED  BY <3>1, <3>2
  <2> QED  BY <2>1, <2>2 DEF NothingLeaks
<1>18. HandlerOK'
  <2>1. GivenOK(p)'
    BY <1>5, <1>7 DEF GivenOK
  <2>2. FaultOK(p)
    BY DEF HandlerOK, HasLock
  <2>3. FaultOK(p)'
    BY <1>1, <1>3, <1>10, <2>2, PlaceFacts DEF FaultOK
  <2> QED  BY <1>1, <1>2, <2>1, <2>3 DEF HandlerOK, HasLock
<1>19. StackOK'
  <2>1. \A q \in Proc : (Solid(q) => Solid(q)') /\ (Growing(q) => Growing(q)')
    BY <1>9, Pages DEF Solid, Growing
  <2> QED  BY <1>2, <2>1 DEF StackOK, HasLock
<1>20. ContentOK'
  <2>1. \A f \in Frame : frame'[f].owner = Nobody => frame'[f].data = Fresh
    BY <1>5 DEF ContentOK
  <2>2. ASSUME NEW q \in Proc, NEW w \in Code
        PROVE  /\ \A f \in Frame : table'[q][w] = InFrame(f) => frame'[f].data = File
               /\ \A s \in Slot : table'[q][w] # InSwap(s)
    BY <1>3, <1>5, <1>7, <1>8, Pages, PlaceFacts DEF ContentOK
  <2> QED  BY <2>1, <2>2 DEF ContentOK
<1>map. Mapped'
  BY <1>7, <1>8 DEF Mapped
<1> QED  BY <1>map, <1>12, <1>13, <1>14, <1>15, <1>16, <1>17, <1>18, <1>19, <1>20

LEMMA WriteSwapStep ==
  ASSUME Inv, NEW p \in Proc, WriteSwap(p)
  PROVE  Inv'
<1> DEFINE o == frame[fte].owner
           v == frame[fte].page
           s == Lowest(FreeSlots)
<1>1. pc[p] = "write" /\ panic = FALSE
  BY DEF WriteSwap, Inv, TypeOK
<1>2. o \in Proc /\ v \in Page
  BY <1>1 DEF Inv, HandlerOK, VictimOK
<1>3. /\ pc' = [pc EXCEPT ![p] = "put"]
      /\ frame' = IF panic' THEN frame ELSE [frame EXCEPT ![fte] = [FreeFrame EXCEPT !.owner = p]]
      /\ UNCHANGED <<map, accessed, bottom, hand, holder, fault, fte>>
  BY DEF WriteSwap, Goto
<1>4. CASE v \in Code
  <2>1. table' = [table EXCEPT ![o][v] = InFile] /\ UNCHANGED <<swap, panic>>
    BY <1>4 DEF WriteSwap
  <2> QED  BY <1>1, <1>2, <1>3, <1>4, <2>1, EvictStep DEF Place
<1>5. CASE v \notin Code /\ FreeSlots = {}
  <2>1. panic' = TRUE /\ UNCHANGED <<swap, table>>
    BY <1>5 DEF WriteSwap
  <2> QED  BY <1>1, <1>3, <2>1, NoSlotStep
<1>6. CASE v \notin Code /\ FreeSlots # {}
  <2>1. s \in Slot /\ swap[s].owner = Nobody
    <3>1. FreeSlots \subseteq Nat
      BY SizeAssumption DEF FreeSlots, Slot
    <3> QED  BY <1>6, <3>1, LowestIs DEF FreeSlots
  <2>2. swap' = [swap EXCEPT ![s] = frame[fte]] /\ table' = [table EXCEPT ![o][v] = InSwap(s)] /\ UNCHANGED panic
    BY <1>6 DEF WriteSwap
  <2>3. InSwap(s) \in Place
    BY <2>1 DEF Place
  <2> HIDE DEF s
  <2> QED  BY <1>1, <1>2, <1>3, <1>6, <2>1, <2>2, <2>3, EvictStep
<1> QED  BY <1>4, <1>5, <1>6

\* What installing a page does to each entry of the tables.
Installed(p, v, x) ==
  /\ fte \in Frame /\ fte' = Nobody /\ panic' = FALSE
  /\ frame'[fte] = [owner |-> p, page |-> v, data |-> x]
  /\ \A f \in Frame : f # fte => frame'[f] = frame[f]
  /\ \A q \in Proc, w \in Page :
       /\ table[q][w] # InFrame(fte)
       /\ table'[q][w] = IF q = p /\ w = v THEN InFrame(fte) ELSE table[q][w]
       /\ map'[q][w] = IF q = p /\ w = v THEN fte ELSE map[q][w]
       /\ table'[q][w] = Nowhere <=> table[q][w] = Nowhere /\ ~(q = p /\ w = v)
  /\ \A q \in Proc : pc[q] \in HasLock <=> q = p

LEMMA InstallFacts ==
  ASSUME Inv, NEW p \in Proc, NEW v \in Page, NEW x, Install(p, v, x), pc[p] = "put", ~panic,
         \A f \in Frame : table[p][v] # InFrame(f)
  PROVE  Installed(p, v, x)
<1> USE DEF Inv, Install
<1>1. fte \in Frame
  BY DEF LockOK, HasFrame
<1>2. map[p][v] = Nobody
  <2>1. map[p][v] \in Frame \cup {Nobody}
    BY DEF TypeOK
  <2>2. map[p][v] # Nobody => table[p][v] = InFrame(map[p][v])
    BY DEF MapsOwn
  <2> QED  BY <2>1, <2>2
<1>3. \A q \in Proc : pc[q] \in HasLock <=> q = p
  BY OneInside DEF HasLock
<1>4. \A q \in Proc, w \in Page : table[q][w] # InFrame(fte)
  BY DEF HandlerOK, GivenOK
<1>5. \A q \in Proc, w \in Page :
        /\ table'[q][w] = IF q = p /\ w = v THEN InFrame(fte) ELSE table[q][w]
        /\ map'[q][w] = IF q = p /\ w = v THEN fte ELSE map[q][w]
  BY DEF TypeOK
<1>6. \A q \in Proc, w \in Page : table'[q][w] = Nowhere <=> table[q][w] = Nowhere /\ ~(q = p /\ w = v)
  BY <1>1, <1>5, PlaceFacts
<1>7. /\ frame'[fte] = [owner |-> p, page |-> v, data |-> x]
      /\ \A f \in Frame : f # fte => frame'[f] = frame[f]
  BY <1>1 DEF TypeOK
<1> QED  BY <1>1, <1>2, <1>3, <1>4, <1>5, <1>6, <1>7 DEF Installed

\* The page v of p gets the frame, from the file, from a slot or as a new one.
LEMMA InstallStep ==
  ASSUME Inv, NEW p \in Proc, NEW v \in Page, NEW x \in Content, Install(p, v, x),
         pc[p] = "put", ~panic,
         v \in Code => x = File,
         \/ table[p][v] \in {Nowhere, InFile} /\ swap' = swap
         \/ \E s \in Slot : table[p][v] = InSwap(s) /\ swap' = [swap EXCEPT ![s] = FreeSlot],
         \/ /\ pc' = [pc EXCEPT ![p] = "user"] /\ holder' = Nobody
            /\ fault' = [fault EXCEPT ![p] = NoFault] /\ Solid(p)'
         \/ /\ pc' = [pc EXCEPT ![p] = "get"] /\ UNCHANGED <<holder, fault>>
            /\ fault[p].from = "stack" /\ Growing(p)',
         bottom' \in [Proc -> -1..(Depth - 1)], \A q \in Proc : q # p => bottom'[q] = bottom[q],
         UNCHANGED hand
  PROVE  Inv'
<1> USE DEF Inv
<1>0. \A f \in Frame : table[p][v] # InFrame(f)
  BY PlaceFacts
<1>1. /\ fte \in Frame /\ fte' = Nobody /\ panic' = FALSE
      /\ frame'[fte] = [owner |-> p, page |-> v, data |-> x]
      /\ \A f \in Frame : f # fte => frame'[f] = frame[f]
      /\ \A q \in Proc, w \in Page :
           /\ table[q][w] # InFrame(fte)
           /\ table'[q][w] = IF q = p /\ w = v THEN InFrame(fte) ELSE table[q][w]
           /\ map'[q][w] = IF q = p /\ w = v THEN fte ELSE map[q][w]
           /\ table'[q][w] = Nowhere <=> table[q][w] = Nowhere /\ ~(q = p /\ w = v)
      /\ \A q \in Proc : pc[q] \in HasLock <=> q = p
  BY <1>0, InstallFacts, ZenonT(40) DEF Installed
<1>2. pc'[p] \in {"user", "get"} /\ \A q \in Proc : q # p => pc'[q] = pc[q]
  BY DEF TypeOK
<1>3. \A q \in Proc, w \in Page, f \in Frame :
        table'[q][w] = InFrame(f) <=> (q = p /\ w = v /\ f = fte) \/ table[q][w] = InFrame(f)
  BY <1>0, <1>1, PlaceFacts
<1>4. \A q \in Proc, w \in Page, s \in Slot :
        table'[q][w] = InSwap(s) <=> table[q][w] = InSwap(s) /\ ~(q = p /\ w = v)
  BY <1>1, PlaceFacts
<1>5. \A s \in Slot : swap'[s] = IF table[p][v] = InSwap(s) THEN FreeSlot ELSE swap[s]
  BY PlaceFacts DEF TypeOK
<1>6. TypeOK'
  <2>1. [owner |-> p, page |-> v, data |-> x] \in Held /\ FreeSlot \in Held
    BY DEF Held, FreeSlot, Content
  <2>2. frame' \in [Frame -> Held]
    BY <2>1 DEF Install, TypeOK
  <2>3. swap' \in [Slot -> Held]
    BY <2>1 DEF TypeOK
  <2>4. table' \in [Proc -> [Page -> Place]]
    BY <1>1, ZenonT(40) DEF Install, TypeOK, Place
  <2>5. map' \in [Proc -> [Page -> Frame \cup {Nobody}]]
    BY <1>1 DEF Install, TypeOK
  <2>6. accessed' \in [Proc -> SUBSET Page]
    BY DEF Install, TypeOK
  <2>7. pc' \in [Proc -> {"none", "setup", "user", "get", "unmap", "write", "put", "killed", "dying"}]
    BY DEF TypeOK
  <2>8. fault' \in [Proc -> [page : Page \cup {Nobody}, from : {"none", "swap", "file", "stack"}]]
    <3>1. NoFault \in [page : Page \cup {Nobody}, from : {"none", "swap", "file", "stack"}]
      BY DEF NoFault
    <3> QED  BY <3>1 DEF TypeOK
  <2>9. holder' \in Proc \cup {Nobody} /\ hand' \in Frame
    BY DEF TypeOK
  <2> QED  BY <1>1, <2>2, <2>3, <2>4, <2>5, <2>6, <2>7, <2>8, <2>9 DEF TypeOK, Place
<1>7. LockOK'
  <2>1. \A q \in Proc : pc'[q] \in HasLock <=> holder' = q
    BY <1>1, <1>2, Pages DEF LockOK, HasLock, TypeOK
  <2>2. \A q \in Proc : pc'[q] \notin HasFrame
    BY <1>1, <1>2 DEF HasLock, HasFrame
  <2> QED  BY <1>1, <2>1, <2>2 DEF LockOK
<1>8. GoneOK'
  BY <1>1, <1>2 DEF GoneOK
<1>9. MapsOwn'
  BY <1>1, <1>2 DEF MapsOwn
<1>10. Marked'
  <2>1. ASSUME NEW q \in Proc, NEW w \in Page, NEW f \in Frame, table'[q][w] = InFrame(f)
        PROVE  frame'[f].owner = q /\ frame'[f].page = w
    BY <1>1, <1>3, <2>1 DEF Marked
  <2>2. ASSUME NEW q \in Proc, NEW w \in Page, NEW s \in Slot, table'[q][w] = InSwap(s)
        PROVE  swap'[s].owner = q /\ swap'[s].page = w
    <3>1. table[q][w] = InSwap(s) /\ ~(q = p /\ w = v)
      BY <1>4, <2>2
    <3>2. table[p][v] # InSwap(s)
      BY <3>1 DEF Marked
    <3> QED  BY <1>5, <3>1, <3>2 DEF Marked
  <2> QED  BY <2>1, <2>2 DEF Marked
<1>11. NothingLeaks'
  <2>1. ASSUME NEW f \in Frame, frame'[f].owner # Nobody
        PROVE  \E w \in Page : table'[frame'[f].owner][w] = InFrame(f)
    <3>1. CASE f = fte
      BY <1>1, <3>1
    <3>2. CASE f # fte
      <4>1. frame'[f] = frame[f]
        BY <1>1, <3>2
      <4>2. PICK w \in Page : table[frame[f].owner][w] = InFrame(f)
        BY <2>1, <3>2, <4>1 DEF NothingLeaks, FramesOf
      <4>3. frame[f].owner \in Proc
        BY <2>1, <4>1 DEF TypeOK, Held
      <4> QED  BY <1>3, <4>1, <4>2, <4>3
    <3> QED  BY <3>1, <3>2
  <2>2. ASSUME NEW s \in Slot, swap'[s].owner # Nobody
        PROVE  \E w \in Page : table'[swap'[s].owner][w] = InSwap(s)
    <3>1. table[p][v] # InSwap(s) /\ swap'[s] = swap[s]
      BY <1>5, <2>2 DEF FreeSlot
    <3>2. PICK w \in Page : table[swap[s].owner][w] = InSwap(s)
      BY <2>2, <3>1 DEF NothingLeaks, SlotsOf
    <3>3. swap[s].owner \in Proc
      BY <2>2, <3>1 DEF TypeOK, Held
    <3> QED  BY <1>4, <3>1, <3>2, <3>3
  <2> QED  BY <2>1, <2>2 DEF NothingLeaks, FramesOf, SlotsOf
<1>12. HandlerOK'
  <2>1. pc'[p] = "get" => FaultOK(p)'
    BY DEF HandlerOK, FaultOK, HasLock, TypeOK
  <2> QED  BY <1>1, <1>2, <2>1 DEF HandlerOK, HasLock
<1>13. StackOK'
  <2>1. \A q \in Proc : q # p => (Solid(q) => Solid(q)')
    BY <1>1, Pages, ZenonT(40) DEF Solid
  <2>2. \/ pc'[p] = "user" /\ Solid(p)'
        \/ pc'[p] = "get" /\ fault'[p].from = "stack" /\ Growing(p)'
    BY DEF TypeOK
  <2> QED  BY <1>1, <1>2, <2>1, <2>2 DEF StackOK, HasLock
<1>14. ContentOK'
  <2>1. \A f \in Frame : frame'[f].owner = Nobody => frame'[f].data = Fresh
    BY <1>1, Pages DEF ContentOK
  <2>2. ASSUME NEW q \in Proc, NEW w \in Code
        PROVE  /\ \A f \in Frame : table'[q][w] = InFrame(f) => frame'[f].data = File
               /\ \A s \in Slot : table'[q][w] # InSwap(s)
    BY <1>1, <1>3, <1>4, Pages DEF ContentOK
  <2> QED  BY <2>1, <2>2 DEF ContentOK
<1>map. Mapped'
  BY <1>1, <1>3 DEF Mapped
<1> QED  BY <1>map, <1>6, <1>7, <1>8, <1>9, <1>10, <1>11, <1>12, <1>13, <1>14

LEMMA PutSwapStep ==
  ASSUME Inv, NEW p \in Proc, PutSwap(p)
  PROVE  Inv'
<1>1. pc[p] = "put" /\ ~panic /\ fault[p].from = "swap"
  BY DEF PutSwap
<1>2. FaultOK(p)
  BY <1>1 DEF Inv, HandlerOK, HasLock
<1>0. PICK v \in Page : v = fault[p].page
  BY <1>2 DEF FaultOK
<1>3. PICK s \in Slot : table[p][v] = InSwap(s)
  BY <1>0, <1>1, <1>2 DEF FaultOK
<1>4. table[p][v].at = s
  BY <1>3, FieldFacts
<1>5. swap[s].page = v /\ v \notin Code /\ swap[s].data \in Content
  BY <1>3 DEF Inv, Marked, ContentOK, TypeOK, Held
<1>9. PICK x \in Content : x = swap[s].data
  BY <1>5
<1>6. /\ Install(p, v, x)
      /\ swap' = [swap EXCEPT ![s] = FreeSlot]
      /\ pc' = [pc EXCEPT ![p] = "user"] /\ holder' = Nobody
      /\ fault' = [fault EXCEPT ![p] = NoFault]
      /\ UNCHANGED <<bottom, hand>>
  BY <1>0, <1>4, <1>5, <1>9 DEF PutSwap, Release, Goto
<1>7. Solid(p)'
  <2>1. Solid(p)
    BY <1>1 DEF Inv, StackOK, HasLock
  <2>2. table[p][v] # Nowhere /\ \A f \in Frame : table[p][v] # InFrame(f)
    BY <1>3, PlaceFacts
  <2>3. Installed(p, v, x)
    BY <1>1, <1>6, <2>2, InstallFacts
  <2>4. \A w \in Page : table'[p][w] = Nowhere <=> table[p][w] = Nowhere
    BY <2>2, <2>3 DEF Installed
  <2> QED  BY <1>6, <2>1, <2>4, Pages DEF Solid
<1>8. bottom \in [Proc -> -1..(Depth - 1)]
  BY DEF Inv, TypeOK
<1> QED  BY <1>1, <1>3, <1>4, <1>5, <1>6, <1>7, <1>8, InstallStep

LEMMA PutFileStep ==
  ASSUME Inv, NEW p \in Proc, PutFile(p)
  PROVE  Inv'
<1>1. pc[p] = "put" /\ ~panic /\ fault[p].from = "file"
  BY DEF PutFile
<1>2. PICK v \in Page : v = fault[p].page /\ table[p][v] = InFile /\ File \in Content
  BY <1>1 DEF Inv, HandlerOK, HasLock, FaultOK, Content
<1>3. /\ Install(p, v, File)
      /\ pc' = [pc EXCEPT ![p] = "user"] /\ holder' = Nobody
      /\ fault' = [fault EXCEPT ![p] = NoFault]
      /\ UNCHANGED <<swap, bottom, hand>>
  BY <1>2 DEF PutFile, Release, Goto
<1>4. Solid(p)'
  <2>1. Solid(p)
    BY <1>1 DEF Inv, StackOK, HasLock
  <2>2. table[p][v] # Nowhere /\ \A f \in Frame : table[p][v] # InFrame(f)
    BY <1>2, PlaceFacts
  <2>3. Installed(p, v, File)
    BY <1>1, <1>2, <1>3, <2>2, InstallFacts
  <2>4. \A w \in Page : table'[p][w] = Nowhere <=> table[p][w] = Nowhere
    BY <2>2, <2>3 DEF Installed
  <2> QED  BY <1>3, <2>1, <2>4, Pages DEF Solid
<1>5. bottom \in [Proc -> -1..(Depth - 1)]
  BY DEF Inv, TypeOK
<1> QED  BY <1>1, <1>2, <1>3, <1>4, <1>5, InstallStep

\* The page that is added is the lowest of the gap.
LEMMA NewPage ==
  ASSUME Inv, NEW p \in Proc, PutStack(p)
  PROVE  \E j \in Stack :
           /\ fault[p].page \in Stack /\ bottom[p] < fault[p].page
           /\ bottom[p] + j - fault[p].page \in -1..(j - 1) /\ j <= fault[p].page
           /\ \A v \in Stack : table[p][v] = Nowhere <=>
                (bottom[p] + j - fault[p].page < v /\ v <= j) \/ v > fault[p].page
           /\ Install(p, j, frame[fte].data)
<1> USE DEF Inv
<1>1. pc[p] = "put" /\ ~panic /\ fault[p].from = "stack"
  BY DEF PutStack
<1>2. fault[p].page \in Stack /\ Growing(p)
  BY <1>1 DEF HandlerOK, FaultOK, StackOK, HasLock
<1> DEFINE k == fault[p].page
           b == bottom[p]
           missing == {v \in 0..k : table[p][v] = Nowhere}
<1>3. PICK j \in Stack :
        /\ -1 <= b + j - k /\ b + j - k < j /\ j <= k
        /\ \A v \in Stack : table[p][v] = Nowhere <=> (b + j - k < v /\ v <= j) \/ v > k
  BY <1>2 DEF Growing
<1>4. b \in Int /\ j \in Int /\ k \in Int /\ 0 <= j /\ k <= Depth - 1 /\ 0..k \subseteq Stack
  BY <1>2, SizeAssumption DEF TypeOK, Stack
<1>5. j \in missing /\ \A w \in missing : w <= j
  <2>1. j \in 0..k /\ table[p][j] = Nowhere
    BY <1>3, <1>4
  <2>2. ASSUME NEW w \in 0..k, table[p][w] = Nowhere
        PROVE  w <= j
    BY <1>3, <1>4, <2>2
  <2> QED  BY <2>1, <2>2
<1>6. \A m \in missing : (\A w \in missing : w <= m) => m = j
  BY <1>4, <1>5
<1>7. (CHOOSE v \in missing : \A w \in missing : w <= v) = j
  BY <1>5, <1>6
<1>8. Install(p, j, frame[fte].data)
  BY <1>7 DEF PutStack
<1>9. b < k /\ b + j - k \in -1..(j - 1)
  BY <1>3, <1>4
<1> QED  BY <1>2, <1>3, <1>8, <1>9

LEMMA PutStackStep ==
  ASSUME Inv, NEW p \in Proc, PutStack(p)
  PROVE  Inv'
<1> DEFINE k == fault[p].page
           b == bottom[p]
<1>1. pc[p] = "put" /\ ~panic /\ fault[p].from = "stack"
  BY DEF PutStack
<1>2. PICK j \in Stack :
        /\ k \in Stack /\ b < k
        /\ b + j - k \in -1..(j - 1) /\ j <= k
        /\ \A v \in Stack : table[p][v] = Nowhere <=> (b + j - k < v /\ v <= j) \/ v > k
        /\ Install(p, j, frame[fte].data)
  BY NewPage
<1>3. b \in Int /\ -1 <= b /\ j \in Int /\ k \in Int /\ 0 <= j /\ k <= Depth - 1 /\ \A v \in Stack : v \in Int /\ 0 <= v
  BY <1>2, SizeAssumption DEF Inv, TypeOK, Stack
<1>4. table[p][j] = Nowhere
  BY <1>2, <1>3
<1>5. PICK x \in Content : x = frame[fte].data
  BY <1>1 DEF Inv, LockOK, HasFrame, TypeOK, Held
<1>6. j \in Page /\ j \notin Code
  BY Pages
<1>7. /\ bottom' = [bottom EXCEPT ![p] = b + 1]
      /\ UNCHANGED <<swap, hand>>
      /\ \/ b + 1 < k /\ pc' = [pc EXCEPT ![p] = "get"] /\ UNCHANGED <<holder, fault>>
         \/ /\ ~(b + 1 < k)
            /\ pc' = [pc EXCEPT ![p] = "user"] /\ holder' = Nobody
            /\ fault' = [fault EXCEPT ![p] = NoFault]
  BY DEF PutStack, Release, Goto
<1>12. Install(p, j, x)
  BY <1>2, <1>5
<1>8. \A w \in Stack : table'[p][w] = Nowhere <=> table[p][w] = Nowhere /\ w # j
  <2>1. \A f \in Frame : table[p][j] # InFrame(f)
    BY <1>4, PlaceFacts
  <2>2. Installed(p, j, x)
    BY <1>1, <1>6, <1>12, <2>1, InstallFacts
  <2> QED  BY <2>2, Pages DEF Installed
<1>9. /\ bottom' \in [Proc -> -1..(Depth - 1)] /\ bottom'[p] = b + 1
      /\ \A q \in Proc : q # p => bottom'[q] = bottom[q]
  <2>1. b + 1 \in -1..(Depth - 1)
    BY <1>2, <1>3, SizeAssumption
  <2>2. bottom \in [Proc -> -1..(Depth - 1)]
    BY DEF Inv, TypeOK
  <2> QED  BY <1>7, <2>1, <2>2
<1> HIDE DEF k, b
<1>10. CASE b + 1 < k
  <2>1. fault' = fault /\ pc' = [pc EXCEPT ![p] = "get"]
    BY <1>7, <1>10
  <2>2. j - 1 \in Stack /\ (b + 1) + (j - 1) - k = b + j - k
    BY <1>2, <1>3, <1>10, SizeAssumption DEF Stack
  <2>3. -1 <= b + j - k /\ b + j - k < j - 1 /\ j - 1 <= k
    BY <1>2, <1>3, <1>10
  <2>4. \A v \in Stack : table'[p][v] = Nowhere <=> (b + j - k < v /\ v <= j - 1) \/ v > k
    BY <1>2, <1>3, <1>8
  <2>5. Growing(p)'
    BY <1>9, <2>1, <2>2, <2>3, <2>4 DEF Growing, k
  <2> QED  BY <1>1, <1>2, <1>4, <1>6, <1>7, <1>9, <1>12, <1>10, <2>1, <2>5, InstallStep
<1>11. CASE ~(b + 1 < k)
  <2>1. b + 1 = k /\ b + j - k = j - 1
    BY <1>2, <1>3, <1>11
  <2>2. \A v \in Stack : table'[p][v] = Nowhere <=> v > b + 1
    BY <1>2, <1>3, <1>8, <2>1
  <2>3. Solid(p)'
    BY <1>9, <2>2 DEF Solid
  <2> QED  BY <1>1, <1>2, <1>4, <1>6, <1>7, <1>9, <1>12, <1>11, <2>3, InstallStep
<1> QED  BY <1>10, <1>11

LEMMA FreePageTableStep ==
  ASSUME Inv, NEW p \in Proc, FreePageTable(p)
  PROVE  Inv'
<1> USE DEF Inv
<1>1. /\ pc[p] \in {"user", "killed"} /\ holder = Nobody
      /\ frame' = [f \in Frame |-> IF f \in FramesOf(p) THEN FreeFrame ELSE frame[f]]
      /\ swap' = [s \in Slot |-> IF s \in SlotsOf(p) THEN FreeSlot ELSE swap[s]]
      /\ table' = [table EXCEPT ![p] = [v \in Page |-> Nowhere]]
      /\ pc' = [pc EXCEPT ![p] = "dying"]
      /\ UNCHANGED <<map, accessed, bottom, hand, holder, fault, fte, panic>>
  BY DEF FreePageTable, Goto
<1>2. fte = Nobody /\ \A q \in Proc : pc[q] \notin HasLock
  BY <1>1, Pages DEF LockOK
<1>3. \A q \in Proc : pc'[q] = IF q = p THEN "dying" ELSE pc[q]
  BY <1>1 DEF TypeOK
<1>4. \A q \in Proc, w \in Page : table'[q][w] = IF q = p THEN Nowhere ELSE table[q][w]
  BY <1>1 DEF TypeOK
<1>5. /\ \A f \in Frame : f \in FramesOf(p) <=> frame[f].owner = p
      /\ \A s \in Slot : s \in SlotsOf(p) <=> swap[s].owner = p
  <2>1. ASSUME NEW f \in Frame
        PROVE  f \in FramesOf(p) <=> frame[f].owner = p
    BY <1>2, Pages DEF FramesOf, Marked, NothingLeaks
  <2>2. ASSUME NEW s \in Slot
        PROVE  s \in SlotsOf(p) <=> swap[s].owner = p
    BY Pages DEF SlotsOf, Marked, NothingLeaks
  <2> QED  BY <2>1, <2>2
<1>6. /\ \A f \in Frame : frame'[f] = IF frame[f].owner = p THEN FreeFrame ELSE frame[f]
      /\ \A s \in Slot : swap'[s] = IF swap[s].owner = p THEN FreeSlot ELSE swap[s]
  BY <1>1, <1>5
<1>7. /\ \A f \in Frame : frame'[f].owner # p
      /\ \A f \in Frame : frame'[f].owner # Nobody => frame'[f] = frame[f]
      /\ \A s \in Slot : swap'[s].owner # p
      /\ \A s \in Slot : swap'[s].owner # Nobody => swap'[s] = swap[s]
  BY <1>6, Pages DEF FreeFrame, FreeSlot
<1>8. TypeOK'
  <2>1. FreeFrame \in Held /\ FreeSlot \in Held
    BY DEF FreeFrame, FreeSlot, Held, Content
  <2>2. frame' \in [Frame -> Held] /\ swap' \in [Slot -> Held]
    BY <1>1, <2>1 DEF TypeOK
  <2>3. table' \in [Proc -> [Page -> Place]]
    BY <1>1 DEF TypeOK, Place
  <2>4. pc' \in [Proc -> {"none", "setup", "user", "get", "unmap", "write", "put", "killed", "dying"}]
    BY <1>1 DEF TypeOK
  <2> QED  BY <1>1, <2>2, <2>3, <2>4 DEF TypeOK, Place
<1>9. LockOK' /\ HandlerOK'
  BY <1>1, <1>2, <1>3, Pages DEF LockOK, HandlerOK, HasLock, HasFrame
<1>10. GoneOK' /\ MapsOwn'
  BY <1>1, <1>3, <1>4 DEF GoneOK, MapsOwn
<1>11. Marked'
  <2>1. ASSUME NEW q \in Proc, NEW w \in Page, q # p
        PROVE  /\ \A f \in Frame : table[q][w] = InFrame(f) => frame'[f] = frame[f]
               /\ \A s \in Slot : table[q][w] = InSwap(s) => swap'[s] = swap[s]
    BY <1>6, <2>1 DEF Marked
  <2> QED  BY <1>4, <2>1, PlaceFacts DEF Marked
<1>12. NothingLeaks'
  <2>1. ASSUME NEW f \in Frame, frame'[f].owner # Nobody
        PROVE  \E w \in Page : table'[frame'[f].owner][w] = InFrame(f)
    <3>1. frame'[f] = frame[f] /\ frame[f].owner # p /\ frame[f].owner \in Proc
      BY <1>7, <2>1 DEF TypeOK, Held
    <3>2. PICK w \in Page : table[frame[f].owner][w] = InFrame(f)
      BY <1>2, <2>1, <3>1, Pages DEF NothingLeaks, FramesOf
    <3> QED  BY <1>4, <3>1, <3>2
  <2>2. ASSUME NEW s \in Slot, swap'[s].owner # Nobody
        PROVE  \E w \in Page : table'[swap'[s].owner][w] = InSwap(s)
    <3>1. swap'[s] = swap[s] /\ swap[s].owner # p /\ swap[s].owner \in Proc
      BY <1>7, <2>2 DEF TypeOK, Held
    <3>2. PICK w \in Page : table[swap[s].owner][w] = InSwap(s)
      BY <2>2, <3>1 DEF NothingLeaks, SlotsOf
    <3> QED  BY <1>4, <3>1, <3>2
  <2> QED  BY <2>1, <2>2 DEF NothingLeaks, FramesOf, SlotsOf
<1>13. StackOK'
  <2>1. \A q \in Proc : q # p => (Solid(q) => Solid(q)')
    BY <1>1, <1>4, Pages DEF Solid
  <2> QED  BY <1>1, <1>2, <1>3, <2>1 DEF StackOK, HasLock
<1>14. ContentOK'
  <2>1. \A f \in Frame : frame'[f].owner = Nobody => frame'[f].data = Fresh
    BY <1>6 DEF ContentOK, FreeFrame
  <2>2. ASSUME NEW q \in Proc, NEW w \in Code
        PROVE  /\ \A f \in Frame : table'[q][w] = InFrame(f) => frame'[f].data = File
               /\ \A s \in Slot : table'[q][w] # InSwap(s)
    <3>1. CASE q = p
      BY <1>4, <3>1, Pages, PlaceFacts
    <3>2. CASE q # p
      <4>1. table'[q][w] = table[q][w] /\ \A f \in Frame : table[q][w] = InFrame(f) => frame'[f] = frame[f]
        BY <1>4, <1>6, <3>2, Pages DEF Marked
      <4> QED  BY <4>1 DEF ContentOK
    <3> QED  BY <3>1, <3>2
  <2> QED  BY <2>1, <2>2 DEF ContentOK
<1>map. Mapped'
  BY <1>1, <1>4, PlaceFacts DEF Mapped
<1> QED  BY <1>map, <1>8, <1>9, <1>10, <1>11, <1>12, <1>13, <1>14

LEMMA ProcessExitStep ==
  ASSUME Inv, NEW p \in Proc, ProcessExit(p)
  PROVE  Inv'
<1> USE DEF Inv
<1>1. /\ pc[p] = "dying"
      /\ map' = [map EXCEPT ![p] = [v \in Page |-> Nobody]]
      /\ accessed' = [accessed EXCEPT ![p] = {}]
      /\ table' = [table EXCEPT ![p] = [v \in Page |-> Nowhere]]
      /\ bottom' = [bottom EXCEPT ![p] = -1]
      /\ pc' = [pc EXCEPT ![p] = "none"]
      /\ UNCHANGED <<frame, swap, hand, holder, fault, fte, panic>>
  BY DEF ProcessExit, Goto
<1>2. \A q \in Proc : pc'[q] = IF q = p THEN "none" ELSE pc[q]
  BY <1>1 DEF TypeOK
<1>3. table' = table
  <2>1. \A v \in Page : table[p][v] = Nowhere
    BY <1>1 DEF GoneOK
  <2>2. table[p] = [v \in Page |-> Nowhere]
    BY <2>1 DEF TypeOK
  <2> QED  BY <1>1, <2>2 DEF TypeOK
<1>4. \A q \in Proc, v \in Page : map'[q][v] = IF q = p THEN Nobody ELSE map[q][v]
  BY <1>1 DEF TypeOK
<1>5. TypeOK'
  <2>1. -1 \in -1..(Depth - 1)
    BY SizeAssumption
  <2>2. bottom' \in [Proc -> -1..(Depth - 1)]
    BY <1>1, <2>1 DEF TypeOK
  <2> QED  BY <1>1, <1>3, <2>2 DEF TypeOK
<1>6. LockOK'
  BY <1>1, <1>2 DEF LockOK, HasLock, HasFrame
<1>7. GoneOK' /\ MapsOwn'
  BY <1>1, <1>2, <1>3, <1>4 DEF GoneOK, MapsOwn
<1>8. Marked' /\ ContentOK'
  BY <1>1, <1>3 DEF Marked, ContentOK
<1>9. NothingLeaks'
  BY <1>1, <1>3 DEF NothingLeaks, FramesOf, SlotsOf
<1>10. HandlerOK'
  <2> SUFFICES ASSUME NEW q \in Proc, q # p
               PROVE  /\ pc[q] \in {"unmap", "write"} => VictimOK(q)'
                      /\ pc[q] = "put" /\ ~panic => GivenOK(q)'
                      /\ pc[q] \in HasLock => FaultOK(q)'
    BY <1>1, <1>2 DEF HandlerOK, HasLock
  <2>1. pc[q] \in {"unmap", "write"} => VictimOK(q)'
    BY <1>1, <1>2, <1>3, <1>4 DEF HandlerOK, VictimOK
  <2>2. pc[q] = "put" /\ ~panic => GivenOK(q)'
    BY <1>1, <1>3 DEF HandlerOK, GivenOK
  <2>3. pc[q] \in HasLock => FaultOK(q)'
    BY <1>1, <1>3 DEF HandlerOK, FaultOK
  <2> QED  BY <2>1, <2>2, <2>3
<1>11. StackOK'
  <2>1. bottom'[p] = -1 /\ \A q \in Proc : q # p => bottom'[q] = bottom[q]
    BY <1>1 DEF TypeOK
  <2>2. \A q \in Proc : q # p => (Solid(q) => Solid(q)') /\ (Growing(q) => Growing(q)')
    BY <1>1, <1>3, <2>1 DEF Solid, Growing
  <2> QED  BY <1>1, <1>2, <2>1, <2>2 DEF StackOK, HasLock
<1>map. Mapped'
  <2>1. \A v \in Page, f \in Frame : table[p][v] # InFrame(f)
    BY <1>1, PlaceFacts DEF GoneOK
  <2> QED  BY <1>1, <1>3, <1>4, <2>1 DEF Mapped
<1> QED  BY <1>map, <1>5, <1>6, <1>7, <1>8, <1>9, <1>10, <1>11

\* The ways to take the lock.
LEMMA FaultStep ==
  ASSUME Inv, NEW p \in Proc, NEW v \in Page, FaultLoads(p, v) \/ FaultGrows(p, v)
  PROVE  Inv'
<1>1. CASE FaultGrows(p, v)
  BY <1>1, AsksStep DEF FaultGrows, Misses
<1>2. CASE FaultLoads(p, v)
  <2>1. pc[p] = "user" /\ map[p][v] = Nobody /\ table[p][v] # Nowhere
        /\ Asks(p, v, IF table[p][v].in = "swap" THEN "swap" ELSE "file")
    BY <1>2 DEF FaultLoads, Misses
  <2>2. CASE table[p][v].in = "swap"
    <3>1. \E s \in Slot : table[p][v] = InSwap(s)
      BY <2>2, PlaceIs, FieldFacts DEF Inv
    <3> QED  BY <2>1, <2>2, <3>1, AsksStep
  <2>3. CASE table[p][v].in # "swap"
    <3>1. \A f \in Frame : table[p][v] # InFrame(f)
      <4>1. ASSUME NEW f \in Frame, table[p][v] = InFrame(f)
            PROVE  FALSE
        <5>1. fte = Nobody
          BY <2>1 DEF Asks, Inv, LockOK
        <5> QED  BY <2>1, <4>1, <5>1, Pages DEF Inv, Mapped
      <4> QED  BY <4>1
    <3>2. table[p][v] = InFile
      BY <2>1, <2>3, <3>1, PlaceIs, FieldFacts DEF Inv
    <3> QED  BY <2>1, <2>3, <3>2, AsksStep
  <2> QED  BY <2>2, <2>3
<1> QED  BY <1>1, <1>2

LEMMA NextStep == Inv /\ [Next]_vars => Inv'
<1> SUFFICES ASSUME Inv, [Next]_vars PROVE Inv'
  OBVIOUS
<1>1. ASSUME NEW p \in Proc, SetupStack(p)
      PROVE  Inv'
  <2>1. pc[p] = "setup" /\ Asks(p, 0, "stack") /\ 0 \in Stack /\ 0 \in Page
    BY <1>1, Pages, SizeAssumption DEF SetupStack, Stack
  <2>2. table[p][0] = Nowhere
    <3>1. Solid(p) /\ bottom[p] = -1
      BY <2>1 DEF Inv, StackOK
    <3> QED  BY <2>1, <3>1 DEF Solid
  <2> QED  BY <2>1, <2>2, AsksStep
<1>2. CASE UNCHANGED vars
  <2> USE <1>2 DEF vars, Inv
  <2>0. TypeOK' /\ LockOK'
    BY DEF TypeOK, LockOK
  <2>1. GoneOK' /\ Marked' /\ MapsOwn' /\ Mapped' /\ ContentOK'
    BY DEF GoneOK, Marked, MapsOwn, Mapped, ContentOK
  <2>2. NothingLeaks'
    BY DEF NothingLeaks, FramesOf, SlotsOf
  <2>3. HandlerOK' /\ StackOK'
    BY DEF HandlerOK, VictimOK, GivenOK, FaultOK, StackOK, Solid, Growing
  <2> QED  BY <2>0, <2>1, <2>2, <2>3
<1> QED
  BY <1>1, <1>2, ExecStep, AccessStep, FaultStep, FaultKillsStep, TakeFreeStep, ClockTurnStep,
     UnmapStep, WriteSwapStep, PutSwapStep, PutFileStep, PutStackStep, FreePageTableStep,
     ProcessExitStep DEF Next

\* What the processes and the handler rely on holds of every reachable state.
THEOREM Invariance == Spec => []Inv
BY InitInv, NextStep, PTL DEF Spec

\* Every variable keeps its type.
THEOREM TypeCorrect == Spec => []TypeOK
<1>1. Inv => TypeOK
  BY DEF Inv
<1> QED  BY <1>1, Invariance, PTL

\* The frame table, the swap table and the page tables agree while processes
\* fault, evict one another and exit: no frame or slot serves two pages, and
\* none is lost.
THEOREM TablesCorrect == Spec => []TablesAgree
<1>1. Inv => TablesAgree
  BY OnePlaceIs DEF Inv, TablesAgree
<1> QED  BY <1>1, Invariance, PTL

\* No process reaches through its page directory a frame that is not its own.
THEOREM MapsCorrect == Spec => []MapsOwn
<1>1. Inv => MapsOwn
  BY DEF Inv
<1> QED  BY <1>1, Invariance, PTL

-----------------------------------------------------------------------------
(* Paged memory implements Memory. *)

Mem == [p \in Proc |-> [v \in Page |-> Contents(p, v)]]

\* What a page holds, by the place it is in.
HoldsBy ==
  \A p \in Proc, v \in Page :
    /\ pc[p] \in {"none", "dying"} => Contents(p, v) = Nobody
    /\ pc[p] \notin {"none", "dying"} =>
         /\ \A f \in Frame : table[p][v] = InFrame(f) => Contents(p, v) = frame[f].data
         /\ \A s \in Slot : table[p][v] = InSwap(s) => Contents(p, v) = swap[s].data
         /\ table[p][v] = InFile => Contents(p, v) = File
         /\ table[p][v] = Nowhere => Contents(p, v) = Nobody

LEMMA ContentsAre == HoldsBy
<1> SUFFICES ASSUME NEW p \in Proc, NEW v \in Page
             PROVE  /\ pc[p] \in {"none", "dying"} => Contents(p, v) = Nobody
                    /\ pc[p] \notin {"none", "dying"} =>
                         /\ \A f \in Frame : table[p][v] = InFrame(f) => Contents(p, v) = frame[f].data
                         /\ \A s \in Slot : table[p][v] = InSwap(s) => Contents(p, v) = swap[s].data
                         /\ table[p][v] = InFile => Contents(p, v) = File
                         /\ table[p][v] = Nowhere => Contents(p, v) = Nobody
  BY DEF HoldsBy
<1>1. CASE pc[p] \in {"none", "dying"}
  BY <1>1 DEF Contents
<1>2. CASE pc[p] \notin {"none", "dying"}
  BY <1>2, FieldFacts DEF Contents
<1> QED  BY <1>1, <1>2

LEMMA ContentsNext == HoldsBy'
BY ContentsAre, PTL

\* A step that leaves the contents of every page alone is a stutter.
LEMMA Stutters ==
  ASSUME \A p \in Proc, v \in Page : Contents(p, v)' = Contents(p, v)
  PROVE  UNCHANGED Mem
BY DEF Mem

Gone == {"none", "dying"}

\* A page that stays where it is, in a place that keeps its contents.
LEMMA SamePlace ==
  ASSUME TypeOK, NEW q \in Proc, NEW w \in Page,
         pc'[q] \in Gone <=> pc[q] \in Gone,
         table'[q][w] = table[q][w],
         \A f \in Frame : table[q][w] = InFrame(f) => frame'[f].data = frame[f].data,
         \A s \in Slot : table[q][w] = InSwap(s) => swap'[s].data = swap[s].data
  PROVE  Contents(q, w)' = Contents(q, w)
<1>1. CASE pc[q] \in Gone
  BY <1>1, ContentsAre, ContentsNext DEF HoldsBy, Gone
<1>2. CASE pc[q] \notin Gone /\ table[q][w] \in {Nowhere, InFile}
  BY <1>2, ContentsAre, ContentsNext DEF HoldsBy, Gone
<1>3. CASE pc[q] \notin Gone /\ \E f \in Frame : table[q][w] = InFrame(f)
  BY <1>3, ContentsAre, ContentsNext DEF HoldsBy, Gone
<1>4. CASE pc[q] \notin Gone /\ \E s \in Slot : table[q][w] = InSwap(s)
  BY <1>4, ContentsAre, ContentsNext DEF HoldsBy, Gone
<1> QED  BY <1>1, <1>2, <1>3, <1>4, PlaceIs

LEMMA SameTables ==
  ASSUME TypeOK, UNCHANGED <<frame, swap, table>>,
         \A q \in Proc : pc'[q] \in Gone <=> pc[q] \in Gone
  PROVE  UNCHANGED Mem
<1>1. \A q \in Proc, w \in Page : Contents(q, w)' = Contents(q, w)
  BY SamePlace
<1> QED  BY <1>1, Stutters

LEMMA PageIs == Promise!Page = Page /\ Promise!Program = Code \cup Data
BY DEF Promise!Page, Promise!Program, Page

LEMMA InitRefines == Init => Promise!Init
<1> SUFFICES ASSUME Init PROVE Promise!Init
  OBVIOUS
<1>1. \A p \in Proc, v \in Page : Contents(p, v) = Nobody
  BY ContentsAre DEF HoldsBy, Init
<1> QED  BY <1>1, PageIs DEF Promise!Init, Promise!Empty

LEMMA ExecRefines ==
  ASSUME Inv, NEW p \in Proc, Exec(p)
  PROVE  Promise!Start(p)
<1> USE DEF Inv
<1>1. /\ pc[p] = "none"
      /\ table' = [table EXCEPT ![p] = [v \in Page |-> IF v \in Stack THEN Nowhere ELSE InFile]]
      /\ pc' = [pc EXCEPT ![p] = "setup"]
      /\ UNCHANGED <<frame, swap>>
  BY DEF Exec, Goto
<1>2. /\ \A q \in Proc : pc'[q] = IF q = p THEN "setup" ELSE pc[q]
      /\ \A w \in Page : table'[p][w] = IF w \in Stack THEN Nowhere ELSE InFile
      /\ \A q \in Proc, w \in Page : q # p => table'[q][w] = table[q][w]
  BY <1>1 DEF TypeOK
<1>3. \A q \in Proc, w \in Page : q # p => Contents(q, w)' = Contents(q, w)
  BY <1>1, <1>2, SamePlace
<1>4. \A w \in Page : Contents(p, w) = Nobody
  BY <1>1, ContentsAre DEF HoldsBy
<1>5. \A w \in Page : Contents(p, w)' = IF w \in Stack THEN Nobody ELSE File
  BY <1>2, ContentsNext DEF HoldsBy
<1>6. \A w \in Page : w \in Stack <=> w \notin Code \cup Data
  BY PageAssumption DEF Page, Stack
<1>7. Mem[p] = Promise!Empty
  BY <1>4, PageIs DEF Mem, Promise!Empty
<1>8. Mem' = [Mem EXCEPT ![p] = [v \in Page |-> IF v \in Code \cup Data THEN File ELSE Nobody]]
  BY <1>3, <1>5, <1>6 DEF Mem
<1> QED  BY <1>7, <1>8, PageIs DEF Promise!Start, Mem

LEMMA AccessRefines ==
  ASSUME Inv, NEW p \in Proc, NEW v \in Page, NEW write \in BOOLEAN, Access(p, v, write)
  PROVE  Promise!Store(p, v, p) \/ UNCHANGED Mem
<1> USE DEF Inv
<1>1. /\ pc[p] = "user" /\ map[p][v] # Nobody
      /\ write => v \notin Code
      /\ UNCHANGED <<swap, table, pc>>
  BY DEF Access
<1>2. PICK g \in Frame : g = map[p][v] /\ table[p][v] = InFrame(g)
  <2>1. map[p][v] \in Frame
    BY <1>1 DEF TypeOK
  <2>2. table[p][v] = InFrame(map[p][v])
    BY <1>1 DEF MapsOwn
  <2> QED  BY <2>1, <2>2
<1>3. frame' = IF write THEN [frame EXCEPT ![g] = [@ EXCEPT !.data = p]] ELSE frame
  BY <1>2 DEF Access
<1>4. CASE ~write
  <2>1. frame' = frame
    BY <1>3, <1>4
  <2> QED  BY <1>1, <2>1, SameTables
<1>5. CASE write
  <2>1. frame'[g].data = p /\ \A f \in Frame : f # g => frame'[f] = frame[f]
    BY <1>2, <1>3, <1>5 DEF TypeOK, Held
  <2>2. \A q \in Proc, w \in Page : table[q][w] = InFrame(g) => q = p /\ w = v
    BY <1>2 DEF Marked
  <2>3. \A q \in Proc, w \in Page : ~(q = p /\ w = v) => Contents(q, w)' = Contents(q, w)
    BY <1>1, <2>1, <2>2, SamePlace
  <2>4. Contents(p, v)' = p
    BY <1>1, <1>2, <2>1, ContentsNext DEF HoldsBy
  <2>5. Contents(p, v) # Nobody
    <3>1. frame[g].data \in Content
      BY DEF TypeOK, Held
    <3>2. Contents(p, v) = frame[g].data
      BY <1>1, <1>2, ContentsAre DEF HoldsBy
    <3> QED  BY <3>1, <3>2, NameAssumption DEF Content
  <2>6. Mem' = [Mem EXCEPT ![p] = [@ EXCEPT ![v] = p]]
    BY <2>3, <2>4 DEF Mem
  <2>7. v \notin Code /\ Mem[p][v] # Nobody
    BY <1>1, <1>5, <2>5 DEF Mem
  <2> QED  BY <2>6, <2>7 DEF Promise!Store, Mem
<1> QED  BY <1>4, <1>5

\* Getting a frame: the page evicted is in the slot, or in the file, with what
\* was in the frame.
LEMMA TakeFreeRefines ==
  ASSUME Inv, NEW p \in Proc, TakeFree(p)
  PROVE  UNCHANGED Mem
<1> USE DEF Inv
<1> DEFINE g == Lowest(FreeFrames)
<1>1. /\ pc[p] = "get" /\ pc' = [pc EXCEPT ![p] = "put"]
      /\ frame' = [frame EXCEPT ![g] = [@ EXCEPT !.owner = p]]
      /\ UNCHANGED <<swap, table>>
  BY DEF TakeFree, Goto
<1> HIDE DEF g
<1>2. \A f \in Frame : frame'[f].data = frame[f].data
  BY <1>1 DEF TypeOK, Held
<1>3. \A q \in Proc : pc'[q] \in Gone <=> pc[q] \in Gone
  BY <1>1 DEF TypeOK, Gone
<1>4. \A q \in Proc, w \in Page : Contents(q, w)' = Contents(q, w)
  BY <1>1, <1>2, <1>3, SamePlace
<1> QED  BY <1>4, Stutters

LEMMA EvictRefines ==
  ASSUME Inv, NEW p \in Proc, NEW o \in Proc, NEW v \in Page, NEW x \in Place,
         pc[p] = "write", o = frame[fte].owner, v = frame[fte].page,
         \/ v \in Code /\ x = InFile /\ swap' = swap
         \/ /\ v \notin Code
            /\ \E s \in Slot : /\ x = InSwap(s) /\ swap[s].owner = Nobody
                               /\ swap' = [swap EXCEPT ![s] = frame[fte]],
         table' = [table EXCEPT ![o][v] = x],
         frame' = [frame EXCEPT ![fte] = [FreeFrame EXCEPT !.owner = p]],
         pc' = [pc EXCEPT ![p] = "put"]
  PROVE  UNCHANGED Mem
<1> USE DEF Inv
<1>1. fte \in Frame /\ table[o][v] = InFrame(fte)
  BY DEF HandlerOK, VictimOK, LockOK, HasFrame
<1>2. \A q \in Proc : pc'[q] \in Gone <=> pc[q] \in Gone
  BY DEF TypeOK, Gone
<1>3. pc[o] \notin Gone
  BY <1>1, PlaceFacts DEF GoneOK, Gone
<1>4. \A q \in Proc, w \in Page : table'[q][w] = IF q = o /\ w = v THEN x ELSE table[q][w]
  BY DEF TypeOK
<1>5. ASSUME NEW q \in Proc, NEW w \in Page, ~(q = o /\ w = v)
      PROVE  Contents(q, w)' = Contents(q, w)
  <2>1. table'[q][w] = table[q][w] /\ table[q][w] # InFrame(fte)
    BY <1>1, <1>4, <1>5 DEF Marked
  <2>2. \A f \in Frame : table[q][w] = InFrame(f) => frame'[f].data = frame[f].data
    BY <1>1, <2>1 DEF TypeOK
  <2>3. \A s \in Slot : table[q][w] = InSwap(s) => swap'[s].data = swap[s].data
    <3>1. CASE swap' = swap
      BY <3>1
    <3>2. CASE \E t \in Slot : swap[t].owner = Nobody /\ swap' = [swap EXCEPT ![t] = frame[fte]]
      <4>1. PICK t \in Slot : swap[t].owner = Nobody /\ swap' = [swap EXCEPT ![t] = frame[fte]]
        BY <3>2
      <4>2. \A s \in Slot : s # t => swap'[s] = swap[s]
        BY <4>1 DEF TypeOK
      <4>3. \A s \in Slot : table[q][w] = InSwap(s) => s # t
        BY <4>1, Taken
      <4> QED  BY <4>2, <4>3
    <3> QED  BY <3>1, <3>2
  <2> QED  BY <1>2, <2>1, <2>2, <2>3, SamePlace
<1>6. Contents(o, v) = frame[fte].data
  BY <1>1, <1>3, ContentsAre DEF HoldsBy, Gone
<1>7. Contents(o, v)' = frame[fte].data
  <2>1. pc'[o] \notin Gone /\ table'[o][v] = x
    BY <1>2, <1>3, <1>4
  <2>2. CASE v \in Code /\ x = InFile
    BY <1>1, <2>1, <2>2, ContentsNext DEF HoldsBy, Gone, ContentOK
  <2>3. CASE \E s \in Slot : x = InSwap(s) /\ swap' = [swap EXCEPT ![s] = frame[fte]]
    <3>1. PICK s \in Slot : x = InSwap(s) /\ swap' = [swap EXCEPT ![s] = frame[fte]]
      BY <2>3
    <3>2. swap'[s] = frame[fte]
      BY <3>1 DEF TypeOK
    <3> QED  BY <2>1, <3>1, <3>2, ContentsNext DEF HoldsBy, Gone
  <2> QED  BY <2>2, <2>3
<1>8. \A q \in Proc, w \in Page : Contents(q, w)' = Contents(q, w)
  BY <1>5, <1>6, <1>7
<1> QED  BY <1>8, Stutters

LEMMA WriteSwapRefines ==
  ASSUME Inv, NEW p \in Proc, WriteSwap(p)
  PROVE  UNCHANGED Mem
<1> DEFINE s == Lowest(FreeSlots)
<1>1. pc[p] = "write" /\ panic = FALSE
  BY DEF WriteSwap, Inv, TypeOK
<1>2. PICK o \in Proc, v \in Page : o = frame[fte].owner /\ v = frame[fte].page
  BY <1>1 DEF Inv, HandlerOK, VictimOK
<1>3. /\ pc' = [pc EXCEPT ![p] = "put"]
      /\ frame' = IF panic' THEN frame ELSE [frame EXCEPT ![fte] = [FreeFrame EXCEPT !.owner = p]]
  BY DEF WriteSwap, Goto
<1>4. CASE v \in Code
  <2>1. table' = [table EXCEPT ![o][v] = InFile] /\ UNCHANGED <<swap, panic>>
    BY <1>2, <1>4 DEF WriteSwap
  <2> QED  BY <1>1, <1>2, <1>3, <1>4, <2>1, EvictRefines DEF Place
<1>5. CASE v \notin Code /\ FreeSlots = {}
  <2>1. panic' = TRUE /\ UNCHANGED <<swap, table>>
    BY <1>2, <1>5 DEF WriteSwap
  <2>2. \A q \in Proc : pc'[q] \in Gone <=> pc[q] \in Gone
    BY <1>1, <1>3 DEF Inv, TypeOK, Gone
  <2> QED  BY <1>3, <2>1, <2>2, SameTables DEF Inv
<1>6. CASE v \notin Code /\ FreeSlots # {}
  <2>1. s \in Slot /\ swap[s].owner = Nobody
    <3>1. FreeSlots \subseteq Nat
      BY SizeAssumption DEF FreeSlots, Slot
    <3> QED  BY <1>6, <3>1, LowestIs DEF FreeSlots
  <2>2. swap' = [swap EXCEPT ![s] = frame[fte]] /\ table' = [table EXCEPT ![o][v] = InSwap(s)] /\ UNCHANGED panic
    BY <1>2, <1>6 DEF WriteSwap
  <2> HIDE DEF s
  <2>3. PICK t \in Slot : t = s
    BY <2>1
  <2>4. InSwap(t) \in Place
    BY DEF Place
  <2> QED  BY <1>1, <1>2, <1>3, <1>6, <2>1, <2>2, <2>3, <2>4, EvictRefines
<1> QED  BY <1>4, <1>5, <1>6

\* A page installed holds what it held, or is a new page of the stack.
LEMMA InstallContents ==
  ASSUME Inv, NEW p \in Proc, NEW v \in Page, NEW x \in Content, Install(p, v, x),
         pc[p] = "put", ~panic,
         \/ table[p][v] \in {Nowhere, InFile} /\ swap' = swap
         \/ \E s \in Slot : table[p][v] = InSwap(s) /\ swap' = [swap EXCEPT ![s] = FreeSlot],
         pc' = [pc EXCEPT ![p] = "user"] \/ pc' = [pc EXCEPT ![p] = "get"]
  PROVE  /\ \A q \in Proc, w \in Page : ~(q = p /\ w = v) => Contents(q, w)' = Contents(q, w)
         /\ Contents(p, v)' = x
         /\ ~panic'
<1> USE DEF Inv
<1>1. \A f \in Frame : table[p][v] # InFrame(f)
  BY PlaceFacts
<1>2. Installed(p, v, x)
  BY <1>1, InstallFacts
<1>3. \A q \in Proc : pc'[q] \in Gone <=> pc[q] \in Gone
  BY DEF TypeOK, Gone
<1>4. ASSUME NEW q \in Proc, NEW w \in Page, ~(q = p /\ w = v)
      PROVE  Contents(q, w)' = Contents(q, w)
  <2>1. table'[q][w] = table[q][w] /\ table[q][w] # InFrame(fte)
    BY <1>2, <1>4 DEF Installed
  <2>2. \A f \in Frame : table[q][w] = InFrame(f) => frame'[f].data = frame[f].data
    BY <1>2, <2>1 DEF Installed
  <2>3. \A s \in Slot : table[q][w] = InSwap(s) => table[p][v] # InSwap(s)
    BY <1>4 DEF Marked
  <2>4. \A s \in Slot : table[q][w] = InSwap(s) => swap'[s].data = swap[s].data
    BY <2>3, PlaceFacts DEF TypeOK
  <2> QED  BY <1>3, <2>1, <2>2, <2>4, SamePlace
<1>5. Contents(p, v)' = x
  <2>1. pc'[p] \notin Gone
    BY <1>3 DEF Gone
  <2>2. fte \in Frame /\ table'[p][v] = InFrame(fte) /\ frame'[fte].data = x
    BY <1>2 DEF Installed
  <2>3. PICK f \in Frame : f = fte
    BY <2>2
  <2> QED  BY <2>1, <2>2, <2>3, ContentsNext DEF HoldsBy, Gone
<1>6. ~panic'
  BY <1>2 DEF Installed
<1> QED  BY <1>4, <1>5, <1>6

LEMMA PutSwapRefines ==
  ASSUME Inv, NEW p \in Proc, PutSwap(p)
  PROVE  UNCHANGED Mem /\ ~panic'
<1>1. pc[p] = "put" /\ ~panic /\ fault[p].from = "swap"
  BY DEF PutSwap
<1>2. FaultOK(p)
  BY <1>1 DEF Inv, HandlerOK, HasLock
<1>3. PICK v \in Page : v = fault[p].page
  BY <1>2 DEF FaultOK
<1>4. PICK s \in Slot : table[p][v] = InSwap(s)
  BY <1>1, <1>2, <1>3 DEF FaultOK
<1>5. swap[s].page = v /\ table[p][v].at = s
  BY <1>4, FieldFacts DEF Inv, Marked
<1>6. PICK x \in Content : x = swap[s].data
  BY DEF Inv, TypeOK, Held
<1>7. /\ Install(p, v, x)
      /\ swap' = [swap EXCEPT ![s] = FreeSlot]
      /\ pc' = [pc EXCEPT ![p] = "user"]
  BY <1>3, <1>5, <1>6 DEF PutSwap, Release, Goto
<1>8. /\ \A q \in Proc, w \in Page : ~(q = p /\ w = v) => Contents(q, w)' = Contents(q, w)
      /\ Contents(p, v)' = x /\ ~panic'
  BY <1>1, <1>4, <1>7, InstallContents
<1>9. Contents(p, v) = x
  BY <1>1, <1>4, <1>6, ContentsAre DEF HoldsBy
<1>10. \A q \in Proc, w \in Page : Contents(q, w)' = Contents(q, w)
  BY <1>8, <1>9
<1> QED  BY <1>8, <1>10, Stutters

LEMMA PutFileRefines ==
  ASSUME Inv, NEW p \in Proc, PutFile(p)
  PROVE  UNCHANGED Mem /\ ~panic'
<1>1. pc[p] = "put" /\ ~panic /\ fault[p].from = "file"
  BY DEF PutFile
<1>2. PICK v \in Page : v = fault[p].page /\ table[p][v] = InFile /\ File \in Content
  BY <1>1 DEF Inv, HandlerOK, HasLock, FaultOK, Content
<1>3. Install(p, v, File) /\ pc' = [pc EXCEPT ![p] = "user"] /\ swap' = swap
  BY <1>2 DEF PutFile, Release, Goto
<1>4. /\ \A q \in Proc, w \in Page : ~(q = p /\ w = v) => Contents(q, w)' = Contents(q, w)
      /\ Contents(p, v)' = File /\ ~panic'
  BY <1>1, <1>2, <1>3, InstallContents
<1>5. Contents(p, v) = File
  BY <1>1, <1>2, ContentsAre DEF HoldsBy
<1>6. \A q \in Proc, w \in Page : Contents(q, w)' = Contents(q, w)
  BY <1>4, <1>5
<1> QED  BY <1>4, <1>6, Stutters

LEMMA PutStackRefines ==
  ASSUME Inv, NEW p \in Proc, PutStack(p)
  PROVE  (\E v \in Stack : Promise!Grow(p, v)) /\ ~panic'
<1>1. pc[p] = "put" /\ ~panic
  BY DEF PutStack
<1>2. PICK j \in Stack :
        /\ fault[p].page \in Stack /\ bottom[p] < fault[p].page
        /\ bottom[p] + j - fault[p].page \in -1..(j - 1) /\ j <= fault[p].page
        /\ \A v \in Stack : table[p][v] = Nowhere <=>
             (bottom[p] + j - fault[p].page < v /\ v <= j) \/ v > fault[p].page
        /\ Install(p, j, frame[fte].data)
  BY NewPage
<1>3. table[p][j] = Nowhere
  BY <1>2, SizeAssumption DEF Inv, TypeOK, Stack
<1>4. frame[fte].data = Fresh /\ Fresh \in Content /\ j \in Page
  BY <1>1, Pages DEF Inv, HandlerOK, GivenOK, Content
<1>5. Install(p, j, Fresh)
  BY <1>2, <1>4
<1>6. swap' = swap /\ (pc' = [pc EXCEPT ![p] = "user"] \/ pc' = [pc EXCEPT ![p] = "get"])
  BY DEF PutStack, Release, Goto
<1>7. /\ \A q \in Proc, w \in Page : ~(q = p /\ w = j) => Contents(q, w)' = Contents(q, w)
      /\ Contents(p, j)' = Fresh /\ ~panic'
  BY <1>1, <1>3, <1>4, <1>5, <1>6, InstallContents
<1>8. Contents(p, j) = Nobody
  BY <1>1, <1>3, <1>4, ContentsAre DEF HoldsBy
<1>9. Mem' = [Mem EXCEPT ![p] = [@ EXCEPT ![j] = Fresh]]
  BY <1>4, <1>7 DEF Mem
<1>10. Mem[p][j] = Nobody
  BY <1>4, <1>8 DEF Mem
<1> QED  BY <1>7, <1>9, <1>10 DEF Promise!Grow, Mem

LEMMA FreePageTableRefines ==
  ASSUME Inv, NEW p \in Proc, FreePageTable(p)
  PROVE  Promise!Exit(p)
<1> USE DEF Inv
<1>1. /\ pc[p] \in {"user", "killed"} /\ holder = Nobody
      /\ frame' = [f \in Frame |-> IF f \in FramesOf(p) THEN FreeFrame ELSE frame[f]]
      /\ swap' = [s \in Slot |-> IF s \in SlotsOf(p) THEN FreeSlot ELSE swap[s]]
      /\ table' = [table EXCEPT ![p] = [v \in Page |-> Nowhere]]
      /\ pc' = [pc EXCEPT ![p] = "dying"]
  BY DEF FreePageTable, Goto
<1>2. /\ \A q \in Proc : pc'[q] = IF q = p THEN "dying" ELSE pc[q]
      /\ \A q \in Proc : q # p => table'[q] = table[q]
  BY <1>1 DEF TypeOK
<1>3. ASSUME NEW q \in Proc, NEW w \in Page, q # p
      PROVE  Contents(q, w)' = Contents(q, w)
  <2>1. \A f \in Frame : table[q][w] = InFrame(f) => f \notin FramesOf(p)
    BY <1>3 DEF FramesOf, Marked
  <2>2. \A s \in Slot : table[q][w] = InSwap(s) => s \notin SlotsOf(p)
    BY <1>3 DEF SlotsOf, Marked
  <2>3. /\ \A f \in Frame : table[q][w] = InFrame(f) => frame'[f].data = frame[f].data
        /\ \A s \in Slot : table[q][w] = InSwap(s) => swap'[s].data = swap[s].data
    BY <1>1, <2>1, <2>2
  <2>4. table'[q][w] = table[q][w] /\ (pc'[q] \in Gone <=> pc[q] \in Gone)
    BY <1>2, <1>3
  <2> QED  BY <2>3, <2>4, SamePlace
<1>4. \A w \in Page : Contents(p, w)' = Nobody
  BY <1>2, ContentsNext DEF HoldsBy
<1>5. Mem' = [Mem EXCEPT ![p] = [w \in Page |-> Nobody]]
  BY <1>3, <1>4 DEF Mem
<1> QED  BY <1>5, PageIs DEF Promise!Exit, Promise!Empty, Mem

LEMMA ProcessExitRefines ==
  ASSUME Inv, NEW p \in Proc, ProcessExit(p)
  PROVE  UNCHANGED Mem
<1>1. /\ pc[p] = "dying" /\ pc' = [pc EXCEPT ![p] = "none"]
      /\ table' = [table EXCEPT ![p] = [v \in Page |-> Nowhere]]
      /\ UNCHANGED <<frame, swap>>
  BY DEF ProcessExit, Goto
<1>2. table' = table
  <2>1. \A v \in Page : table[p][v] = Nowhere
    BY <1>1 DEF Inv, GoneOK
  <2>2. table[p] = [v \in Page |-> Nowhere]
    BY <2>1 DEF Inv, TypeOK
  <2> QED  BY <1>1, <2>2 DEF Inv, TypeOK
<1>3. \A q \in Proc : pc'[q] \in Gone <=> pc[q] \in Gone
  BY <1>1 DEF Inv, TypeOK, Gone
<1> QED  BY <1>1, <1>2, <1>3, SameTables DEF Inv

\* Steps that touch no frame, no slot and no page table.
LEMMA QuietRefines ==
  ASSUME Inv, NEW p \in Proc, NEW v \in Page,
         \/ SetupStack(p) \/ FaultLoads(p, v) \/ FaultGrows(p, v) \/ FaultKills(p, v)
         \/ ClockTurn(p) \/ Unmap(p)
  PROVE  UNCHANGED Mem
<1>1. UNCHANGED <<frame, swap, table>>
  BY DEF SetupStack, FaultLoads, FaultGrows, FaultKills, ClockTurn, Unmap, Asks
<1>2. \A q \in Proc : pc'[q] \in Gone <=> pc[q] \in Gone
  <2>1. pc[p] \notin Gone
    BY DEF SetupStack, FaultLoads, FaultGrows, FaultKills, ClockTurn, Unmap, Misses, Gone
  <2>2. pc' = pc \/ \E l \in {"get", "killed", "unmap", "write"} : pc' = [pc EXCEPT ![p] = l]
    BY DEF SetupStack, FaultLoads, FaultGrows, FaultKills, ClockTurn, Unmap, Asks, Goto
  <2> QED  BY <2>1, <2>2 DEF Inv, TypeOK, Gone
<1> QED  BY <1>1, <1>2, SameTables DEF Inv

LEMMA StepRefines == Inv /\ [Next]_vars => [Promise!Next]_Mem
<1> SUFFICES ASSUME Inv, [Next]_vars PROVE [Promise!Next]_Mem
  OBVIOUS
<1>1. CASE UNCHANGED vars
  <2>1. UNCHANGED <<frame, swap, table, pc>>
    BY <1>1 DEF vars
  <2> QED  BY <2>1, SameTables DEF Inv
<1>2. ASSUME NEW p \in Proc, Exec(p) \/ FreePageTable(p)
      PROVE  Promise!Next
  BY <1>2, ExecRefines, FreePageTableRefines DEF Promise!Next
<1>3. ASSUME NEW p \in Proc, NEW v \in Page, NEW write \in BOOLEAN, Access(p, v, write)
      PROVE  Promise!Next \/ UNCHANGED Mem
  BY <1>3, AccessRefines, PageIs DEF Promise!Next
<1>4. ASSUME NEW p \in Proc, PutStack(p)
      PROVE  Promise!Next
  BY <1>4, PutStackRefines DEF Promise!Next
<1>5. 0 \in Page
  BY SizeAssumption DEF Page, Stack
<1> QED
  BY <1>1, <1>2, <1>3, <1>4, <1>5, QuietRefines, TakeFreeRefines, WriteSwapRefines,
     PutSwapRefines, PutFileRefines, ProcessExitRefines DEF Next

\* Memory that is paged, evicted to swap slots and fetched again keeps what a
\* process stored in it, whatever the other processes do meanwhile: for any
\* number of processes, frames, slots and pages.
THEOREM MemoryRefinement == Spec => ImplementsMemory
BY InitRefines, StepRefines, Invariance, PTL DEF Spec, ImplementsMemory, Promise!Spec, Mem

-----------------------------------------------------------------------------
(* The kernel panics only for want of swap. *)

\* Pages and places correspond one to one, so that there are finitely many
\* pages in memory; when every slot is taken, they are the pages of the slots
\* and the victim.
LEMMA InMemoryFinite ==
  ASSUME Inv
  PROVE  IsFiniteSet(InMemory)
<1> DEFINE T == 0..(NumFrames + NumSlots)
           place(b) == table[b[1]][b[2]]
           g == [b \in InMemory |-> IF place(b).in = "frame" THEN place(b).at ELSE NumFrames + place(b).at]
<1>1. ASSUME NEW b \in InMemory
      PROVE  /\ b[1] \in Proc /\ b[2] \in Page /\ b = <<b[1], b[2]>>
             /\ \/ \E f \in Frame : place(b) = InFrame(f) /\ g[b] = f
                \/ \E s \in Slot : place(b) = InSwap(s) /\ g[b] = NumFrames + s
  <2>1. b[1] \in Proc /\ b[2] \in Page /\ b = <<b[1], b[2]>> /\ place(b).in \in {"frame", "swap"}
    BY DEF InMemory
  <2>2. (\E f \in Frame : place(b) = InFrame(f)) \/ (\E s \in Slot : place(b) = InSwap(s))
    BY <2>1, PlaceIs, FieldFacts DEF Inv
  <2> QED  BY <2>1, <2>2, FieldFacts
<1>2. g \in [InMemory -> T]
  BY <1>1, SizeAssumption DEF Frame, Slot
<1>3. ASSUME NEW b \in InMemory, NEW c \in InMemory, g[b] = g[c]
      PROVE  b = c
  <2>1. place(b) = place(c)
    BY <1>1, <1>3, SizeAssumption DEF Frame, Slot
  <2>2. b[1] = c[1] /\ b[2] = c[2]
    BY <1>1, <2>1 DEF Inv, Marked
  <2> QED  BY <1>1, <2>2
<1>4. g \in Injection(InMemory, T)
  BY <1>2, <1>3 DEF Injection, IsInjective
<1>5. IsFiniteSet(T)
  BY FS_Interval, SizeAssumption
<1> HIDE DEF g, T
<1> QED  BY <1>4, <1>5, FS_Injection

LEMMA SwapFull ==
  ASSUME Inv, FreeSlots = {}, NEW o \in Proc, NEW v \in Page \ Code, NEW f \in Frame,
         table[o][v] = InFrame(f)
  PROVE  Cardinality(InMemory) > NumSlots
<1> DEFINE S == 0..NumSlots
           h == [i \in S |-> IF i \in Slot THEN <<swap[i].owner, swap[i].page>> ELSE <<o, v>>]
<1>1. ASSUME NEW i \in Slot
      PROVE  /\ swap[i].owner \in Proc /\ swap[i].page \in Page \ Code
             /\ table[swap[i].owner][swap[i].page] = InSwap(i)
  <2>1. swap[i].owner \in Proc
    BY DEF Inv, TypeOK, Held, FreeSlots
  <2>2. PICK w \in Page : table[swap[i].owner][w] = InSwap(i)
    BY <2>1, Pages DEF Inv, NothingLeaks, SlotsOf
  <2>3. w = swap[i].page /\ w \notin Code
    BY <2>1, <2>2 DEF Inv, Marked, ContentOK
  <2> QED  BY <2>1, <2>2, <2>3
<1>2. ASSUME NEW i \in S
      PROVE  i \in Slot \/ i = NumSlots
  BY SizeAssumption DEF Slot, S
<1>3. h \in [S -> InMemory]
  <2>1. <<o, v>> \in InMemory
    BY FieldFacts DEF InMemory
  <2>2. \A i \in Slot : <<swap[i].owner, swap[i].page>> \in InMemory
    BY <1>1, FieldFacts DEF InMemory
  <2> QED  BY <2>1, <2>2
<1>4. ASSUME NEW i \in S, NEW j \in S, h[i] = h[j]
      PROVE  i = j
  <2>1. CASE i \in Slot /\ j \in Slot
    BY <1>1, <1>4, <2>1, PlaceFacts
  <2>2. CASE i \in Slot /\ j \notin Slot
    BY <1>1, <1>4, <2>2, PlaceFacts
  <2>3. CASE i \notin Slot /\ j \in Slot
    BY <1>1, <1>4, <2>3, PlaceFacts
  <2>4. CASE i \notin Slot /\ j \notin Slot
    BY <1>2, <2>4
  <2> QED  BY <2>1, <2>2, <2>3, <2>4
<1>5. h \in Injection(S, InMemory)
  BY <1>3, <1>4 DEF Injection, IsInjective
<1>6. Cardinality(S) = NumSlots + 1
  BY FS_Interval, SizeAssumption
<1> HIDE DEF h, S
<1>7. NumSlots + 1 <= Cardinality(InMemory) /\ Cardinality(InMemory) \in Nat
  BY <1>5, <1>6, InMemoryFinite, FS_Injection, FS_CardinalityType
<1> QED  BY <1>7, SizeAssumption

LEMMA PanicStep ==
  ASSUME Inv, SwapSuffices, [Next]_vars
  PROVE  SwapSuffices'
<1>1. CASE UNCHANGED vars
  BY <1>1 DEF vars, SwapSuffices, InMemory
<1>2. ASSUME NEW p \in Proc, WriteSwap(p)
      PROVE  SwapSuffices'
  <2>1. SUFFICES ASSUME panic' PROVE Cardinality(InMemory)' > NumSlots
    BY DEF SwapSuffices
  <2>2. pc[p] = "write" /\ panic = FALSE
    BY <1>2 DEF WriteSwap, Inv, TypeOK
  <2>3. PICK o \in Proc, v \in Page, f \in Frame :
          o = frame[fte].owner /\ v = frame[fte].page /\ f = fte /\ table[o][v] = InFrame(f)
    BY <2>2 DEF Inv, HandlerOK, VictimOK, LockOK, HasFrame
  <2>4. v \notin Code /\ FreeSlots = {} /\ table' = table
    BY <1>2, <2>1, <2>2, <2>3 DEF WriteSwap
  <2>5. InMemory' = InMemory
    BY <2>4 DEF InMemory
  <2> QED  BY <2>3, <2>4, <2>5, SwapFull
<1>3. ASSUME NEW p \in Proc,
             \/ Exec(p) \/ SetupStack(p) \/ TakeFree(p) \/ FreePageTable(p) \/ ProcessExit(p)
             \/ \E v \in Page : \/ \E write \in BOOLEAN : Access(p, v, write)
                                \/ FaultLoads(p, v) \/ FaultGrows(p, v) \/ FaultKills(p, v)
      PROVE  ~panic'
  BY <1>3 DEF Exec, SetupStack, TakeFree, FreePageTable, ProcessExit, Access, FaultLoads,
              FaultGrows, FaultKills, Asks
<1> QED
  BY <1>1, <1>2, <1>3, ClockTurnStep, UnmapStep, PutSwapRefines, PutFileRefines, PutStackRefines
  DEF Next, SwapSuffices

\* No assertion of frame.c, page.c or process.c fails but for want of swap,
\* and then the processes have more writable pages than there are slots.
THEOREM SwapEnough == Spec => []SwapSuffices
<1>1. Init => SwapSuffices
  BY DEF Init, SwapSuffices
<1>2. Inv /\ SwapSuffices /\ [Next]_vars => SwapSuffices'
  BY PanicStep
<1> QED  BY <1>1, <1>2, Invariance, PTL DEF Spec
=============================================================================
