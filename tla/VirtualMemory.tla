--------------------------- MODULE VirtualMemory ---------------------------
(***************************************************************************)
(* Virtual memory of cs439/proj3: the frame table and its clock (vm/       *)
(* frame.c), swap slots (vm/swap.c), supplementary page tables (vm/page.c) *)
(* the page fault handler (userprog/exception.c), load_page and            *)
(* setup_stack (userprog/process.c), and what exit gives back.             *)
(*                                                                         *)
(* One lock covers the tables.  A process that has its page mapped uses it *)
(* without the lock, also while another one evicts: a step is what the     *)
(* lock's holder does between two points where that matters, or one access *)
(* of a process to one of its pages.  The pages of the stack are numbered  *)
(* from the top of user memory downwards.                                  *)
(*                                                                         *)
(* Processes end through sys_exit while their parent lives: without a      *)
(* parent sys_exit gives no frame back, and frame_table keeps a pointer to *)
(* the thread that is gone.                                                *)
(***************************************************************************)
EXTENDS Integers, FiniteSets

CONSTANTS
  Proc,         \* slots for processes, used again
  Nobody,       \* the null pointer, to a process, a frame or a page
  Code, Data,   \* pages of the program file: read-only, and writable
  Depth,        \* pages of stack within PHYS_BASE - EIGHT_MEGABYTES
  NumFrames,    \* frame_table_size
  NumSlots,     \* SWAP_TABLE_SIZE
  File, Fresh   \* page contents: the program file's, and not written yet

ASSUME NameAssumption ==
  /\ Nobody \notin Proc /\ Nobody \notin (Code \cup Data) /\ Nobody \notin Int
  /\ Nobody \notin {File, Fresh}
ASSUME PageAssumption == Code \cap Data = {} /\ (Code \cup Data) \cap Int = {}
ASSUME SizeAssumption == Depth \in Nat \ {0} /\ NumFrames \in Nat \ {0} /\ NumSlots \in Nat

VARIABLES
  frame,        \* frame_table: owner, paddr, and what the frame holds
  swap,         \* swap_table: owner, fte_paddr, and what the slot holds
  table,        \* page_table of each process: where each page is
  map,          \* pagedir: the frame a present page is mapped to
  accessed,     \* pagedir: the pages with the accessed bit
  bottom,       \* stack_bottom, as the number of the lowest page
  hand,         \* frame_table_index
  holder,       \* the holder of the frame lock
  pc,           \* where each process is
  fault,        \* the page it faulted on, and where the contents come from
  fte,          \* the frame the holder of the lock is getting
  panic         \* an assertion of the kernel failed

vars == <<frame, swap, table, map, accessed, bottom, hand, holder, pc, fault, fte, panic>>

Stack == 0..(Depth - 1)
Page == Code \cup Data \cup Stack
Frame == 0..(NumFrames - 1)
Slot == 0..(NumSlots - 1)

FreeFrame == [owner |-> Nobody, page |-> Nobody, data |-> Fresh]
FreeSlot == [owner |-> Nobody, page |-> Nobody, data |-> Fresh]
\* A page is in no table, in the program file, in a frame or in a swap slot.
Nowhere == [in |-> "none", at |-> Nobody]
InFile == [in |-> "file", at |-> Nobody]
InFrame(f) == [in |-> "frame", at |-> f]
InSwap(s) == [in |-> "swap", at |-> s]
NoFault == [page |-> Nobody, from |-> "none"]

Init ==
  /\ frame = [f \in Frame |-> FreeFrame]
  /\ swap = [s \in Slot |-> FreeSlot]
  /\ table = [p \in Proc |-> [v \in Page |-> Nowhere]]
  /\ map = [p \in Proc |-> [v \in Page |-> Nobody]]
  /\ accessed = [p \in Proc |-> {}]
  /\ bottom = [p \in Proc |-> -1]
  /\ hand = 0
  /\ holder = Nobody
  /\ pc = [p \in Proc |-> "none"]
  /\ fault = [p \in Proc |-> NoFault]
  /\ fte = Nobody
  /\ panic = FALSE

Goto(p, l) == pc' = [pc EXCEPT ![p] = l]
Live(p) == pc[p] # "none"       \* pagedir is not NULL
Holds(p) == holder = p /\ ~panic
Lowest(S) == CHOOSE n \in S : \A m \in S : n <= m
FreeFrames == {f \in Frame : frame[f].owner = Nobody}
FreeSlots == {s \in Slot : swap[s].owner = Nobody}
FramesOf(p) == {f \in Frame : \E v \in Page : table[p][v] = InFrame(f)}
SlotsOf(p) == {s \in Slot : \E v \in Page : table[p][v] = InSwap(s)}

-----------------------------------------------------------------------------
(* Programs *)

\* load: the segments of the program enter the page table, and setup_stack
\* asks for the first page of the stack.
Exec(p) ==
  /\ ~panic /\ pc[p] = "none"
  /\ table' = [table EXCEPT ![p] = [v \in Page |-> IF v \in Stack THEN Nowhere ELSE InFile]]
  /\ Goto(p, "setup")
  /\ UNCHANGED <<frame, swap, map, accessed, bottom, hand, holder, fault, fte, panic>>

\* An access to a mapped page; a process stores its own name.
Access(p, v, write) ==
  /\ ~panic /\ pc[p] = "user"
  /\ map[p][v] # Nobody
  /\ write => v \notin Code
  /\ accessed' = [accessed EXCEPT ![p] = @ \cup {v}]
  /\ frame' = IF write THEN [frame EXCEPT ![map[p][v]].data = p] ELSE frame
  /\ UNCHANGED <<swap, table, map, bottom, hand, holder, pc, fault, fte, panic>>

-----------------------------------------------------------------------------
(* page_fault and setup_stack: a process that faults waits for the lock,     *)
(* and nothing the handler looks at changes until it has it.                 *)

Asks(p, v, from) ==
  /\ ~panic /\ holder = Nobody
  /\ holder' = p
  /\ fault' = [fault EXCEPT ![p] = [page |-> v, from |-> from]]
  /\ Goto(p, "get")
  /\ UNCHANGED <<frame, swap, table, map, accessed, bottom, hand, fte, panic>>

Misses(p, v) == pc[p] = "user" /\ map[p][v] = Nobody

\* The page is in a swap slot, or it is to be read from the program file.
FaultLoads(p, v) ==
  /\ Misses(p, v)
  /\ table[p][v] # Nowhere
  /\ Asks(p, v, IF table[p][v].in = "swap" THEN "swap" ELSE "file")

\* The page is below the stack, and the address near the stack pointer.
FaultGrows(p, v) ==
  /\ Misses(p, v)
  /\ table[p][v] = Nowhere
  /\ v \in Stack
  /\ Asks(p, v, "stack")

\* A write to a read-only page, or an access to no page, ends the process.
FaultKills(p, v) ==
  /\ ~panic /\ pc[p] = "user" /\ holder = Nobody
  /\ (map[p][v] # Nobody /\ v \in Code) \/ table[p][v] = Nowhere
  /\ Goto(p, "killed")
  /\ UNCHANGED <<frame, swap, table, map, accessed, bottom, hand, holder, fault, fte, panic>>

SetupStack(p) ==
  /\ pc[p] = "setup"
  /\ Asks(p, 0, "stack")

-----------------------------------------------------------------------------
(* get_frame *)

\* The first frame nobody has.
TakeFree(p) ==
  LET f == Lowest(FreeFrames) IN
  /\ ~panic /\ pc[p] = "get"
  /\ FreeFrames # {}
  /\ frame' = [frame EXCEPT ![f].owner = p]
  /\ fte' = f
  /\ Goto(p, "put")
  /\ UNCHANGED <<swap, table, map, accessed, bottom, hand, holder, fault, panic>>

\* Broken: the hand does not go back to the first frame.
HandRunsOff(p) ==
  LET o == frame[hand].owner IN
  /\ ~panic /\ pc[p] = "get"
  /\ FreeFrames = {}
  /\ hand' = hand + 1
  /\ panic' = ~Live(o)
  /\ fte' = hand
  /\ Goto(p, "unmap")
  /\ UNCHANGED <<frame, swap, table, map, accessed, bottom, holder, fault>>

\* evict_frame: a turn of the clock passes over a page used since the last
\* one.  The page directory of an owner that is gone is NULL.
ClockTurn(p) ==
  LET o == frame[hand].owner
      v == frame[hand].page IN
  /\ ~panic /\ pc[p] = "get"
  /\ FreeFrames = {}
  /\ hand' = (hand + 1) % NumFrames
  /\ panic' = ~Live(o)
  /\ IF Live(o) /\ v \in accessed[o]
       THEN /\ accessed' = [accessed EXCEPT ![o] = @ \ {v}]
            /\ UNCHANGED <<fte, pc>>
       ELSE /\ fte' = hand
            /\ Goto(p, "unmap")
            /\ UNCHANGED accessed
  /\ UNCHANGED <<frame, swap, table, map, bottom, holder, fault>>

\* Broken: the victim's page stays mapped.
UnmapNothing(p) ==
  /\ ~panic /\ pc[p] = "unmap"
  /\ Goto(p, "write")
  /\ UNCHANGED <<frame, swap, table, map, accessed, bottom, hand, holder, fault, fte, panic>>

\* From here on its owner cannot reach the page.
Unmap(p) ==
  LET o == frame[fte].owner
      v == frame[fte].page IN
  /\ ~panic /\ pc[p] = "unmap"
  /\ map' = [map EXCEPT ![o][v] = Nobody]
  /\ panic' = (table[o][v] = Nowhere)
  /\ Goto(p, "write")
  /\ UNCHANGED <<frame, swap, table, accessed, bottom, hand, holder, fault, fte>>

\* Broken: a page nobody wrote to is dropped as if the file had it, as with the
\* test of the dirty bit that frame.c:102 has in a comment.
DropUnwritten(p) ==
  LET o == frame[fte].owner
      v == frame[fte].page
      s == Lowest(FreeSlots)
      clean == v \in Code \/ frame[fte].data \in {File, Fresh} IN
  /\ ~panic /\ pc[p] = "write"
  /\ clean \/ FreeSlots # {}
  /\ swap' = IF clean THEN swap ELSE [swap EXCEPT ![s] = frame[fte]]
  /\ table' = [table EXCEPT ![o][v] = IF clean THEN InFile ELSE InSwap(s)]
  /\ frame' = [frame EXCEPT ![fte] = [FreeFrame EXCEPT !.owner = p]]
  /\ Goto(p, "put")
  /\ UNCHANGED <<map, accessed, bottom, hand, holder, fault, fte, panic>>

\* A writable page is written to a free swap slot; another one is dropped.
\* free_frame fills the frame with 0xcc, and get_frame hands it out as it is,
\* also when it was asked for zeros: both are Fresh.
WriteSwap(p) ==
  LET o == frame[fte].owner
      v == frame[fte].page
      s == Lowest(FreeSlots) IN
  /\ ~panic /\ pc[p] = "write"
  /\ IF v \in Code
       THEN /\ table' = [table EXCEPT ![o][v] = InFile]
            /\ UNCHANGED <<swap, panic>>
       ELSE IF FreeSlots = {}
       THEN panic' = TRUE /\ UNCHANGED <<swap, table>>
       ELSE /\ swap' = [swap EXCEPT ![s] = frame[fte]]
            /\ table' = [table EXCEPT ![o][v] = InSwap(s)]
            /\ UNCHANGED panic
  /\ frame' = IF panic' THEN frame ELSE [frame EXCEPT ![fte] = [FreeFrame EXCEPT !.owner = p]]
  /\ Goto(p, "put")
  /\ UNCHANGED <<map, accessed, bottom, hand, holder, fault, fte>>

-----------------------------------------------------------------------------
(* What the frame is for *)

\* The page v of p is now in the frame, with contents x.
Install(p, v, x) ==
  /\ frame' = [frame EXCEPT ![fte] = [owner |-> p, page |-> v, data |-> x]]
  /\ table' = [table EXCEPT ![p][v] = InFrame(fte)]
  /\ map' = [map EXCEPT ![p][v] = fte]
  /\ accessed' = [accessed EXCEPT ![p] = @ \ {v}]
  /\ panic' = (map[p][v] # Nobody)
  /\ fte' = Nobody

Release(p) ==
  /\ holder' = Nobody
  /\ fault' = [fault EXCEPT ![p] = NoFault]
  /\ Goto(p, "user")

\* Broken: load_from_swap keeps the slot.
KeepSlot(p) ==
  LET s == table[p][fault[p].page].at IN
  /\ ~panic /\ pc[p] = "put" /\ fault[p].from = "swap"
  /\ Install(p, swap[s].page, swap[s].data)
  /\ Release(p)
  /\ UNCHANGED <<swap, bottom, hand>>

\* load_from_swap, once it has a frame: the slot says which page it holds.
PutSwap(p) ==
  LET s == table[p][fault[p].page].at IN
  /\ ~panic /\ pc[p] = "put" /\ fault[p].from = "swap"
  /\ Install(p, swap[s].page, swap[s].data)
  /\ swap' = [swap EXCEPT ![s] = FreeSlot]
  /\ Release(p)
  /\ UNCHANGED <<bottom, hand>>

\* load_page
PutFile(p) ==
  /\ ~panic /\ pc[p] = "put" /\ fault[p].from = "file"
  /\ Install(p, fault[p].page, File)
  /\ Release(p)
  /\ UNCHANGED <<swap, bottom, hand>>

\* One page of growth, from the page of the fault upwards.
PutStack(p) ==
  LET missing == {v \in 0..fault[p].page : table[p][v] = Nowhere}
      new_page == CHOOSE v \in missing : \A w \in missing : w <= v IN
  /\ ~panic /\ pc[p] = "put" /\ fault[p].from = "stack"
  /\ Install(p, new_page, frame[fte].data)
  /\ bottom' = [bottom EXCEPT ![p] = @ + 1]
  /\ IF bottom[p] + 1 < fault[p].page
       THEN Goto(p, "get") /\ UNCHANGED <<holder, fault>>
       ELSE Release(p)
  /\ UNCHANGED <<swap, hand>>

-----------------------------------------------------------------------------
(* Exit *)

\* Broken: free_page forgets the slots.
LeakSlots(p) ==
  /\ ~panic /\ pc[p] \in {"user", "killed"} /\ holder = Nobody
  /\ frame' = [f \in Frame |-> IF f \in FramesOf(p) THEN FreeFrame ELSE frame[f]]
  /\ table' = [table EXCEPT ![p] = [v \in Page |-> Nowhere]]
  /\ Goto(p, "dying")
  /\ UNCHANGED <<swap, map, accessed, bottom, hand, holder, fault, fte, panic>>

\* sys_exit frees the page table, and the frames and slots it names, and
\* waits for the parent; the pages stay mapped.
FreePageTable(p) ==
  /\ ~panic /\ pc[p] \in {"user", "killed"} /\ holder = Nobody
  /\ frame' = [f \in Frame |-> IF f \in FramesOf(p) THEN FreeFrame ELSE frame[f]]
  /\ swap' = [s \in Slot |-> IF s \in SlotsOf(p) THEN FreeSlot ELSE swap[s]]
  /\ table' = [table EXCEPT ![p] = [v \in Page |-> Nowhere]]
  /\ Goto(p, "dying")
  /\ UNCHANGED <<map, accessed, bottom, hand, holder, fault, fte, panic>>

\* process_exit destroys the page directory.  palloc_free_page leaves pages
\* of the user pool alone, so that the frames keep what they hold.
ProcessExit(p) ==
  /\ ~panic /\ pc[p] = "dying"
  /\ map' = [map EXCEPT ![p] = [v \in Page |-> Nobody]]
  /\ accessed' = [accessed EXCEPT ![p] = {}]
  /\ table' = [table EXCEPT ![p] = [v \in Page |-> Nowhere]]
  /\ bottom' = [bottom EXCEPT ![p] = -1]
  /\ Goto(p, "none")
  /\ UNCHANGED <<frame, swap, hand, holder, fault, fte, panic>>

Next ==
  \E p \in Proc :
    \/ Exec(p) \/ SetupStack(p)
    \/ \E v \in Page : \/ \E write \in BOOLEAN : Access(p, v, write)
                        \/ FaultLoads(p, v) \/ FaultGrows(p, v) \/ FaultKills(p, v)
    \/ TakeFree(p) \/ ClockTurn(p) \/ Unmap(p) \/ WriteSwap(p)
    \/ PutSwap(p) \/ PutFile(p) \/ PutStack(p)
    \/ FreePageTable(p) \/ ProcessExit(p)

Spec == Init /\ [][Next]_vars

-----------------------------------------------------------------------------
(* Properties *)

Content == {File, Fresh} \cup Proc
Held == [owner : Proc \cup {Nobody}, page : Page \cup {Nobody}, data : Content]

\* Every variable keeps its type.
TypeOK ==
  /\ frame \in [Frame -> Held]
  /\ swap \in [Slot -> Held]
  /\ table \in [Proc -> [Page -> {Nowhere, InFile} \cup {InFrame(f) : f \in Frame} \cup {InSwap(s) : s \in Slot}]]
  /\ map \in [Proc -> [Page -> Frame \cup {Nobody}]]
  /\ accessed \in [Proc -> SUBSET Page]
  /\ bottom \in [Proc -> -1..(Depth - 1)]
  /\ hand \in Frame
  /\ holder \in Proc \cup {Nobody}
  /\ pc \in [Proc -> {"none", "setup", "user", "get", "unmap", "write", "put", "killed", "dying"}]
  /\ fault \in [Proc -> [page : Page \cup {Nobody}, from : {"none", "swap", "file", "stack"}]]
  /\ fte \in Frame \cup {Nobody}
  /\ panic \in BOOLEAN

\* The tables agree, outside the frame the lock's holder is getting: a page
\* in a frame or a slot is the page that frame or slot is marked with, so that
\* none serves two pages, and what is marked as taken holds a page: no frame
\* and no slot leaks when a page moves or a process exits.
OnePlace ==
  \A p \in Proc, v \in Page :
    /\ table[p][v].in = "frame" => LET f == frame[table[p][v].at] IN f.owner = p /\ f.page = v
    /\ table[p][v].in = "swap" => LET s == swap[table[p][v].at] IN s.owner = p /\ s.page = v

NothingLeaks ==
  /\ \A f \in Frame : frame[f].owner # Nobody /\ f # fte => f \in FramesOf(frame[f].owner)
  /\ \A s \in Slot : swap[s].owner # Nobody => s \in SlotsOf(swap[s].owner)

TablesAgree == OnePlace /\ NothingLeaks

\* While it runs its program, a process reaches through the page directory
\* the frame its page table names, and no other: a page is unmapped before
\* its frame is given away, and nothing that is left in the page directory
\* of a process that exits is used.
MapsOwn ==
  \A p \in Proc, v \in Page :
    pc[p] \notin {"dying", "none"} /\ map[p][v] # Nobody => table[p][v] = InFrame(map[p][v])

\* Writable pages in a frame or in a slot.
InMemory == {b \in Proc \X (Page \ Code) : table[b[1]][b[2]].in \in {"frame", "swap"}}

\* An assertion fails only for want of swap, when the processes have more
\* writable pages in memory and in swap than there are slots; load_from_swap
\* asks for a slot before it gives its own back.
SwapSuffices == panic => Cardinality(InMemory) > NumSlots

Contents(p, v) ==
  IF pc[p] \in {"none", "dying"} THEN Nobody
  ELSE CASE table[p][v].in = "frame" -> frame[table[p][v].at].data
         [] table[p][v].in = "swap" -> swap[table[p][v].at].data
         [] table[p][v].in = "file" -> File
         [] OTHER -> Nobody

Promise == INSTANCE Memory WITH
  mem <- [p \in Proc |-> [v \in Page |-> Contents(p, v)]],
  Value <- Proc, Absent <- Nobody

\* Evictions, swapping and the exits of others never change what a page of a
\* process holds: the paged memory implements Memory.
ImplementsMemory == Promise!Spec
=============================================================================
