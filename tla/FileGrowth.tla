----------------------------- MODULE FileGrowth -----------------------------
(***************************************************************************)
(* Growth, reading and removal of open files in cs439/proj4/filesys:       *)
(* file_write (file.c), inode_write_at, inode_extend_file, inode_read_at   *)
(* and inode_close (inode.c) over the free map (free-map.c).               *)
(*                                                                         *)
(* write_lock of an inode is held for a whole file_write, extend_lock by   *)
(* whoever grows a file, and for the mapping of a position to a sector by  *)
(* a reader.  A step is what a thread does between two points where        *)
(* another one may read or write the same thing: the disk works on one     *)
(* sector at a time.                                                       *)
(*                                                                         *)
(* The unit is the sector, numbered from 1 in a file.  Files are open from *)
(* the start and stay within the direct blocks of an inode; the sectors of *)
(* the inode itself and of its empty index blocks are left out; the disk   *)
(* has room, since inode_extend_file takes no notice when it has none.     *)
(***************************************************************************)
EXTENDS Naturals, Sequences, FiniteSets

CONSTANTS
  Thread, File,
  Nobody,
  Value,        \* what a thread writes to a sector
  Zero,         \* a sector of zeros
  Nothing,      \* nothing was read yet
  NumSectors,   \* sectors for data
  MaxLength     \* bound on the length of a file: within MASTER_SIZE

ASSUME NameAssumption == Nobody \notin Thread /\ Zero \notin Value
ASSUME SizeAssumption ==
  /\ IsFiniteSet(File) /\ IsFiniteSet(Thread)
  /\ NumSectors \in Nat /\ MaxLength \in Nat
  /\ NumSectors >= MaxLength * Cardinality(File)

VARIABLES
  disk,         \* the contents of each sector
  free_map,     \* the sectors marked as used
  direct_block, \* of each inode, up to the last one allocated
  length, new_length,
  removed,      \* the inodes to be deleted at the last close
  opened,       \* the files each thread has open
  write_lock,   \* the holder, for each inode
  extend_lock,  \* the holder
  pc,           \* where each thread is
  job,          \* the read, write or close it is at
  got,          \* what the last read returned
  panic         \* an assertion of the kernel failed

locks == <<write_lock, extend_lock>>
inode == <<direct_block, length, new_length>>
uses == <<removed, opened>>
vars == <<disk, free_map, inode, uses, locks, pc, job, got, panic>>

Sector == 1..NumSectors
Index == 1..MaxLength
Larger(m, n) == IF m < n THEN n ELSE m
Lowest(S) == CHOOSE n \in S : \A m \in S : n <= m
open_cnt(f) == Cardinality({t \in Thread : f \in opened[t]})

NoJob == [file |-> Nobody, from |-> 0, to |-> 0, next |-> 0, value |-> Zero]

Init ==
  /\ disk = [s \in Sector |-> Zero]
  /\ free_map = {}
  /\ direct_block = [f \in File |-> <<>>]
  /\ length = [f \in File |-> 0]
  /\ new_length = [f \in File |-> 0]
  /\ removed = {}
  /\ opened = [t \in Thread |-> File]
  /\ write_lock = [f \in File |-> Nobody]
  /\ extend_lock = Nobody
  /\ pc = [t \in Thread |-> "idle"]
  /\ job = [t \in Thread |-> NoJob]
  /\ got = Nothing
  /\ panic = FALSE

At(t, l) == ~panic /\ pc[t] = l
Goto(t, l) == pc' = [pc EXCEPT ![t] = l]
Done(t) == Goto(t, "idle") /\ job' = [job EXCEPT ![t] = NoJob]
Advance(t) == job' = [job EXCEPT ![t].next = @ + 1]

-----------------------------------------------------------------------------
(* file_write *)

\* Broken: without write_lock.
BeginWriteAnyway(t, f, from, to, x) ==
  /\ At(t, "idle")
  /\ f \in opened[t]
  /\ job' = [job EXCEPT ![t] = [file |-> f, from |-> from, to |-> to, next |-> from, value |-> x]]
  /\ Goto(t, IF to = length[f] THEN "data" ELSE "extend")
  /\ UNCHANGED <<disk, free_map, inode, uses, locks, got, panic>>

\* The sectors from..to are to be written.  inode_write_at compares the
\* lengths without extend_lock, and takes it also for a write that ends
\* before the end of the file.
BeginWrite(t, f, from, to, x) ==
  /\ At(t, "idle")
  /\ f \in opened[t]
  /\ write_lock[f] = Nobody
  /\ write_lock' = [write_lock EXCEPT ![f] = t]
  /\ job' = [job EXCEPT ![t] = [file |-> f, from |-> from, to |-> to, next |-> from, value |-> x]]
  /\ Goto(t, IF to = length[f] THEN "data" ELSE "extend")
  /\ UNCHANGED <<disk, free_map, inode, uses, extend_lock, got, panic>>

\* inode_extend_file looks at the length again.  Had the file grown to where
\* this write ends, it would release the lock, and so would its caller.
BeginExtend(t) ==
  LET f == job[t].file IN
  /\ At(t, "extend")
  /\ extend_lock = Nobody
  /\ extend_lock' = t
  /\ job' = [job EXCEPT ![t].next = length[f] + 1]
  /\ panic' = (job[t].to = length[f])
  /\ Goto(t, "grow")
  /\ UNCHANGED <<disk, free_map, inode, uses, write_lock, got>>

\* free_map_allocate, zeros to the disk, and the entry in the inode.
ExtendBySector(t) ==
  LET f == job[t].file
      s == Lowest(Sector \ free_map) IN
  /\ At(t, "grow")
  /\ job[t].next <= job[t].to
  /\ Sector \ free_map # {}
  /\ free_map' = free_map \cup {s}
  /\ disk' = [disk EXCEPT ![s] = Zero]
  /\ direct_block' = [direct_block EXCEPT ![f] = Append(SubSeq(@, 1, job[t].next - 1), s)]
  /\ Advance(t)
  /\ UNCHANGED <<length, new_length, uses, locks, pc, got, panic>>

\* Broken: new_length stays.
EndExtendOnly(t) ==
  /\ At(t, "grow")
  /\ job[t].next > job[t].to
  /\ extend_lock' = Nobody
  /\ job' = [job EXCEPT ![t].next = job[t].from]
  /\ Goto(t, "data")
  /\ UNCHANGED <<disk, free_map, inode, uses, write_lock, got, panic>>

\* Broken: the file is longer before it is written.
EndExtendEarly(t) ==
  LET f == job[t].file IN
  /\ At(t, "grow")
  /\ job[t].next > job[t].to
  /\ extend_lock' = Nobody
  /\ new_length' = [new_length EXCEPT ![f] = Larger(@, job[t].to)]
  /\ length' = [length EXCEPT ![f] = Larger(@, job[t].to)]
  /\ job' = [job EXCEPT ![t].next = job[t].from]
  /\ Goto(t, "data")
  /\ UNCHANGED <<disk, free_map, direct_block, uses, write_lock, got, panic>>

\* new_length lets the writer at the new sectors, and readers past the end.
EndExtend(t) ==
  LET f == job[t].file IN
  /\ At(t, "grow")
  /\ job[t].next > job[t].to
  /\ extend_lock' = Nobody
  /\ new_length' = [new_length EXCEPT ![f] = Larger(@, job[t].to)]
  /\ job' = [job EXCEPT ![t].next = job[t].from]
  /\ Goto(t, "data")
  /\ UNCHANGED <<disk, free_map, direct_block, length, uses, write_lock, got, panic>>

WriteSector(t) ==
  LET f == job[t].file IN
  /\ At(t, "data")
  /\ job[t].next <= job[t].to
  /\ disk' = [disk EXCEPT ![direct_block[f][job[t].next]] = job[t].value]
  /\ Advance(t)
  /\ UNCHANGED <<free_map, inode, uses, locks, pc, got, panic>>

\* Only now the file is longer.
EndWrite(t) ==
  LET f == job[t].file IN
  /\ At(t, "data")
  /\ job[t].next > job[t].to
  /\ length' = [length EXCEPT ![f] = Larger(@, job[t].to)]
  /\ write_lock' = [write_lock EXCEPT ![f] = Nobody]
  /\ Done(t)
  /\ UNCHANGED <<disk, free_map, direct_block, new_length, uses, extend_lock, got, panic>>

-----------------------------------------------------------------------------
(* inode_read_at, for one sector *)

\* byte_to_sector, under extend_lock, goes by new_length.
MapSector(t, f, i) ==
  /\ At(t, "idle")
  /\ f \in opened[t]
  /\ extend_lock = Nobody
  /\ i <= new_length[f]
  /\ job' = [job EXCEPT ![t] = [NoJob EXCEPT !.file = f, !.from = i, !.next = direct_block[f][i]]]
  /\ Goto(t, "read")
  /\ UNCHANGED <<disk, free_map, inode, uses, locks, got, panic>>

\* The length decides whether there is anything to read.
ReadSector(t) ==
  /\ At(t, "read")
  /\ got' = IF job[t].from <= length[job[t].file]
              THEN disk[job[t].next] ELSE got
  /\ Done(t)
  /\ UNCHANGED <<disk, free_map, inode, uses, locks, panic>>

-----------------------------------------------------------------------------
(* inode_remove and inode_close *)

Remove(t, f) ==
  /\ At(t, "idle")
  /\ f \in opened[t] \ removed
  /\ removed' = removed \cup {f}
  /\ UNCHANGED <<disk, free_map, inode, opened, locks, pc, job, got, panic>>

\* The last opener of a removed file releases its sectors.
Close(t, f) ==
  /\ At(t, "idle")
  /\ f \in opened[t]
  /\ opened' = [opened EXCEPT ![t] = @ \ {f}]
  /\ IF open_cnt(f) = 1 /\ f \in removed
       THEN /\ job' = [job EXCEPT ![t] = [NoJob EXCEPT !.file = f, !.next = 1]]
            /\ Goto(t, "release")
       ELSE UNCHANGED <<pc, job>>
  /\ UNCHANGED <<disk, free_map, inode, removed, locks, got, panic>>

\* free_map_release, which asserts that the sector is in use.
ReleaseSector(t) ==
  LET s == direct_block[job[t].file][job[t].next] IN
  /\ At(t, "release")
  /\ job[t].next <= length[job[t].file]
  /\ free_map' = free_map \ {s}
  /\ panic' = (s \notin free_map)
  /\ Advance(t)
  /\ UNCHANGED <<disk, inode, uses, locks, pc, got>>

\* The inode itself goes.
FreeInode(t) ==
  LET f == job[t].file IN
  /\ At(t, "release")
  /\ job[t].next > length[f]
  /\ direct_block' = [direct_block EXCEPT ![f] = <<>>]
  /\ length' = [length EXCEPT ![f] = 0]
  /\ new_length' = [new_length EXCEPT ![f] = 0]
  /\ Done(t)
  /\ UNCHANGED <<disk, free_map, uses, locks, got, panic>>

Next ==
  \E t \in Thread :
    \/ \E f \in File :
         \/ \E from \in Index, x \in Value : \E to \in from..MaxLength : BeginWrite(t, f, from, to, x)
         \/ \E i \in Index : MapSector(t, f, i)
         \/ Remove(t, f) \/ Close(t, f)
    \/ BeginExtend(t) \/ ExtendBySector(t) \/ EndExtend(t) \/ WriteSector(t) \/ EndWrite(t)
    \/ ReadSector(t)
    \/ ReleaseSector(t) \/ FreeInode(t)

Spec == Init /\ [][Next]_vars

-----------------------------------------------------------------------------
(* Properties *)

Job == [file : File \cup {Nobody}, from : 0..MaxLength, to : 0..MaxLength,
        next : 0..(Larger(NumSectors, MaxLength) + 1), value : Value \cup {Zero}]

\* Every variable keeps its type; no file is longer than what it was promised.
TypeOK ==
  /\ disk \in [Sector -> Value \cup {Zero}]
  /\ free_map \subseteq Sector
  /\ direct_block \in [File -> Seq(Sector)]
  /\ \A f \in File : Len(direct_block[f]) <= MaxLength
  /\ {length, new_length} \subseteq [File -> 0..MaxLength]
  /\ \A f \in File : length[f] <= new_length[f]
  /\ removed \subseteq File /\ opened \in [Thread -> SUBSET File]
  /\ write_lock \in [File -> Thread \cup {Nobody}]
  /\ extend_lock \in Thread \cup {Nobody}
  /\ pc \in [Thread -> {"idle", "extend", "grow", "data", "read", "release"}]
  /\ job \in [Thread -> Job]
  /\ got \in Value \cup {Zero, Nothing}
  /\ panic \in BOOLEAN

Releasing(f, t) == pc[t] = "release" /\ job[t].file = f
Entries(f) ==
  {i \in DOMAIN direct_block[f] : \A t \in Thread : Releasing(f, t) => job[t].next <= i}
Block == {b \in File \X Index : b[2] \in Entries(b[1])}

\* The free map marks the sectors of the files and no others, and no sector
\* belongs to two places in files, while files grow and go at the same time;
\* no assertion fails.
SectorsOwned ==
  /\ ~panic
  /\ free_map = {direct_block[b[1]][b[2]] : b \in Block}
  /\ Cardinality(free_map) = Cardinality(Block)

Contents(f) ==
  IF \E t \in Thread : Releasing(f, t) THEN <<>>
  ELSE [i \in 1..length[f] |-> disk[direct_block[f][i]]]

Promise == INSTANCE Files WITH file <- [f \in File |-> Contents(f)]

\* A file is a sequence of its own: what others write, grow or remove never
\* shows in it, what a write adds shows when it is whole, and a reader gets
\* what the file holds although it mapped the sector before.
ImplementsFiles == Promise!Spec
=============================================================================
