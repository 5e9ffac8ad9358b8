------------------------- MODULE FileGrowthProofs -------------------------
(***************************************************************************)
(* Proofs about FileGrowth, for any threads, files and number of sectors:  *)
(* a sector belongs to one place in one file and is marked as used exactly *)
(* then, and the files implement Files.                                    *)
(*                                                                         *)
(* Beside the sectors themselves (Placed), the invariant says what a       *)
(* thread may rely on while it reads, writes or deletes a file (JobOK),    *)
(* that the lengths agree when nobody writes (LengthsOK), and how far a    *)
(* writer is and what it has left behind (WriterOK).                       *)
(***************************************************************************)
EXTENDS FileGrowth, FiniteSetTheorems, SequenceTheorems, WellFoundedInduction, TLAPS

Writing == {"extend", "grow", "data"}

\* The file of a job is open, or it is the last one's to delete.
JobOK(t) ==
  LET f == job[t].file IN
  /\ pc[t] \in Writing =>
       /\ f \in opened[t] /\ f \in File /\ write_lock[f] = t
       /\ job[t].from \in Index /\ job[t].to \in Index /\ job[t].from <= job[t].to
       /\ job[t].value \in Value
  /\ pc[t] = "read" =>
       /\ f \in opened[t] /\ f \in File
       /\ job[t].from \in DOMAIN direct_block[f] /\ job[t].next = direct_block[f][job[t].from]
  /\ pc[t] = "release" =>
       /\ f \in File /\ 1 <= job[t].next /\ job[t].next <= length[f] + 1
       /\ \A u \in Thread : f \notin opened[u]
       /\ \A u \in Thread : Releasing(f, u) => u = t

LengthsOK ==
  \A f \in File :
    /\ write_lock[f] = Nobody => Len(direct_block[f]) = length[f] /\ new_length[f] = length[f]
    /\ write_lock[f] # Nobody => pc[write_lock[f]] \in Writing /\ job[write_lock[f]].file = f

\* The sectors behind the end of the file are zeros, up to where it writes.
WriterOK(t) ==
  LET f == job[t].file
      D == direct_block[f]
      n == job[t].next IN
  /\ pc[t] = "extend" =>
       Len(D) = length[f] /\ new_length[f] = length[f] /\ job[t].to # length[f]
  /\ pc[t] = "grow" =>
       /\ Len(D) = n - 1 /\ new_length[f] = length[f]
       /\ length[f] <= n - 1 /\ n - 1 <= Larger(length[f], job[t].to)
       /\ \A i \in (length[f] + 1)..(n - 1) : disk[D[i]] = Zero
  /\ pc[t] = "data" =>
       /\ Len(D) = new_length[f] /\ new_length[f] = Larger(length[f], job[t].to)
       /\ job[t].from <= n /\ n <= job[t].to + 1
       /\ \A i \in (length[f] + 1)..new_length[f] :
            /\ i < job[t].from => disk[D[i]] = Zero
            /\ job[t].from <= i /\ i < n => disk[D[i]] = job[t].value

\* What SectorsOwned says with a cardinality: no two blocks share a sector.
At2(b) == direct_block[b[1]][b[2]]
Placed ==
  /\ ~panic
  /\ free_map = {At2(b) : b \in Block}
  /\ \A b, c \in Block : At2(b) = At2(c) => b = c

Inv ==
  /\ TypeOK /\ LengthsOK /\ Placed
  /\ \A t \in Thread : JobOK(t) /\ WriterOK(t)

-----------------------------------------------------------------------------
(* What the invariant says about a file and its sectors *)

LEMMA Sequences ==
  ASSUME TypeOK, NEW f \in File
  PROVE  /\ direct_block[f] \in Seq(Sector)
         /\ Len(direct_block[f]) \in Nat /\ Len(direct_block[f]) <= MaxLength
         /\ DOMAIN direct_block[f] = 1..Len(direct_block[f])
         /\ \A i \in 1..Len(direct_block[f]) : direct_block[f][i] \in Sector
         /\ Entries(f) \subseteq 1..Len(direct_block[f])
         /\ length[f] \in 0..MaxLength /\ new_length[f] \in 0..MaxLength
         /\ length[f] <= new_length[f]
<1>1. direct_block[f] \in Seq(Sector) /\ Len(direct_block[f]) <= MaxLength
  BY DEF TypeOK
<1>2. /\ DOMAIN direct_block[f] = 1..Len(direct_block[f])
      /\ Len(direct_block[f]) \in Nat
      /\ direct_block[f] \in [1..Len(direct_block[f]) -> Sector]
  BY <1>1, LenProperties
<1> QED  BY <1>1, <1>2 DEF TypeOK, Entries

LEMMA Blocks ==
  ASSUME TypeOK
  PROVE  \A f \in File : \A i \in Entries(f) : <<f, i>> \in Block
BY Sequences, SizeAssumption DEF Block, Index

LEMMA OpenFile ==
  ASSUME Inv, NEW f \in File, NEW t \in Thread, f \in opened[t]
  PROVE  /\ \A u \in Thread : ~Releasing(f, u)
         /\ Entries(f) = DOMAIN direct_block[f]
<1>1. \A u \in Thread : ~Releasing(f, u)
  BY DEF Inv, JobOK, Releasing
<1> QED  BY <1>1 DEF Entries

LEMMA Apart ==
  ASSUME Inv
  PROVE  \A f, g \in File : \A i \in Entries(f), j \in Entries(g) :
           direct_block[f][i] = direct_block[g][j] => f = g /\ i = j
<1> SUFFICES ASSUME NEW f \in File, NEW g \in File, NEW i \in Entries(f), NEW j \in Entries(g),
                    direct_block[f][i] = direct_block[g][j]
             PROVE  f = g /\ i = j
  OBVIOUS
<1>1. <<f, i>> \in Block /\ <<g, j>> \in Block
  BY Blocks DEF Inv
<1>2. At2(<<f, i>>) = At2(<<g, j>>)
  BY DEF At2
<1>3. <<f, i>> = <<g, j>>
  BY <1>1, <1>2 DEF Inv, Placed
<1> QED  BY <1>3

LEMMA Used ==
  ASSUME Inv
  PROVE  \A f \in File : \A i \in Entries(f) : direct_block[f][i] \in free_map
<1> SUFFICES ASSUME NEW f \in File, NEW i \in Entries(f)
             PROVE  direct_block[f][i] \in free_map
  OBVIOUS
<1>1. <<f, i>> \in Block
  BY Blocks DEF Inv
<1>2. At2(<<f, i>>) = direct_block[f][i]
  BY DEF At2
<1> QED  BY <1>1, <1>2 DEF Inv, Placed

LEMMA Bounds ==
  /\ NumSectors \in Nat /\ MaxLength \in Nat /\ Larger(NumSectors, MaxLength) \in Nat
  /\ NumSectors <= Larger(NumSectors, MaxLength) /\ MaxLength <= Larger(NumSectors, MaxLength)
  /\ \A m, n \in Nat : m <= Larger(m, n) /\ n <= Larger(m, n) /\ Larger(m, n) \in {m, n}
BY SizeAssumption DEF Larger

LEMMA NoJobIs ==
  NoJob \in Job /\ NoJob.file = Nobody
BY SizeAssumption DEF NoJob, Job, Larger

LEMMA JobNext ==
  ASSUME NEW j \in Job, NEW n \in 0..(Larger(NumSectors, MaxLength) + 1)
  PROVE  LET k == [j EXCEPT !.next = n] IN
         /\ k \in Job
         /\ k.file = j.file /\ k.from = j.from /\ k.to = j.to /\ k.value = j.value /\ k.next = n
BY DEF Job

\* A step of a thread that deletes nothing and leaves the inodes alone.
LEMMA BlocksKept ==
  ASSUME NEW t \in Thread, direct_block' = direct_block,
         \A u \in Thread \ {t} : pc'[u] = pc[u] /\ job'[u] = job[u],
         pc[t] # "release", pc'[t] # "release"
  PROVE  /\ \A f \in File : Entries(f)' = Entries(f)
         /\ Block' = Block
<1>1. ASSUME NEW f \in File, NEW u \in Thread
      PROVE  /\ Releasing(f, u)' <=> Releasing(f, u)
             /\ Releasing(f, u) => job'[u].next = job[u].next
  BY DEF Releasing
<1>2. ASSUME NEW f \in File PROVE Entries(f)' = Entries(f)
  BY <1>1 DEF Entries
<1> QED  BY <1>2 DEF Block

LEMMA PlacedKept ==
  ASSUME Inv, NEW t \in Thread, direct_block' = direct_block, free_map' = free_map,
         panic' = FALSE,
         \A u \in Thread \ {t} : pc'[u] = pc[u] /\ job'[u] = job[u],
         pc[t] # "release", pc'[t] # "release"
  PROVE  Placed'
<1>1. Block' = Block
  BY BlocksKept
<1> QED  BY <1>1 DEF Inv, Placed, At2

\* The deletion of a file is left alone by others.
LEMMA JobKept ==
  ASSUME Inv, NEW t \in Thread, NEW u \in Thread \ {t},
         pc'[u] = pc[u] /\ job'[u] = job[u],
         \A v \in Thread : opened'[v] \subseteq opened[v],
         opened'[u] = opened[u],
         \A f \in File : write_lock[f] = u => write_lock'[f] = u,
         \A f \in File : f \in opened[u] => \A i \in DOMAIN direct_block[f] :
           i \in DOMAIN direct_block'[f] /\ direct_block'[f][i] = direct_block[f][i],
         \A f \in File : Releasing(f, u) =>
           /\ length'[f] = length[f]
           /\ \A v \in Thread : Releasing(f, v)' => Releasing(f, v)
  PROVE  JobOK(u)'
<1>1. JobOK(u)
  BY DEF Inv
<1>2. ASSUME pc[u] = "release"
      PROVE  job[u].file \in File /\ Releasing(job[u].file, u)
  BY <1>1, <1>2 DEF JobOK, Releasing
<1>3. ASSUME pc[u] \in Writing \cup {"read"}
      PROVE  job[u].file \in File /\ job[u].file \in opened[u]
  BY <1>1, <1>3 DEF JobOK
<1> QED  BY <1>1, <1>2, <1>3 DEF JobOK, Writing

-----------------------------------------------------------------------------
(* The invariant holds at the start, and every step keeps it. *)

LEMMA InitInv == Init => Inv
<1> SUFFICES ASSUME Init PROVE Inv
  OBVIOUS
<1>1. \A f \in File : direct_block[f] = <<>> /\ Entries(f) = {}
  BY DEF Init, Entries
<1>2. TypeOK
  <2>1. job \in [Thread -> Job]
    BY SizeAssumption DEF Init, Job, NoJob, Larger
  <2>2. /\ disk \in [Sector -> Value \cup {Zero}]
        /\ free_map \subseteq Sector
        /\ {length, new_length} \subseteq [File -> 0..MaxLength]
        /\ \A f \in File : length[f] <= new_length[f]
        /\ removed \subseteq File /\ opened \in [Thread -> SUBSET File]
    BY SizeAssumption DEF Init
  <2>3. direct_block \in [File -> Seq(Sector)] /\ \A f \in File : Len(direct_block[f]) <= MaxLength
    <3>1. <<>> \in Seq(Sector) /\ Len(<<>>) = 0
      BY EmptySeq
    <3>2. Len(<<>>) <= MaxLength
      BY <3>1, SizeAssumption
    <3> QED  BY <1>1, <3>1, <3>2 DEF Init
  <2> QED  BY <2>1, <2>2, <2>3 DEF Init, TypeOK
<1>3. LengthsOK
  BY <1>1, NameAssumption DEF Init, LengthsOK
<1>4. Placed
  BY <1>1 DEF Init, Placed, Block
<1>5. \A t \in Thread : JobOK(t) /\ WriterOK(t)
  BY DEF Init, JobOK, WriterOK, Writing
<1> QED  BY <1>2, <1>3, <1>4, <1>5 DEF Inv

LEMMA WriterKept ==
  ASSUME Inv, NEW u \in Thread, pc'[u] = pc[u], job'[u] = job[u],
         direct_block' = direct_block, length' = length, new_length' = new_length, disk' = disk
  PROVE  WriterOK(u)'
<1>1. WriterOK(u)
  BY DEF Inv
<1> QED  BY <1>1 DEF WriterOK

LEMMA BeginWriteInv ==
  ASSUME Inv, NEW t \in Thread, NEW f \in File, NEW from \in Index, NEW to \in from..MaxLength,
         NEW x \in Value, BeginWrite(t, f, from, to, x)
  PROVE  Inv'
<1> USE DEF BeginWrite, At, Goto, inode, uses
<1>a. /\ TypeOK /\ ~panic /\ pc[t] = "idle" /\ from \in Nat /\ to \in Nat /\ from >= 1 /\ to <= MaxLength
      /\ to \in Index
  BY SizeAssumption DEF Inv, Index
<1>b. job'[t] = [file |-> f, from |-> from, to |-> to, next |-> from, value |-> x]
  BY <1>a DEF TypeOK
<1>c. pc'[t] \in {"data", "extend"} /\ (pc'[t] = "data" <=> to = length[f])
  BY <1>a DEF TypeOK
<1>d. \A u \in Thread \ {t} : pc'[u] = pc[u] /\ job'[u] = job[u]
  BY <1>a DEF TypeOK
<1>e. write_lock'[f] = t /\ \A g \in File \ {f} : write_lock'[g] = write_lock[g]
  BY <1>a DEF TypeOK
<1>1. TypeOK'
  <2>1. job'[t] \in Job
    BY <1>a, <1>b, SizeAssumption DEF Job, Larger
  <2>2. (job \in [Thread -> Job])'
    BY <1>a, <2>1, <1>b DEF TypeOK
  <2>3. (write_lock \in [File -> Thread \cup {Nobody}])'
    BY <1>a DEF TypeOK
  <2>4. (pc \in [Thread -> {"idle", "extend", "grow", "data", "read", "release"}])'
    BY <1>a DEF TypeOK
  <2> QED  BY <1>a, <2>2, <2>3, <2>4 DEF TypeOK
<1>2. LengthsOK'
  BY <1>b, <1>c, <1>d, <1>e, NameAssumption DEF Inv, LengthsOK, Writing, TypeOK
<1>3. Placed'
  BY <1>a, <1>c, <1>d, PlacedKept DEF Placed, Inv, TypeOK
<1>4. ASSUME NEW u \in Thread PROVE JobOK(u)'
  <2>1. CASE u = t
    BY <2>1, <1>a, <1>b, <1>c, <1>e DEF JobOK, Writing
  <2>2. CASE u # t
    BY <2>2, <1>a, <1>c, <1>d, <1>e, NameAssumption, JobKept DEF Releasing
  <2> QED  BY <2>1, <2>2
<1>5. ASSUME NEW u \in Thread PROVE WriterOK(u)'
  <2>1. CASE u = t
    <3>1. Len(direct_block[f]) = length[f] /\ new_length[f] = length[f] /\ length[f] \in Nat
      BY <1>a DEF Inv, LengthsOK, TypeOK
    <3> QED  BY <2>1, <3>1, <1>a, <1>b, <1>c DEF WriterOK, Larger
  <2>2. CASE u # t
    BY <2>2, <1>d DEF Inv, WriterOK
  <2> QED  BY <2>1, <2>2
<1> QED  BY <1>1, <1>2, <1>3, <1>4, <1>5 DEF Inv

LEMMA BeginExtendInv ==
  ASSUME Inv, NEW t \in Thread, BeginExtend(t)
  PROVE  Inv'
<1> USE DEF BeginExtend, At, Goto, inode, uses
<1> DEFINE f == job[t].file
<1>a. /\ TypeOK /\ ~panic /\ pc[t] = "extend" /\ f \in File /\ JobOK(t) /\ WriterOK(t)
  BY DEF Inv, JobOK, Writing
<1>b. /\ job'[t] = [job[t] EXCEPT !.next = length[f] + 1] /\ pc'[t] = "grow"
      /\ \A u \in Thread \ {t} : pc'[u] = pc[u] /\ job'[u] = job[u]
  BY <1>a DEF TypeOK
<1>c. /\ job'[t].file = f /\ job'[t].from = job[t].from /\ job'[t].to = job[t].to
      /\ job'[t].value = job[t].value /\ job'[t].next = length[f] + 1
  BY <1>a, <1>b DEF TypeOK, Job
<1>d. panic' = FALSE
  BY <1>a DEF WriterOK
<1>1. TypeOK'
  <2>1. length[f] \in 0..MaxLength /\ length[f] + 1 \in 0..(Larger(NumSectors, MaxLength) + 1)
    BY <1>a, SizeAssumption DEF TypeOK, Larger
  <2>2. job'[t] \in Job
    BY <1>a, <1>b, <2>1, JobNext DEF TypeOK
  <2>3. (job \in [Thread -> Job])'
    BY <1>a, <2>2, <1>b DEF TypeOK
  <2>4. (pc \in [Thread -> {"idle", "extend", "grow", "data", "read", "release"}])'
    BY <1>a DEF TypeOK
  <2> QED  BY <1>a, <1>d, <2>3, <2>4 DEF TypeOK
<1>2. LengthsOK'
  BY <1>a, <1>b, <1>c DEF Inv, LengthsOK, Writing, TypeOK
<1>3. Placed'
  BY <1>a, <1>b, <1>d, PlacedKept
<1>4. ASSUME NEW u \in Thread PROVE JobOK(u)'
  <2>1. CASE u = t
    BY <2>1, <1>a, <1>b, <1>c DEF JobOK, Writing
  <2>2. CASE u # t
    BY <2>2, <1>a, <1>b, JobKept DEF Releasing
  <2> QED  BY <2>1, <2>2
<1>5. ASSUME NEW u \in Thread PROVE WriterOK(u)'
  <2>1. CASE u = t
    <3>1. Len(direct_block[f]) = length[f] /\ new_length[f] = length[f] /\ length[f] \in Nat
      BY <1>a DEF WriterOK, TypeOK
    <3>2. job[t].to \in Nat
      BY <1>a, SizeAssumption DEF JobOK, Writing, Index
    <3>3. pc'[t] = "grow" /\ job'[t].file = f
      BY <1>b, <1>c
    <3>4. /\ Len(direct_block'[f]) = job'[t].next - 1 /\ new_length'[f] = length'[f]
          /\ length'[f] <= job'[t].next - 1 /\ job'[t].next - 1 <= Larger(length'[f], job'[t].to)
      BY <3>1, <3>2, <1>c DEF Larger
    <3>5. \A i \in (length'[f] + 1)..(job'[t].next - 1) : disk'[direct_block'[f][i]] = Zero
      BY <3>1, <1>c
    <3> QED  BY ONLY <2>1, <3>3, <3>4, <3>5 DEF WriterOK
  <2>2. CASE u # t
    BY <2>2, <1>b, WriterKept
  <2> QED  BY <2>1, <2>2
<1> QED  BY <1>1, <1>2, <1>3, <1>4, <1>5 DEF Inv

LEMMA EndExtendInv ==
  ASSUME Inv, NEW t \in Thread, EndExtend(t)
  PROVE  Inv'
<1> USE DEF EndExtend, At, Goto, uses
<1> DEFINE f == job[t].file
<1>a. /\ TypeOK /\ ~panic /\ panic' = FALSE /\ pc[t] = "grow" /\ f \in File
      /\ f \in opened[t] /\ write_lock[f] = t /\ JobOK(t) /\ WriterOK(t)
      /\ job[t].from \in Index /\ job[t].to \in Index /\ job[t].from <= job[t].to
  BY DEF Inv, JobOK, Writing, TypeOK
<1>b. /\ job'[t] = [job[t] EXCEPT !.next = job[t].from] /\ pc'[t] = "data"
      /\ \A u \in Thread \ {t} : pc'[u] = pc[u] /\ job'[u] = job[u]
  BY <1>a DEF TypeOK
<1>c. /\ job'[t].file = f /\ job'[t].from = job[t].from /\ job'[t].to = job[t].to
      /\ job'[t].value = job[t].value /\ job'[t].next = job[t].from
  BY <1>a, <1>b DEF TypeOK, Job
<1>d. /\ new_length'[f] = Larger(new_length[f], job[t].to)
      /\ \A g \in File \ {f} : new_length'[g] = new_length[g]
  BY <1>a DEF TypeOK
<1>e. /\ length[f] \in Nat /\ new_length[f] = length[f] /\ job[t].to \in Nat /\ job[t].to <= MaxLength
      /\ length[f] <= MaxLength /\ job[t].from \in Nat /\ job[t].next \in Nat /\ job[t].next > job[t].to
  BY <1>a, SizeAssumption DEF TypeOK, WriterOK, Index, Job
<1>f. job[t].next - 1 = Larger(length[f], job[t].to) /\ Len(direct_block[f]) = Larger(length[f], job[t].to)
  BY <1>a, <1>e DEF WriterOK, Larger
<1>1. TypeOK'
  <2>1. (new_length \in [File -> 0..MaxLength])' /\ \A g \in File : length'[g] <= new_length'[g]
    BY <1>a, <1>d, <1>e DEF TypeOK, Larger
  <2>2. job'[t] \in Job
    <3>1. job[t] \in Job
      BY <1>a DEF TypeOK
    <3>2. job[t].from \in 0..(Larger(NumSectors, MaxLength) + 1)
      BY <1>a, <1>e, SizeAssumption DEF Index, Larger
    <3> QED  BY <1>b, <3>1, <3>2, JobNext
  <2>3. (job \in [Thread -> Job])'
    BY <1>a, <2>2, <1>b DEF TypeOK
  <2>4. (pc \in [Thread -> {"idle", "extend", "grow", "data", "read", "release"}])'
    BY <1>a DEF TypeOK
  <2>5. (length \in [File -> 0..MaxLength])'
    BY <1>a DEF TypeOK
  <2> QED  BY <1>a, <2>1, <2>3, <2>4, <2>5 DEF TypeOK
<1>2. LengthsOK'
  BY <1>a, <1>b, <1>c, <1>d, NameAssumption DEF Inv, LengthsOK, Writing
<1>3. Placed'
  BY <1>a, <1>b, PlacedKept
<1>4. ASSUME NEW u \in Thread PROVE JobOK(u)'
  <2>1. CASE u = t
    BY <2>1, <1>a, <1>b, <1>c DEF JobOK, Writing
  <2>2. CASE u # t
    BY <2>2, <1>a, <1>b, JobKept DEF Releasing
  <2> QED  BY <2>1, <2>2
<1>5. ASSUME NEW u \in Thread PROVE WriterOK(u)'
  <2>1. CASE u = t
    <3>1. \A i \in (length[f] + 1)..new_length'[f] : disk[direct_block[f][i]] = Zero
      BY <1>a, <1>d, <1>e, <1>f DEF WriterOK, Larger
    <3>2. new_length'[f] = Larger(length[f], job[t].to)
      BY <1>d, <1>e
    <3>3. pc'[t] = "data" /\ job'[t].file = f
      BY <1>b, <1>c
    <3>4. Len(direct_block'[f]) = new_length'[f] /\ new_length'[f] = Larger(length'[f], job'[t].to)
      BY <3>2, <1>c, <1>f
    <3>5. job'[t].from <= job'[t].next /\ job'[t].next <= job'[t].to + 1
      BY <1>a, <1>c, <1>e
    <3>6. \A i \in (length'[f] + 1)..new_length'[f] :
            /\ i < job'[t].from => disk'[direct_block'[f][i]] = Zero
            /\ job'[t].from <= i /\ i < job'[t].next => disk'[direct_block'[f][i]] = job'[t].value
      <4>1. \A i \in (length[f] + 1)..new_length'[f] : ~(job[t].from <= i /\ i < job[t].from)
        BY <1>e
      <4> QED  BY <3>1, <4>1, <1>c
    <3> QED  BY ONLY <2>1, <3>3, <3>4, <3>5, <3>6 DEF WriterOK
  <2>2. CASE u # t
    <3>1. pc[u] \in Writing => job[u].file # f /\ job[u].file \in File
      BY <2>2, <1>a DEF Inv, JobOK
    <3>2. pc'[u] = pc[u] /\ job'[u] = job[u] /\ WriterOK(u)
      BY <2>2, <1>b DEF Inv
    <3>3. pc[u] \in Writing => new_length'[job[u].file] = new_length[job[u].file]
      BY <3>1, <1>d
    <3>4. direct_block' = direct_block /\ length' = length /\ disk' = disk
      OBVIOUS
    <3> QED  BY ONLY <3>2, <3>3, <3>4 DEF WriterOK, Writing
  <2> QED  BY <2>1, <2>2
<1> QED  BY <1>1, <1>2, <1>3, <1>4, <1>5 DEF Inv

LEMMA WriteSectorInv ==
  ASSUME Inv, NEW t \in Thread, WriteSector(t)
  PROVE  Inv'
<1> USE DEF WriteSector, At, inode, uses, locks
<1> DEFINE f == job[t].file
           n == job[t].next
           D == direct_block[f]
<1>a. /\ TypeOK /\ ~panic /\ panic' = FALSE /\ pc[t] = "data" /\ f \in File
      /\ f \in opened[t] /\ write_lock[f] = t /\ JobOK(t) /\ WriterOK(t)
      /\ job[t].from \in Index /\ job[t].to \in Index /\ job[t].from <= job[t].to
      /\ job[t].value \in Value
  BY DEF Inv, JobOK, Writing, TypeOK
<1>b. /\ job'[t] = [job[t] EXCEPT !.next = n + 1]
      /\ \A u \in Thread \ {t} : pc'[u] = pc[u] /\ job'[u] = job[u]
  BY <1>a DEF TypeOK, Advance
<1>c. /\ n \in Nat /\ job[t].to \in Nat /\ job[t].to <= MaxLength /\ job[t].from \in Nat /\ job[t].from >= 1
      /\ length[f] \in Nat /\ new_length[f] \in Nat
  BY <1>a, SizeAssumption DEF TypeOK, WriterOK, Index, Job
<1>d. n \in 1..Len(D) /\ n <= job[t].to /\ Len(D) = new_length[f] /\ new_length[f] = Larger(length[f], job[t].to)
      /\ job[t].from <= n
  BY <1>a, <1>c DEF WriterOK, Larger
<1>e. D[n] \in Sector /\ n \in Entries(f) /\ Entries(f) = 1..Len(D)
  BY <1>a, <1>d, Sequences, OpenFile
<1>f. /\ disk'[D[n]] = job[t].value
      /\ \A s \in Sector \ {D[n]} : disk'[s] = disk[s]
  BY <1>a, <1>e DEF TypeOK
<1>g. /\ job[t] \in Job /\ n + 1 \in 0..(Larger(NumSectors, MaxLength) + 1)
      /\ job'[t] \in Job
      /\ job'[t].file = f /\ job'[t].from = job[t].from /\ job'[t].to = job[t].to
      /\ job'[t].value = job[t].value /\ job'[t].next = n + 1
  <2>1. job[t] \in Job
    BY <1>a DEF TypeOK
  <2>2. n + 1 \in 0..(Larger(NumSectors, MaxLength) + 1)
    <3>1. n \in Nat /\ n <= job[t].to /\ job[t].to \in Nat /\ job[t].to <= MaxLength
      BY <1>c, <1>d
    <3> QED  BY ONLY <3>1, SizeAssumption DEF Larger
  <2> QED  BY <1>b, <2>1, <2>2, JobNext
<1>1. TypeOK'
  <2>1. (disk \in [Sector -> Value \cup {Zero}])'
    BY <1>a DEF TypeOK
  <2>2. (job \in [Thread -> Job])'
    BY <1>a, <1>b, <1>g DEF TypeOK, Advance
  <2> QED  BY <1>a, <2>1, <2>2 DEF TypeOK
<1>2. LengthsOK'
  <2>1. pc' = pc /\ \A u \in Thread : job'[u].file = job[u].file
    BY <1>b, <1>g
  <2>2. \A g \in File : write_lock[g] # Nobody => write_lock[g] \in Thread
    BY <1>a DEF TypeOK
  <2> QED  BY <2>1, <2>2 DEF Inv, LengthsOK
<1>3. Placed'
  BY <1>a, <1>b, PlacedKept
<1>4. ASSUME NEW u \in Thread PROVE JobOK(u)'
  <2>1. CASE u = t
    BY <2>1, <1>a, <1>b, <1>g DEF JobOK, Writing
  <2>2. CASE u # t
    BY <2>2, <1>a, <1>b, JobKept DEF Releasing
  <2> QED  BY <2>1, <2>2
<1>5. ASSUME NEW u \in Thread PROVE WriterOK(u)'
  <2>1. CASE u = t
    <3>1. \A i \in 1..Len(D) : i # n => D[i] \in Sector \ {D[n]}
      BY <1>a, <1>e, Apart, Sequences
    <3>2. ASSUME NEW i \in (length[f] + 1)..new_length[f]
          PROVE  /\ i < job[t].from => disk'[D[i]] = Zero
                 /\ job[t].from <= i /\ i < n + 1 => disk'[D[i]] = job[t].value
      <4>1. CASE i = n
        <5>1. disk'[D[i]] = job[t].value /\ ~(n < job[t].from) /\ n \in Nat
          BY <4>1, <1>c, <1>d, <1>f
        <5> QED  BY <4>1, <5>1
      <4>2. CASE i # n
        <5>1. i \in 1..Len(D) /\ disk'[D[i]] = disk[D[i]]
          <6>1. i \in 1..Len(D)
            BY <1>c, <1>d
          <6>2. D[i] \in Sector \ {D[n]}
            BY <3>1, <4>2, <6>1
          <6> QED  BY <1>f, <6>1, <6>2
        <5>2. /\ i < job[t].from => disk[D[i]] = Zero
              /\ job[t].from <= i /\ i < n => disk[D[i]] = job[t].value
          BY <1>a DEF WriterOK
        <5>3. i < n + 1 => i < n
          BY <4>2, <1>c
        <5> QED  BY <5>1, <5>2, <5>3
      <4> QED  BY <4>1, <4>2
    <3>3. /\ Len(D) = new_length[f] /\ new_length[f] = Larger(length[f], job[t].to)
          /\ job[t].from <= n + 1 /\ n + 1 <= job[t].to + 1
      BY <1>c, <1>d
    <3>4. pc'[t] = "data" /\ job'[t].file = f
      BY <1>a, <1>g
    <3>5. Len(direct_block'[f]) = new_length'[f] /\ new_length'[f] = Larger(length'[f], job'[t].to)
      BY <3>3, <1>g
    <3>6. job'[t].from <= job'[t].next /\ job'[t].next <= job'[t].to + 1
      BY <3>3, <1>g
    <3>7. \A i \in (length'[f] + 1)..new_length'[f] :
            /\ i < job'[t].from => disk'[direct_block'[f][i]] = Zero
            /\ job'[t].from <= i /\ i < job'[t].next => disk'[direct_block'[f][i]] = job'[t].value
      BY <3>2, <1>g
    <3> QED  BY ONLY <2>1, <3>4, <3>5, <3>6, <3>7 DEF WriterOK
  <2>2. CASE u # t
    <3> DEFINE g == job[u].file
    <3>1. CASE pc[u] \notin {"grow", "data"}
      BY <2>2, <3>1, <1>b DEF Inv, WriterOK
    <3>2. CASE pc[u] \in {"grow", "data"}
      <4>1. g \in File /\ g \in opened[u] /\ write_lock[g] = u /\ g # f
        BY <2>2, <3>2, <1>a DEF Inv, JobOK, Writing
      <4>2. \A i \in 1..Len(direct_block[g]) : direct_block[g][i] \in Sector \ {D[n]}
        BY <4>1, <1>a, <1>e, Apart, OpenFile, Sequences
      <4>3. \A i \in 1..Len(direct_block[g]) : disk'[direct_block[g][i]] = disk[direct_block[g][i]]
        BY <4>2, <1>f
      <4>4. WriterOK(u) /\ length[g] \in Nat /\ new_length[g] \in Nat /\ job[u].next \in Nat
            /\ Len(direct_block[g]) \in Nat
        <5>1. length[g] \in Nat /\ new_length[g] \in Nat /\ Len(direct_block[g]) \in Nat
          BY <4>1, <1>a, SizeAssumption, Sequences
        <5>2. job[u] \in Job
          BY <1>a DEF TypeOK
        <5>3. job[u].next \in 0..(Larger(NumSectors, MaxLength) + 1)
          BY <5>2 DEF Job
        <5>4. job[u].next \in Nat
          BY <5>3, SizeAssumption DEF Larger
        <5> QED  BY <5>1, <5>4 DEF Inv
      <4>5. \A i \in (length[g] + 1)..Len(direct_block[g]) : disk'[direct_block[g][i]] = disk[direct_block[g][i]]
        BY <4>3, <4>4
      <4>6. /\ job'[u] = job[u] /\ pc'[u] = pc[u] /\ direct_block' = direct_block
            /\ length' = length /\ new_length' = new_length
        BY <2>2, <1>b
      <4>7. CASE pc[u] = "grow"
        BY <4>4, <4>5, <4>6, <4>7 DEF WriterOK
      <4>8. CASE pc[u] = "data"
        <5>1. /\ Len(direct_block[g]) = new_length[g] /\ new_length[g] = Larger(length[g], job[u].to)
              /\ job[u].from <= job[u].next /\ job[u].next <= job[u].to + 1
              /\ \A i \in (length[g] + 1)..new_length[g] :
                   /\ i < job[u].from => disk[direct_block[g][i]] = Zero
                   /\ job[u].from <= i /\ i < job[u].next => disk[direct_block[g][i]] = job[u].value
          BY <4>4, <4>8 DEF WriterOK
        <5>2. \A i \in (length[g] + 1)..new_length[g] :
                /\ i < job[u].from => disk'[direct_block[g][i]] = Zero
                /\ job[u].from <= i /\ i < job[u].next => disk'[direct_block[g][i]] = job[u].value
          BY <4>5, <5>1
        <5> HIDE DEF g
        <5> QED  BY ONLY <4>6, <4>8, <5>1, <5>2 DEF WriterOK, g
      <4> QED  BY <3>2, <4>7, <4>8
    <3> QED  BY <3>1, <3>2
  <2> QED  BY <2>1, <2>2
<1> QED  BY <1>1, <1>2, <1>3, <1>4, <1>5 DEF Inv

LEMMA EndWriteInv ==
  ASSUME Inv, NEW t \in Thread, EndWrite(t)
  PROVE  Inv'
<1> USE DEF EndWrite, At, Goto, Done, uses
<1> DEFINE f == job[t].file
<1>a. /\ TypeOK /\ ~panic /\ panic' = FALSE /\ pc[t] = "data" /\ f \in File
      /\ f \in opened[t] /\ write_lock[f] = t /\ JobOK(t) /\ WriterOK(t)
      /\ job[t].to \in Index
  BY DEF Inv, JobOK, Writing, TypeOK
<1>b. /\ job'[t] = NoJob /\ pc'[t] = "idle"
      /\ \A u \in Thread \ {t} : pc'[u] = pc[u] /\ job'[u] = job[u]
  BY <1>a DEF TypeOK
<1>c. /\ length'[f] = Larger(length[f], job[t].to) /\ write_lock'[f] = Nobody
      /\ \A g \in File \ {f} : length'[g] = length[g] /\ write_lock'[g] = write_lock[g]
  BY <1>a DEF TypeOK
<1>d. /\ new_length[f] = length'[f] /\ Len(direct_block[f]) = length'[f]
      /\ length[f] \in 0..MaxLength /\ job[t].to \in 0..MaxLength
  BY <1>a, <1>c, SizeAssumption DEF WriterOK, TypeOK, Index
<1>1. TypeOK'
  <2>1. (length \in [File -> 0..MaxLength])' /\ \A g \in File : length'[g] <= new_length'[g]
    BY <1>a, <1>c, <1>d, SizeAssumption DEF TypeOK, Larger
  <2>2. NoJob \in Job
    BY SizeAssumption DEF Job, NoJob, Larger
  <2>3. (job \in [Thread -> Job])'
    BY <1>a, <2>2 DEF TypeOK
  <2>4. (pc \in [Thread -> {"idle", "extend", "grow", "data", "read", "release"}])'
    BY <1>a DEF TypeOK
  <2>5. (new_length \in [File -> 0..MaxLength])' /\ (write_lock \in [File -> Thread \cup {Nobody}])'
    BY <1>a DEF TypeOK
  <2> QED  BY <1>a, <2>1, <2>3, <2>4, <2>5 DEF TypeOK
<1>2. LengthsOK'
  <2>1. ASSUME NEW g \in File, g # f, write_lock[g] # Nobody
        PROVE  write_lock[g] \in Thread \ {t}
    BY <2>1, <1>a DEF Inv, LengthsOK, TypeOK
  <2> QED  BY <2>1, <1>b, <1>c, <1>d DEF Inv, LengthsOK
<1>3. Placed'
  BY <1>a, <1>b, PlacedKept
<1>4. ASSUME NEW u \in Thread PROVE JobOK(u)'
  <2>1. CASE u = t
    BY <2>1, <1>b DEF JobOK, Writing
  <2>2. CASE u # t
    <3>1. \A g \in File : Releasing(g, u) => g # f
      BY <1>a, OpenFile
    <3>2. \A g \in File : write_lock[g] = u => g # f
      BY <1>a, <2>2
    <3>3. \A g \in File : \A v \in Thread : Releasing(g, v)' => Releasing(g, v)
      BY <1>b DEF Releasing
    <3> QED  BY <2>2, <3>1, <3>2, <3>3, <1>a, <1>b, <1>c, JobKept
  <2> QED  BY <2>1, <2>2
<1>5. ASSUME NEW u \in Thread PROVE WriterOK(u)'
  <2>1. CASE u = t
    BY <2>1, <1>b DEF WriterOK
  <2>2. CASE u # t
    <3>1. pc[u] \in Writing => job[u].file # f /\ job[u].file \in File
      BY <2>2, <1>a DEF Inv, JobOK
    <3> QED  BY <2>2, <3>1, <1>b, <1>c DEF Inv, WriterOK, Writing
  <2> QED  BY <2>1, <2>2
<1> QED  BY <1>1, <1>2, <1>3, <1>4, <1>5 DEF Inv

LEMMA MapSectorInv ==
  ASSUME Inv, NEW t \in Thread, NEW f \in File, NEW i \in Index, MapSector(t, f, i)
  PROVE  Inv'
<1> USE DEF MapSector, At, Goto, inode, uses, locks
<1> DEFINE s == direct_block[f][i]
<1>a. /\ TypeOK /\ ~panic /\ panic' = FALSE /\ pc[t] = "idle" /\ f \in opened[t]
  BY DEF Inv, TypeOK
<1>b. i \in 1..new_length[f] /\ i \in 0..MaxLength
  BY <1>a, SizeAssumption DEF Index, TypeOK
<1>c. new_length[f] <= Len(direct_block[f])
  <2>1. CASE write_lock[f] = Nobody
    BY <2>1, <1>a DEF Inv, LengthsOK, TypeOK
  <2>2. CASE write_lock[f] # Nobody
    <3>1. PICK u \in Thread : u = write_lock[f]
      BY <2>2, <1>a DEF TypeOK
    <3>2. pc[u] \in Writing /\ job[u].file = f /\ WriterOK(u)
      BY <3>1, <2>2 DEF Inv, LengthsOK
    <3>3. length[f] \in Nat /\ new_length[f] \in Nat /\ job[u].next \in Nat
      BY <1>a, SizeAssumption DEF TypeOK, Job
    <3> QED  BY <3>2, <3>3 DEF WriterOK, Writing
  <2> QED  BY <2>1, <2>2
<1>d. i \in DOMAIN direct_block[f] /\ s \in Sector
  BY <1>a, <1>b, <1>c, Sequences
<1>e. /\ job'[t] = [NoJob EXCEPT !.file = f, !.from = i, !.next = s] /\ pc'[t] = "read"
      /\ \A u \in Thread \ {t} : pc'[u] = pc[u] /\ job'[u] = job[u]
  BY <1>a DEF TypeOK
<1>f. /\ job'[t] \in Job
      /\ job'[t].file = f /\ job'[t].from = i /\ job'[t].next = s
  <2>1. s \in 0..(Larger(NumSectors, MaxLength) + 1)
    BY <1>d, SizeAssumption DEF Larger, Sector
  <2>2. PICK n \in 0..(Larger(NumSectors, MaxLength) + 1) : n = s
    BY <2>1
  <2> DEFINE k == [NoJob EXCEPT !.file = f, !.from = i, !.next = n]
  <2>3. job'[t] = k
    BY <1>e, <2>2
  <2>4. k \in Job /\ k.file = f /\ k.from = i /\ k.next = n
    BY ONLY <1>b, f \in File, NoJobIs DEF Job
  <2> HIDE DEF k
  <2> QED  BY <2>2, <2>3, <2>4
<1>1. TypeOK'
  <2>2. (job \in [Thread -> Job])'
    BY <1>a, <1>e, <1>f DEF TypeOK
  <2>3. (pc \in [Thread -> {"idle", "extend", "grow", "data", "read", "release"}])'
    BY <1>a DEF TypeOK
  <2> QED  BY <1>a, <2>2, <2>3 DEF TypeOK
<1>2. LengthsOK'
  BY <1>a, <1>e DEF Inv, LengthsOK, Writing
<1>3. Placed'
  BY <1>a, <1>e, PlacedKept
<1>4. ASSUME NEW u \in Thread PROVE JobOK(u)'
  <2>1. CASE u = t
    BY <2>1, <1>a, <1>d, <1>e, <1>f DEF JobOK, Writing
  <2>2. CASE u # t
    BY <2>2, <1>a, <1>e, JobKept DEF Releasing
  <2> QED  BY <2>1, <2>2
<1>5. ASSUME NEW u \in Thread PROVE WriterOK(u)'
  <2>1. CASE u = t
    BY <1>e, <2>1 DEF WriterOK
  <2>2. CASE u # t
    BY <1>e, <2>2, WriterKept
  <2> QED  BY <2>1, <2>2
<1> QED  BY <1>1, <1>2, <1>3, <1>4, <1>5 DEF Inv

LEMMA ReadSectorInv ==
  ASSUME Inv, NEW t \in Thread, ReadSector(t)
  PROVE  Inv'
<1> USE DEF ReadSector, At, Goto, Done, inode, uses, locks
<1>a. /\ TypeOK /\ ~panic /\ panic' = FALSE /\ pc[t] = "read" /\ JobOK(t) /\ job[t].file \in File
  BY DEF Inv, TypeOK, JobOK
<1>b. /\ job'[t] = NoJob /\ pc'[t] = "idle"
      /\ \A u \in Thread \ {t} : pc'[u] = pc[u] /\ job'[u] = job[u]
  BY <1>a DEF TypeOK
<1>1. TypeOK'
  <2>1. NoJob \in Job
    BY SizeAssumption DEF Job, NoJob, Larger
  <2>2. (job \in [Thread -> Job])'
    BY <1>a, <2>1 DEF TypeOK
  <2>3. (pc \in [Thread -> {"idle", "extend", "grow", "data", "read", "release"}])'
    BY <1>a DEF TypeOK
  <2>4. job[t].next \in Sector
    BY <1>a, Sequences DEF JobOK
  <2>5. (got \in Value \cup {Zero, Nothing})'
    BY <1>a, <2>4 DEF TypeOK
  <2> QED  BY <1>a, <2>2, <2>3, <2>5 DEF TypeOK
<1>2. LengthsOK'
  BY <1>a, <1>b DEF Inv, LengthsOK, Writing
<1>3. Placed'
  BY <1>a, <1>b, PlacedKept
<1>4. ASSUME NEW u \in Thread PROVE JobOK(u)'
  <2>1. CASE u = t
    BY <2>1, <1>b DEF JobOK, Writing
  <2>2. CASE u # t
    BY <2>2, <1>a, <1>b, JobKept DEF Releasing
  <2> QED  BY <2>1, <2>2
<1>5. ASSUME NEW u \in Thread PROVE WriterOK(u)'
  BY <1>b DEF Inv, WriterOK
<1> QED  BY <1>1, <1>2, <1>3, <1>4, <1>5 DEF Inv

LEMMA RemoveInv ==
  ASSUME Inv, NEW t \in Thread, NEW f \in File, Remove(t, f)
  PROVE  Inv'
<1> USE DEF Remove, inode, locks
<1>1. TypeOK'
  BY DEF Inv, TypeOK
<1>2. LengthsOK'
  BY DEF Inv, LengthsOK
<1>3. Placed'
  BY DEF Inv, Placed, Block, Entries, Releasing, At2
<1>4. \A u \in Thread : JobOK(u)' /\ WriterOK(u)'
  BY DEF Inv, JobOK, WriterOK, Releasing
<1> QED  BY <1>1, <1>2, <1>3, <1>4 DEF Inv

\* The least of a set of numbers, by way of the sets 0..n.
LEMMA LowestIs ==
  ASSUME NEW S, S \subseteq Nat, S # {}
  PROVE  Lowest(S) \in S
<1> DEFINE T == {0..n : n \in S}
<1>1. T \subseteq FiniteSubsetsOf(Nat) /\ T # {}
  <2>1. \A n \in S : IsFiniteSet(0..n) /\ 0..n \subseteq Nat
    BY FS_Interval
  <2> QED  BY <2>1 DEF FiniteSubsetsOf
<1>2. PICK u \in T : \A w \in T : <<w, u>> \notin StrictSubsetOrdering(Nat)
  BY <1>1, FS_StrictSubsetOrderingWellFounded, WFMin
<1>3. PICK n \in S : u = 0..n
  OBVIOUS
<1>4. ASSUME NEW m \in S, m < n
      PROVE  FALSE
  <2>1. 0..m \in T /\ 0..m \subseteq 0..n /\ 0..m # 0..n /\ 0..m \subseteq Nat /\ 0..n \subseteq Nat
    BY <1>4
  <2> QED  BY <1>2, <1>3, <2>1 DEF StrictSubsetOrdering
<1>5. \A m \in S : n <= m
  BY <1>4
<1> QED  BY <1>5 DEF Lowest

LEMMA ExtendBySectorInv ==
  ASSUME Inv, NEW t \in Thread, ExtendBySector(t)
  PROVE  Inv'
<1> USE DEF ExtendBySector, At, uses, locks
<1>f1. PICK f \in File : f = job[t].file
  BY DEF Inv, JobOK, Writing
<1>n1. PICK n \in Nat : n = job[t].next
  BY Bounds DEF Inv, TypeOK, Job
<1>s1. PICK s \in Sector \ free_map : s = Lowest(Sector \ free_map)
  <2>1. Sector \ free_map \subseteq Nat /\ Sector \ free_map # {}
    BY DEF Sector
  <2> QED  BY <2>1, LowestIs
<1> DEFINE D == direct_block[f]
<1>a. /\ TypeOK /\ ~panic /\ panic' = FALSE /\ pc[t] = "grow"
      /\ f \in opened[t] /\ write_lock[f] = t /\ JobOK(t) /\ WriterOK(t)
      /\ job[t].from \in Index /\ job[t].to \in Index /\ job[t].from <= job[t].to
      /\ job[t].value \in Value
  BY <1>f1 DEF Inv, JobOK, Writing, TypeOK
<1>b. /\ job'[t] = [job[t] EXCEPT !.next = n + 1]
      /\ \A u \in Thread \ {t} : pc'[u] = pc[u] /\ job'[u] = job[u]
  BY <1>a, <1>n1 DEF TypeOK, Advance
<1>c. /\ n \in Nat /\ job[t].to \in Nat /\ job[t].to <= MaxLength
      /\ length[f] \in Nat /\ length[f] <= MaxLength /\ n <= job[t].to
      /\ Len(D) = n - 1 /\ new_length[f] = length[f] /\ length[f] <= n - 1
      /\ D \in Seq(Sector) /\ Len(D) \in Nat /\ DOMAIN D = 1..(n - 1) /\ n \in Index
  <2>1. /\ D \in Seq(Sector) /\ Len(D) \in Nat /\ DOMAIN D = 1..Len(D)
        /\ length[f] \in Nat /\ length[f] <= MaxLength
    BY <1>a, Sequences, Bounds
  <2>2. /\ Len(D) = n - 1 /\ new_length[f] = length[f] /\ length[f] <= n - 1
    BY <1>a, <1>f1, <1>n1 DEF WriterOK
  <2>3. n <= job[t].to /\ job[t].to \in Nat /\ job[t].to <= MaxLength
    BY <1>a, <1>n1, Bounds DEF Index
  <2> QED  BY <2>1, <2>2, <2>3, Bounds DEF Index
<1>e. direct_block' = [direct_block EXCEPT ![f] = Append(D, s)]
  <2>1. SubSeq(D, 1, n - 1) = D
    BY <1>c, SubSeqFull
  <2> QED  BY <2>1, <1>f1, <1>n1, <1>s1
<1>f. /\ direct_block'[f] = Append(D, s)
      /\ \A g \in File \ {f} : direct_block'[g] = direct_block[g]
  BY <1>a, <1>e DEF TypeOK
<1>d. PICK E : E = Append(D, s)
  OBVIOUS
<1>g. /\ E \in Seq(Sector) /\ Len(E) = n /\ DOMAIN E = 1..n
      /\ \A i \in 1..(n - 1) : E[i] = D[i]
      /\ E[n] = s /\ direct_block'[f] = E
  <2>1. PICK d \in Seq(Sector), x \in Sector : d = D /\ x = s
    BY <1>c
  <2>2. /\ Append(d, x) \in Seq(Sector) /\ Len(Append(d, x)) = Len(d) + 1
        /\ \A i \in 1..Len(d) : Append(d, x)[i] = d[i]
        /\ Append(d, x)[Len(d) + 1] = x
    BY AppendProperties
  <2>3. DOMAIN Append(d, x) = 1..Len(Append(d, x))
    BY <2>2, LenProperties
  <2>4. Append(d, x) = E
    BY <2>1, <1>d
  <2>5. Len(d) = n - 1
    BY <2>1, <1>c
  <2>6. Len(E) = n /\ (n - 1) + 1 = n
    BY <2>2, <2>4, <2>5
  <2>7. \A i \in 1..(n - 1) : E[i] = d[i]
    BY <2>2, <2>4, <2>5
  <2>8. E[n] = s
    BY <2>1, <2>2, <2>4, <2>5, <2>6
  <2>9. direct_block'[f] = E
    BY <1>d, <1>f
  <2> QED  BY <2>1, <2>2, <2>3, <2>4, <2>6, <2>7, <2>8, <2>9
<1>h. /\ job[t] \in Job /\ job'[t] \in Job
      /\ job'[t].file = f /\ job'[t].from = job[t].from /\ job'[t].to = job[t].to
      /\ job'[t].value = job[t].value /\ job'[t].next = n + 1
  <2>1. job[t] \in Job
    BY <1>a DEF TypeOK
  <2>2. n + 1 \in 0..(Larger(NumSectors, MaxLength) + 1)
    BY <1>c, Bounds
  <2> QED  BY <1>b, <1>f1, <2>1, <2>2, JobNext
<1>i. /\ disk'[s] = Zero /\ \A x \in Sector \ {s} : disk'[x] = disk[x]
  BY <1>a, <1>s1 DEF TypeOK
<1>k. /\ length' = length /\ new_length' = new_length /\ opened' = opened
      /\ write_lock' = write_lock /\ pc' = pc /\ free_map' = free_map \cup {s}
  BY <1>s1
<1>1. TypeOK'
  <2>1. (disk \in [Sector -> Value \cup {Zero}])'
    BY <1>a DEF TypeOK
  <2>2. (job \in [Thread -> Job])'
    BY <1>a, <1>b, <1>h DEF TypeOK, Advance
  <2>3. (direct_block \in [File -> Seq(Sector)])' /\ \A g \in File : Len(direct_block'[g]) <= MaxLength
    <3>1. n <= MaxLength
      BY <1>c, Bounds
    <3>2. ASSUME NEW g \in File
          PROVE  direct_block'[g] \in Seq(Sector) /\ Len(direct_block'[g]) <= MaxLength
      <4>1. CASE g = f
        BY <4>1, <3>1, <1>f, <1>g
      <4>2. CASE g # f
        BY <4>2, <1>a, <1>f DEF TypeOK
      <4> QED  BY <4>1, <4>2
    <3>3. direct_block' = [g \in File |-> direct_block'[g]]
      BY <1>a, <1>e DEF TypeOK
    <3> QED  BY <3>2, <3>3
  <2>4. (free_map \subseteq Sector)'
    BY <1>a, <1>s1 DEF TypeOK
  <2>5. ({length, new_length} \subseteq [File -> 0..MaxLength])' /\ \A g \in File : length'[g] <= new_length'[g]
    BY <1>a DEF TypeOK
  <2>6. (pc \in [Thread -> {"idle", "extend", "grow", "data", "read", "release"}])'
    BY <1>a DEF TypeOK
  <2> QED  BY <1>a, <2>1, <2>2, <2>3, <2>4, <2>5, <2>6 DEF TypeOK
<1> HIDE DEF D, ExtendBySector
<1>2. LengthsOK'
  <2>1. pc' = pc /\ write_lock' = write_lock /\ \A u \in Thread : job'[u].file = job[u].file
    BY <1>b, <1>f1, <1>h, <1>k
  <2>2. \A g \in File : write_lock[g] # Nobody => write_lock[g] \in Thread
    BY <1>a DEF TypeOK
  <2>3. write_lock[f] # Nobody
    BY <1>a, NameAssumption
  <2> QED  BY <2>1, <2>2, <2>3, <1>f, <1>k DEF Inv, LengthsOK
<1>3. Placed'
  <2>1. ASSUME NEW g \in File, g # f
        PROVE  Entries(g)' = Entries(g)
    <3>1. \A u \in Thread : /\ Releasing(g, u)' <=> Releasing(g, u)
                            /\ Releasing(g, u) => job'[u].next = job[u].next
      BY <1>a, <1>b, <1>f1, <1>h, <1>k DEF Releasing
    <3> QED  BY <2>1, <3>1, <1>f DEF Entries
  <2>2. Entries(f) = 1..(n - 1) /\ Entries(f)' = 1..n
    <3>1. \A u \in Thread : ~Releasing(f, u)
      BY <1>a, OpenFile
    <3>2. \A u \in Thread : ~Releasing(f, u)'
      BY <3>1, <1>a, <1>b, <1>h, <1>k DEF Releasing
    <3> QED  BY <3>1, <3>2, <1>c, <1>f, <1>g DEF Entries, D
  <2>3. Block' = Block \cup {<<f, n>>}
    <3>1. ASSUME NEW g \in File, NEW i \in Index
          PROVE  i \in Entries(g)' <=> i \in Entries(g) \/ (g = f /\ i = n)
      <4>1. CASE g = f
        <5>1. i \in Nat
          BY SizeAssumption DEF Index
        <5> QED  BY <4>1, <5>1, <2>2, <1>c
      <4>2. CASE g # f
        BY <4>2, <2>1
      <4> QED  BY <4>1, <4>2
    <3>2. ASSUME NEW b \in File \X Index
          PROVE  b \in Block' <=> b \in Block \cup {<<f, n>>}
      BY <3>1, <3>2 DEF Block
    <3>3. Block \subseteq File \X Index /\ Block' \subseteq File \X Index /\ <<f, n>> \in File \X Index
      BY <1>c DEF Block
    <3> QED  BY <3>2, <3>3
  <2>4. ASSUME NEW b \in Block
        PROVE  At2(b)' = At2(b) /\ At2(b) \in free_map /\ At2(b) # s
    <3>1. At2(b) \in free_map
      BY DEF Inv, Placed
    <3>2. b[1] \in File /\ b[2] \in Entries(b[1])
      BY DEF Block
    <3>3. CASE b[1] = f
      <4>1. b[2] \in 1..(n - 1)
        BY <3>2, <3>3, <2>2
      <4>2. direct_block'[f][b[2]] = direct_block[f][b[2]]
        BY <4>1, <1>f, <1>g DEF D
      <4> QED  BY <3>1, <3>3, <4>2, <1>s1 DEF At2
    <3>4. CASE b[1] # f
      BY <3>1, <3>2, <3>4, <1>s1, <1>f DEF At2
    <3> QED  BY <3>3, <3>4
  <2>5. At2(<<f, n>>)' = s
    BY <1>f, <1>g DEF At2
  <2>6. free_map' = free_map \cup {s}
    BY <1>k
  <2>7. free_map' = {At2(b)' : b \in Block'}
    <3>1. free_map = {At2(b) : b \in Block}
      BY DEF Inv, Placed
    <3> QED  BY <2>3, <2>4, <2>5, <2>6, <3>1
  <2>8. ASSUME NEW b \in Block', NEW c \in Block', At2(b)' = At2(c)'
        PROVE  b = c
    <3>1. b \in Block /\ c \in Block => b = c
      BY <2>4, <2>8 DEF Inv, Placed
    <3> QED  BY <2>3, <2>4, <2>5, <2>8, <3>1
  <2> QED  BY <2>7, <2>8, <1>a DEF Placed
<1>4. ASSUME NEW u \in Thread PROVE JobOK(u)'
  <2>1. CASE u = t
    BY <2>1, <1>a, <1>b, <1>f1, <1>h, <1>k DEF JobOK, Writing
  <2>2. CASE u # t
    <3>1. ASSUME NEW g \in File, NEW i \in DOMAIN direct_block[g]
          PROVE  i \in DOMAIN direct_block'[g] /\ direct_block'[g][i] = direct_block[g][i]
      <4>1. CASE g = f
        BY <4>1, <1>c, <1>g DEF D
      <4>2. CASE g # f
        BY <4>2, <1>f
      <4> QED  BY <4>1, <4>2
    <3>2. \A g \in File : \A v \in Thread : Releasing(g, v)' => Releasing(g, v)
      BY <1>a, <1>b, <1>k DEF Releasing
    <3> QED  BY <2>2, <3>1, <3>2, <1>a, <1>b, <1>k, JobKept
  <2> QED  BY <2>1, <2>2
<1>5. ASSUME NEW u \in Thread PROVE WriterOK(u)'
  <2>1. CASE u = t
    <3>1. \A i \in (length[f] + 1)..n : disk'[direct_block'[f][i]] = Zero
      <4>1. \A i \in 1..(n - 1) : D[i] \in Sector
        BY <1>c, <1>a, Sequences DEF D
      <4>2. ASSUME NEW i \in (length[f] + 1)..n PROVE disk'[direct_block'[f][i]] = Zero
        <5>1. CASE i = n
          BY <5>1, <1>f, <1>g, <1>i
        <5>2. CASE i # n
          <6>1. i \in 1..(n - 1) /\ i \in (length[f] + 1)..(n - 1)
            BY <5>2, <1>c
          <6>2. direct_block'[f][i] = D[i] /\ D[i] \in Sector /\ disk[D[i]] = Zero
            BY <6>1, <4>1, <1>a, <1>f1, <1>n1, <1>g DEF WriterOK, D
          <6> QED  BY <6>2, <1>i
        <5> QED  BY <5>1, <5>2
      <4> QED  BY <4>2
    <3>2. n <= Larger(length[f], job[t].to)
      BY <1>c DEF Larger
    <3>3. /\ Len(direct_block'[f]) = n /\ (n + 1) - 1 = n /\ length[f] <= n /\ new_length[f] = length[f]
      BY <1>c, <1>g
    <3>4. pc'[t] = "grow" /\ length' = length /\ new_length' = new_length
      BY <1>a, <1>k
    <3> QED  BY <2>1, <3>1, <3>2, <3>3, <3>4, <1>h, <1>c DEF WriterOK
  <2>2. CASE u # t
    <3> DEFINE g == job[u].file
    <3>1. CASE pc[u] \notin Writing
      BY <2>2, <3>1, <1>b DEF WriterOK, Writing
    <3>2. CASE pc[u] \in Writing
      <4>1. g \in File /\ g \in opened[u] /\ write_lock[g] = u /\ g # f
        BY <2>2, <3>2, <1>a DEF Inv, JobOK
      <4>2. \A i \in 1..Len(direct_block[g]) : direct_block[g][i] \in Sector \ {s}
        BY <4>1, <1>a, <1>s1, Used, OpenFile, Sequences
      <4>3. \A i \in 1..Len(direct_block[g]) : disk'[direct_block[g][i]] = disk[direct_block[g][i]]
        BY <4>2, <1>i
      <4>4. WriterOK(u) /\ length[g] \in Nat /\ new_length[g] \in Nat /\ job[u].next \in Nat
            /\ Len(direct_block[g]) \in Nat
        <5>1. length[g] \in Nat /\ new_length[g] \in Nat /\ Len(direct_block[g]) \in Nat
          BY <4>1, <1>a, SizeAssumption, Sequences
        <5>2. job[u] \in Job
          BY <1>a DEF TypeOK
        <5>3. job[u].next \in 0..(Larger(NumSectors, MaxLength) + 1)
          BY <5>2 DEF Job
        <5>4. job[u].next \in Nat
          BY <5>3, SizeAssumption DEF Larger
        <5> QED  BY <5>1, <5>4 DEF Inv
      <4>5. \A i \in (length[g] + 1)..Len(direct_block[g]) : disk'[direct_block[g][i]] = disk[direct_block[g][i]]
        BY <4>3, <4>4
      <4>6. /\ job'[u] = job[u] /\ pc'[u] = pc[u] /\ direct_block'[g] = direct_block[g]
            /\ length' = length /\ new_length' = new_length
        BY <2>2, <4>1, <1>b, <1>f, <1>k
      <4>7. CASE pc[u] = "grow"
        BY <4>4, <4>5, <4>6, <4>7 DEF WriterOK
      <4>8. CASE pc[u] = "data"
        <5>1. /\ Len(direct_block[g]) = new_length[g] /\ new_length[g] = Larger(length[g], job[u].to)
              /\ job[u].from <= job[u].next /\ job[u].next <= job[u].to + 1
              /\ \A i \in (length[g] + 1)..new_length[g] :
                   /\ i < job[u].from => disk[direct_block[g][i]] = Zero
                   /\ job[u].from <= i /\ i < job[u].next => disk[direct_block[g][i]] = job[u].value
          BY <4>4, <4>8 DEF WriterOK
        <5>2. \A i \in (length[g] + 1)..new_length[g] :
                /\ i < job[u].from => disk'[direct_block[g][i]] = Zero
                /\ job[u].from <= i /\ i < job[u].next => disk'[direct_block[g][i]] = job[u].value
          BY <4>5, <5>1
        <5> HIDE DEF g
        <5> QED  BY ONLY <4>6, <4>8, <5>1, <5>2 DEF WriterOK, g
      <4>9. CASE pc[u] = "extend"
        BY <4>4, <4>6, <4>9 DEF WriterOK
      <4> QED  BY <3>2, <4>7, <4>8, <4>9 DEF Writing
    <3> QED  BY <3>1, <3>2
  <2> QED  BY <2>1, <2>2
<1> QED  BY <1>1, <1>2, <1>3, <1>4, <1>5 DEF Inv

\* Who closes a file that nobody else has open leaves it to nobody.
LEMMA LastOpener ==
  ASSUME NEW t \in Thread, NEW f \in File, f \in opened[t]
  PROVE  open_cnt(f) = 1 <=> \A u \in Thread : f \in opened[u] => u = t
<1> DEFINE S == {u \in Thread : f \in opened[u]}
<1>1. IsFiniteSet(S)
  BY SizeAssumption, FS_Subset
<1>2. Cardinality(S) = 1 <=> \E x : S = {x}
  BY <1>1, FS_Singleton
<1> QED  BY <1>2 DEF open_cnt

LEMMA CloseInv ==
  ASSUME Inv, NEW t \in Thread, NEW f \in File, Close(t, f)
  PROVE  Inv'
<1> DEFINE last == open_cnt(f) = 1 /\ f \in removed
           k == [NoJob EXCEPT !.file = f, !.next = 1]
<1>a. /\ TypeOK /\ ~panic /\ panic' = FALSE /\ pc[t] = "idle" /\ f \in opened[t]
      /\ disk' = disk /\ free_map' = free_map /\ direct_block' = direct_block /\ length' = length
      /\ new_length' = new_length /\ removed' = removed /\ write_lock' = write_lock
      /\ extend_lock' = extend_lock /\ got' = got
      /\ opened' = [opened EXCEPT ![t] = @ \ {f}]
  BY DEF Inv, Close, At, TypeOK, inode, locks
<1>b. IF last THEN job' = [job EXCEPT ![t] = k] /\ pc' = [pc EXCEPT ![t] = "release"]
              ELSE job' = job /\ pc' = pc
  BY DEF Close, Goto
<1>c. k \in Job /\ k.file = f /\ k.next = 1
  <2>1. 1 \in 0..(Larger(NumSectors, MaxLength) + 1)
    BY Bounds
  <2> QED  BY <2>1, NoJobIs DEF Job
<1> HIDE DEF k, last
<1>d. /\ \A u \in Thread \ {t} : pc'[u] = pc[u] /\ job'[u] = job[u] /\ opened'[u] = opened[u]
      /\ opened'[t] = opened[t] \ {f} /\ \A u \in Thread : opened'[u] \subseteq opened[u]
      /\ last => pc'[t] = "release" /\ job'[t] = k
      /\ ~last => pc' = pc /\ job' = job
  BY <1>a, <1>b DEF TypeOK
<1>e. last => \A u \in Thread : f \notin opened'[u]
  BY <1>a, <1>d, LastOpener DEF last
<1>f. \A u \in Thread : ~Releasing(f, u)
  BY <1>a, OpenFile
<1>g. \A g \in File, u \in Thread : Releasing(g, u)' <=> Releasing(g, u) \/ (last /\ g = f /\ u = t)
  BY <1>a, <1>c, <1>d DEF Releasing
<1>1. TypeOK'
  <2>1. (job \in [Thread -> Job])' /\ (opened \in [Thread -> SUBSET File])'
        /\ (pc \in [Thread -> {"idle", "extend", "grow", "data", "read", "release"}])'
    BY <1>a, <1>b, <1>c DEF TypeOK
  <2> QED  BY <1>a, <2>1 DEF TypeOK
<1>2. LengthsOK'
  <2>1. ASSUME NEW g \in File, write_lock[g] # Nobody
        PROVE  write_lock[g] \in Thread \ {t}
    <3>1. write_lock[g] \in Thread
      BY <2>1, <1>a DEF TypeOK
    <3>2. pc[write_lock[g]] \in Writing
      BY <2>1 DEF Inv, LengthsOK
    <3> QED  BY <3>1, <3>2, <1>a DEF Writing
  <2> QED  BY <2>1, <1>a, <1>d DEF Inv, LengthsOK
<1>3. Placed'
  <2>1. ASSUME NEW g \in File PROVE Entries(g)' = Entries(g)
    <3>1. DOMAIN direct_block[g] = 1..Len(direct_block[g]) /\ Len(direct_block[g]) \in Nat
      BY <1>a, Sequences
    <3>2. ASSUME NEW i \in DOMAIN direct_block[g], NEW u \in Thread
          PROVE  (Releasing(g, u)' => job'[u].next <= i) <=> (Releasing(g, u) => job[u].next <= i)
      <4>1. CASE u = t
        <5>1. ~Releasing(g, u) /\ i >= 1
          BY <3>1, <4>1, <1>a DEF Releasing
        <5>2. Releasing(g, u)' => job'[u].next = 1
          BY <4>1, <5>1, <1>c, <1>d, <1>g
        <5> QED  BY <5>1, <5>2, <3>1
      <4>2. CASE u # t
        BY <4>2, <1>d, <1>g
      <4> QED  BY <4>1, <4>2
    <3> QED  BY <3>2, <1>a DEF Entries
  <2>2. Block' = Block
    BY <2>1 DEF Block
  <2> QED  BY <2>2, <1>a DEF Inv, Placed, At2
<1>4. ASSUME NEW u \in Thread PROVE JobOK(u)'
  <2>1. CASE u = t /\ last
    <3>1. length[f] \in Nat
      BY <1>a, Bounds, Sequences
    <3>2. \A v \in Thread : Releasing(f, v)' => v = t
      BY <1>f, <1>g
    <3> QED  BY <2>1, <3>1, <3>2, <1>a, <1>c, <1>d, <1>e DEF JobOK, Writing
  <2>2. CASE u = t /\ ~last
    BY <2>2, <1>a, <1>d DEF JobOK, Writing
  <2>3. CASE u # t
    <3>1. \A g \in File : Releasing(g, u) => \A v \in Thread : Releasing(g, v)' => Releasing(g, v)
      BY <1>f, <1>g
    <3> QED  BY <2>3, <3>1, <1>a, <1>d, JobKept
  <2> QED  BY <2>1, <2>2, <2>3
<1>5. ASSUME NEW u \in Thread PROVE WriterOK(u)'
  <2>1. CASE u = t
    BY <2>1, <1>a, <1>d DEF WriterOK
  <2>2. CASE u # t
    BY <2>2, <1>a, <1>d, SMTT(20) DEF Inv, WriterOK
  <2> QED  BY <2>1, <2>2
<1> QED  BY <1>1, <1>2, <1>3, <1>4, <1>5 DEF Inv

\* Nobody writes to a file that is being deleted.
LEMMA ReleaseFacts ==
  ASSUME Inv, NEW t \in Thread, NEW f \in File, Releasing(f, t)
  PROVE  /\ JobOK(t) /\ write_lock[f] = Nobody
         /\ Len(direct_block[f]) = length[f] /\ new_length[f] = length[f]
         /\ \A u \in Thread : f \notin opened[u]
         /\ \A u \in Thread : Releasing(f, u) => u = t
         /\ \A u \in Thread : pc[u] \in Writing \cup {"read"} => job[u].file # f
         /\ job[t].next \in 1..(length[f] + 1)
         /\ Entries(f) = job[t].next..Len(direct_block[f])
<1>1. JobOK(t) /\ pc[t] = "release" /\ job[t].file = f /\ TypeOK
  BY DEF Inv, Releasing
<1>2. /\ \A u \in Thread : f \notin opened[u]
      /\ \A u \in Thread : Releasing(f, u) => u = t
      /\ 1 <= job[t].next /\ job[t].next <= length[f] + 1
  BY <1>1 DEF JobOK
<1>3. \A u \in Thread : pc[u] \in Writing \cup {"read"} => job[u].file # f
  BY <1>2 DEF Inv, JobOK
<1>4. write_lock[f] = Nobody
  <2>1. write_lock[f] # Nobody => write_lock[f] \in Thread
    BY <1>1 DEF TypeOK
  <2> QED  BY <2>1, <1>3 DEF Inv, LengthsOK
<1>5. Len(direct_block[f]) = length[f] /\ new_length[f] = length[f]
  BY <1>4 DEF Inv, LengthsOK
<1>6. job[t].next \in Nat
  BY <1>1, Bounds DEF TypeOK, Job
<1>7. /\ DOMAIN direct_block[f] = 1..Len(direct_block[f]) /\ Len(direct_block[f]) \in Nat
      /\ length[f] \in Nat
  BY <1>1, Bounds, Sequences
<1>8. Entries(f) = {i \in DOMAIN direct_block[f] : job[t].next <= i}
  BY <1>2 DEF Entries
<1> QED  BY <1>1, <1>2, <1>3, <1>4, <1>5, <1>6, <1>7, <1>8

LEMMA ReleaseSectorInv ==
  ASSUME Inv, NEW t \in Thread, ReleaseSector(t)
  PROVE  Inv'
<1>f1. PICK f \in File : f = job[t].file
  BY DEF Inv, ReleaseSector, At, JobOK
<1>n1. PICK n \in Nat : n = job[t].next
  BY Bounds DEF Inv, TypeOK, Job
<1>s1. PICK s : s = direct_block[f][n]
  OBVIOUS
<1>a. /\ TypeOK /\ ~panic /\ pc[t] = "release" /\ n <= length[f]
      /\ free_map' = free_map \ {s} /\ panic' = (s \notin free_map)
      /\ disk' = disk /\ direct_block' = direct_block /\ length' = length /\ new_length' = new_length
      /\ removed' = removed /\ opened' = opened /\ write_lock' = write_lock
      /\ extend_lock' = extend_lock /\ pc' = pc /\ got' = got
      /\ job' = [job EXCEPT ![t].next = @ + 1]
  BY <1>f1, <1>n1, <1>s1 DEF Inv, ReleaseSector, At, Advance, inode, uses, locks
<1>b. Releasing(f, t)
  BY <1>a, <1>f1 DEF Releasing
<1>c. /\ JobOK(t) /\ write_lock[f] = Nobody /\ Len(direct_block[f]) = length[f] /\ length[f] \in Nat
      /\ n \in 1..length[f] /\ Entries(f) = n..length[f] /\ length[f] <= MaxLength
      /\ \A u \in Thread : f \notin opened[u]
      /\ \A u \in Thread : Releasing(f, u) => u = t
  BY <1>a, <1>b, <1>n1, ReleaseFacts, Sequences, Bounds
<1>d. s \in free_map /\ panic' = FALSE
  <2>1. n \in Entries(f)
    BY <1>c
  <2>2. s \in free_map
    BY <2>1, <1>s1, Used
  <2> QED  BY <2>2, <1>a
<1>h. /\ job'[t] \in Job
      /\ job'[t].file = f /\ job'[t].next = n + 1
      /\ \A u \in Thread \ {t} : job'[u] = job[u]
  <2>1. job[t] \in Job
    BY <1>a DEF TypeOK
  <2>2. n + 1 \in 0..(Larger(NumSectors, MaxLength) + 1)
    BY <1>c, Bounds
  <2>3. job'[t] = [job[t] EXCEPT !.next = n + 1]
    BY <1>a, <1>n1 DEF TypeOK
  <2>4. \A u \in Thread \ {t} : job'[u] = job[u]
    BY <1>a DEF TypeOK
  <2> QED  BY <1>f1, <2>1, <2>2, <2>3, <2>4, JobNext
<1>g. \A g \in File, u \in Thread : Releasing(g, u)' <=> Releasing(g, u)
  BY <1>a, <1>f1, <1>h DEF Releasing
<1>1. TypeOK'
  <2>1. (job \in [Thread -> Job])'
    BY <1>a, <1>h DEF TypeOK
  <2> QED  BY <1>a, <1>d, <2>1 DEF TypeOK
<1>2. LengthsOK'
  <2>1. \A u \in Thread : job'[u].file = job[u].file
    BY <1>f1, <1>h
  <2>2. \A g \in File : write_lock[g] # Nobody => write_lock[g] \in Thread
    BY <1>a DEF TypeOK
  <2> QED  BY <2>1, <2>2, <1>a DEF Inv, LengthsOK
<1>3. Placed'
  <2>1. ASSUME NEW g \in File, g # f
        PROVE  Entries(g)' = Entries(g)
    <3>1. \A u \in Thread : Releasing(g, u) => job'[u].next = job[u].next
      BY <2>1, <1>f1, <1>h DEF Releasing
    <3> QED  BY <3>1, <1>a, <1>g DEF Entries
  <2>2. Entries(f)' = (n + 1)..length[f]
    <3>1. \A u \in Thread : Releasing(f, u)' <=> u = t
      BY <1>b, <1>c, <1>g
    <3>2. DOMAIN direct_block[f] = 1..length[f]
      BY <1>a, <1>c, Sequences
    <3>3. Entries(f)' = {i \in 1..length[f] : n + 1 <= i}
      BY <3>1, <3>2, <1>a, <1>h DEF Entries
    <3> QED  BY <3>3, <1>c
  <2>3. Block' = Block \ {<<f, n>>} /\ <<f, n>> \in Block
    <3>1. ASSUME NEW g \in File, NEW i \in Index
          PROVE  i \in Entries(g)' <=> i \in Entries(g) /\ ~(g = f /\ i = n)
      <4>1. CASE g = f
        <5>1. i \in Nat
          BY Bounds DEF Index
        <5> QED  BY <4>1, <5>1, <2>2, <1>c
      <4>2. CASE g # f
        BY <4>2, <2>1
      <4> QED  BY <4>1, <4>2
    <3>2. ASSUME NEW b \in File \X Index
          PROVE  b \in Block' <=> b \in Block \ {<<f, n>>}
      BY <3>1, <3>2 DEF Block
    <3>3. Block \subseteq File \X Index /\ Block' \subseteq File \X Index
      BY DEF Block
    <3>4. <<f, n>> \in Block
      BY <1>a, <1>c, Blocks
    <3> QED  BY <3>2, <3>3, <3>4
  <2>4. \A b \in Block : At2(b)' = At2(b)
    BY <1>a DEF At2
  <2>5. At2(<<f, n>>) = s
    BY <1>s1 DEF At2
  <2>6. /\ free_map = {At2(b) : b \in Block}
        /\ \A b, c \in Block : At2(b) = At2(c) => b = c
    BY DEF Inv, Placed
  <2>7. free_map' = {At2(b)' : b \in Block'}
    BY <2>3, <2>4, <2>5, <2>6, <1>a
  <2>8. \A b, c \in Block' : At2(b)' = At2(c)' => b = c
    BY <2>3, <2>4, <2>6
  <2> QED  BY <2>7, <2>8, <1>d DEF Placed
<1>4. ASSUME NEW u \in Thread PROVE JobOK(u)'
  <2>1. CASE u = t
    BY <2>1, <1>a, <1>c, <1>g, <1>h DEF JobOK, Writing
  <2>2. CASE u # t
    BY <2>2, <1>a, <1>g, <1>h, JobKept
  <2> QED  BY <2>1, <2>2
<1>5. ASSUME NEW u \in Thread PROVE WriterOK(u)'
  <2>1. CASE u = t
    BY <2>1, <1>a DEF WriterOK
  <2>2. CASE u # t
    BY <2>2, <1>a, <1>h DEF Inv, WriterOK
  <2> QED  BY <2>1, <2>2
<1> QED  BY <1>1, <1>2, <1>3, <1>4, <1>5 DEF Inv

LEMMA FreeInodeInv ==
  ASSUME Inv, NEW t \in Thread, FreeInode(t)
  PROVE  Inv'
<1>f1. PICK f \in File : f = job[t].file
  BY DEF Inv, FreeInode, At, JobOK
<1>a. /\ TypeOK /\ ~panic /\ panic' = FALSE /\ pc[t] = "release" /\ job[t].next > length[f]
      /\ disk' = disk /\ free_map' = free_map
      /\ direct_block' = [direct_block EXCEPT ![f] = <<>>]
      /\ length' = [length EXCEPT ![f] = 0] /\ new_length' = [new_length EXCEPT ![f] = 0]
      /\ removed' = removed /\ opened' = opened /\ write_lock' = write_lock
      /\ extend_lock' = extend_lock /\ got' = got
      /\ pc' = [pc EXCEPT ![t] = "idle"] /\ job' = [job EXCEPT ![t] = NoJob]
  BY <1>f1 DEF Inv, FreeInode, At, Goto, Done, uses, locks, TypeOK
<1>b. Releasing(f, t)
  BY <1>a, <1>f1 DEF Releasing
<1>c. /\ write_lock[f] = Nobody /\ Entries(f) = {}
      /\ \A u \in Thread : f \notin opened[u]
      /\ \A u \in Thread : Releasing(f, u) => u = t
      /\ \A u \in Thread : pc[u] \in Writing \cup {"read"} => job[u].file # f
  <2>1. length[f] \in Nat /\ job[t].next \in 1..(length[f] + 1)
        /\ Len(direct_block[f]) = length[f] /\ Entries(f) = job[t].next..Len(direct_block[f])
    BY <1>a, <1>b, ReleaseFacts, Sequences, Bounds
  <2>2. Entries(f) = {}
    BY <2>1, <1>a
  <2> QED  BY <1>b, <2>2, ReleaseFacts
<1>d. /\ pc'[t] = "idle" /\ \A u \in Thread \ {t} : pc'[u] = pc[u] /\ job'[u] = job[u]
      /\ direct_block'[f] = <<>> /\ length'[f] = 0 /\ new_length'[f] = 0
      /\ \A g \in File \ {f} : /\ direct_block'[g] = direct_block[g]
                               /\ length'[g] = length[g] /\ new_length'[g] = new_length[g]
  BY <1>a DEF TypeOK
<1>e. <<>> \in Seq(Sector) /\ Len(<<>>) = 0 /\ DOMAIN <<>> = {}
  BY EmptySeq
<1>g. \A g \in File, u \in Thread : Releasing(g, u)' <=> Releasing(g, u) /\ u # t
  BY <1>d DEF Releasing
<1>1. TypeOK'
  <2>1. (job \in [Thread -> Job])'
    BY <1>a, NoJobIs DEF TypeOK
  <2>2. (direct_block \in [File -> Seq(Sector)])'
    BY <1>a, <1>e DEF TypeOK
  <2>3. \A g \in File : Len(direct_block'[g]) <= MaxLength
    <3>1. Len(direct_block'[f]) <= MaxLength
      BY <1>d, <1>e, Bounds
    <3> QED  BY <3>1, <1>a, <1>d DEF TypeOK
  <2>4. ({length, new_length} \subseteq [File -> 0..MaxLength])'
    BY <1>a, Bounds DEF TypeOK
  <2>5. \A g \in File : length'[g] <= new_length'[g]
    BY <1>a, <1>d DEF TypeOK
  <2>6. (pc \in [Thread -> {"idle", "extend", "grow", "data", "read", "release"}])'
    BY <1>a DEF TypeOK
  <2> QED  BY <1>a, <2>1, <2>2, <2>3, <2>4, <2>5, <2>6 DEF TypeOK
<1>2. LengthsOK'
  <2>1. ASSUME NEW g \in File, write_lock[g] # Nobody
        PROVE  write_lock[g] \in Thread \ {t} /\ g # f
    <3>1. write_lock[g] \in Thread
      BY <2>1, <1>a DEF TypeOK
    <3>2. pc[write_lock[g]] \in Writing
      BY <2>1 DEF Inv, LengthsOK
    <3> QED  BY <2>1, <3>1, <3>2, <1>a, <1>c DEF Writing
  <2>2. ASSUME NEW g \in File, write_lock[g] = Nobody
        PROVE  Len(direct_block'[g]) = length'[g] /\ new_length'[g] = length'[g]
    <3>1. CASE g = f
      BY <3>1, <1>d, <1>e
    <3>2. CASE g # f
      BY <2>2, <3>2, <1>d DEF Inv, LengthsOK
    <3> QED  BY <3>1, <3>2
  <2> QED  BY <2>1, <2>2, <1>a, <1>d DEF Inv, LengthsOK
<1>3. Placed'
  <2>1. ASSUME NEW g \in File PROVE Entries(g)' = Entries(g)
    <3>1. CASE g = f
      BY <3>1, <1>c, <1>d, <1>e DEF Entries
    <3>2. CASE g # f
      <4>1. \A u \in Thread : /\ Releasing(g, u)' <=> Releasing(g, u)
                              /\ Releasing(g, u) => job'[u].next = job[u].next
        BY <3>2, <1>d, <1>f1, <1>g DEF Releasing
      <4> QED  BY <4>1, <3>2, <1>d DEF Entries
    <3> QED  BY <3>1, <3>2
  <2>2. Block' = Block
    BY <2>1 DEF Block
  <2>3. \A b \in Block : At2(b)' = At2(b)
    BY <1>c, <1>d DEF Block, At2
  <2> QED  BY <2>2, <2>3, <1>a DEF Inv, Placed
<1>4. ASSUME NEW u \in Thread PROVE JobOK(u)'
  <2>1. CASE u = t
    BY <2>1, <1>d DEF JobOK, Writing
  <2>2. CASE u # t
    <3>1. \A g \in File : Releasing(g, u) => g # f
      BY <2>2, <1>c
    <3>2. \A g \in File : g \in opened[u] => g # f
      BY <1>c
    <3> QED  BY <2>2, <3>1, <3>2, <1>a, <1>d, <1>g, JobKept
  <2> QED  BY <2>1, <2>2
<1>5. ASSUME NEW u \in Thread PROVE WriterOK(u)'
  <2>1. CASE u = t
    BY <2>1, <1>d DEF WriterOK
  <2>2. CASE u # t
    <3>1. pc[u] \in Writing => job[u].file # f /\ job[u].file \in File
      BY <1>c DEF Inv, JobOK
    <3> QED  BY <2>2, <3>1, <1>a, <1>d DEF Inv, WriterOK, Writing
  <2> QED  BY <2>1, <2>2
<1> QED  BY <1>1, <1>2, <1>3, <1>4, <1>5 DEF Inv

\* Threads that write, read, remove and close keep the invariant, in any
\* order of their steps.
THEOREM Invariance == Spec => []Inv
<1>1. ASSUME Inv, Next PROVE Inv'
  BY <1>1, BeginWriteInv, BeginExtendInv, ExtendBySectorInv, EndExtendInv, WriteSectorInv,
     EndWriteInv, MapSectorInv, ReadSectorInv, RemoveInv, CloseInv, ReleaseSectorInv, FreeInodeInv
     DEF Next
<1>2. ASSUME Inv, UNCHANGED vars PROVE Inv'
  <2> USE <1>2 DEF vars, inode, uses, locks
  <2>1. TypeOK'
    BY DEF Inv, TypeOK
  <2>2. LengthsOK'
    BY DEF Inv, LengthsOK
  <2>3. Placed'
    BY DEF Inv, Placed, Block, Entries, Releasing, At2
  <2>4. \A t \in Thread : JobOK(t)' /\ WriterOK(t)'
    BY DEF Inv, JobOK, WriterOK, Releasing
  <2> QED  BY <2>1, <2>2, <2>3, <2>4 DEF Inv
<1>3. Inv /\ [Next]_vars => Inv'
  BY <1>1, <1>2
<1> QED  BY <1>3, InitInv, PTL DEF Spec

\* The variables of the inodes, locks and jobs keep their types (inode.c,
\* free-map.c, file.c), whatever the number of threads, files and sectors.
THEOREM TypeCorrect == Spec => []TypeOK
<1>1. Inv => TypeOK
  BY DEF Inv
<1> QED  BY <1>1, Invariance, PTL

\* The free map marks the sectors of the files and no others, and each of
\* them is in one place of one file (free_map_allocate, free_map_release,
\* inode_extend_file and inode_close); the assertion of free_map_release
\* holds.
THEOREM SectorsCorrect == Spec => []SectorsOwned
<1>1. ASSUME Inv PROVE SectorsOwned
  <2> DEFINE h == [b \in Block |-> At2(b)]
  <2>1. /\ ~panic /\ free_map = {At2(b) : b \in Block}
        /\ \A b, c \in Block : At2(b) = At2(c) => b = c
    BY <1>1 DEF Inv, Placed
  <2>2. h \in Injection(Block, free_map) /\ h \in Surjection(Block, free_map)
    <3>1. h \in [Block -> free_map]
      BY <2>1
    <3>2. \A b, c \in Block : h[b] = h[c] => b = c
      BY <2>1
    <3>3. \A s \in free_map : \E b \in Block : h[b] = s
      BY <2>1
    <3> HIDE DEF h
    <3> QED  BY <3>1, <3>2, <3>3 DEF Injection, IsInjective, Surjection
  <2>3. IsFiniteSet(free_map)
    <3>1. IsFiniteSet(Sector) /\ free_map \in SUBSET Sector
      <4>1. IsFiniteSet(1..NumSectors)
        BY Bounds, FS_Interval
      <4> QED  BY <1>1, <4>1 DEF Inv, TypeOK, Sector
    <3> QED  BY <3>1, FS_Subset
  <2> HIDE DEF h
  <2>4. Cardinality(Block) = Cardinality(free_map)
    BY <2>2, <2>3, FS_Injection
  <2> QED  BY <2>1, <2>4 DEF SectorsOwned, At2
<1> QED  BY <1>1, Invariance, PTL

-----------------------------------------------------------------------------
(* The files implement Files. *)

HasFiles == [f \in File |-> Contents(f)]

\* What a file holds unless it is being deleted.
LEMMA Holds ==
  ASSUME Inv, NEW f \in File, \A u \in Thread : ~Releasing(f, u)
  PROVE  /\ Contents(f) = [i \in 1..length[f] |-> disk[direct_block[f][i]]]
         /\ length[f] \in Nat /\ DOMAIN Contents(f) = 1..length[f]
         /\ Len(Contents(f)) = length[f]
         /\ length[f] <= Len(direct_block[f])
<1>1. Contents(f) = [i \in 1..length[f] |-> disk[direct_block[f][i]]]
  BY DEF Contents
<1>2. length[f] \in Nat
  BY Sequences, Bounds DEF Inv
<1>3. DOMAIN Contents(f) = 1..length[f] /\ Len(Contents(f)) = length[f]
  BY <1>1, <1>2
<1>4. length[f] <= Len(direct_block[f])
  <2>1. CASE write_lock[f] = Nobody
    BY <2>1, <1>2 DEF Inv, LengthsOK
  <2>2. CASE write_lock[f] # Nobody
    <3>1. PICK u \in Thread : u = write_lock[f]
      BY <2>2 DEF Inv, TypeOK
    <3>2. pc[u] \in Writing /\ job[u].file = f /\ WriterOK(u)
      BY <3>1, <2>2 DEF Inv, LengthsOK
    <3>3. length[f] \in Nat /\ new_length[f] \in Nat /\ length[f] <= new_length[f] /\ job[u].next \in Nat
      BY Bounds, Sequences DEF Inv, TypeOK, Job
    <3> QED  BY <3>2, <3>3 DEF WriterOK, Writing
  <2> QED  BY <2>1, <2>2
<1> QED  BY <1>1, <1>2, <1>3, <1>4

LEMMA Unseen ==
  ASSUME NEW f \in File, length'[f] = length[f],
         \A u \in Thread : Releasing(f, u)' <=> Releasing(f, u),
         (\A u \in Thread : ~Releasing(f, u)) =>
           \A i \in 1..length[f] : disk'[direct_block'[f][i]] = disk[direct_block[f][i]]
  PROVE  Contents(f)' = Contents(f)
<1>1. CASE \E u \in Thread : Releasing(f, u)
  BY <1>1 DEF Contents
<1>2. CASE \A u \in Thread : ~Releasing(f, u)
  BY <1>2 DEF Contents
<1> QED  BY <1>1, <1>2

LEMMA AllUnseen ==
  ASSUME \A f \in File : Contents(f)' = Contents(f), got' = got
  PROVE  UNCHANGED Promise!vars
BY DEF Promise!vars

\* One file changes as a step of Files says.
LEMMA OneChanges ==
  ASSUME NEW f \in File, \A g \in File \ {f} : Contents(g)' = Contents(g)
  PROVE  HasFiles' = [HasFiles EXCEPT ![f] = Contents(f)']
BY DEF HasFiles

LEMMA InitRefines == Init => Promise!Init
<1> SUFFICES ASSUME Init PROVE Promise!Init
  OBVIOUS
<1>1. \A f \in File : Contents(f) = <<>>
  BY DEF Init, Contents, Releasing
<1> QED  BY <1>1 DEF Init, Promise!Init

\* A step that changes no sector, no inode and no deletion.
LEMMA NothingSeen ==
  ASSUME NEW t \in Thread, disk' = disk, direct_block' = direct_block, length' = length, got' = got,
         \A u \in Thread \ {t} : pc'[u] = pc[u] /\ job'[u] = job[u],
         pc[t] # "release", pc'[t] # "release"
  PROVE  UNCHANGED Promise!vars
<1>1. \A f \in File, u \in Thread : Releasing(f, u)' <=> Releasing(f, u)
  BY DEF Releasing
<1>2. \A f \in File : Contents(f)' = Contents(f)
  BY <1>1, Unseen
<1> QED  BY <1>2, AllUnseen

LEMMA QuietSteps ==
  ASSUME Inv, NEW t \in Thread,
         \/ \E f \in File : \/ \E from \in Index, x \in Value : \E to \in from..MaxLength :
                                 BeginWrite(t, f, from, to, x)
                            \/ \E i \in Index : MapSector(t, f, i)
         \/ BeginExtend(t) \/ EndExtend(t)
  PROVE  UNCHANGED Promise!vars
<1>1. TypeOK
  BY DEF Inv
<1>2. /\ disk' = disk /\ direct_block' = direct_block /\ length' = length /\ got' = got
      /\ \A u \in Thread \ {t} : pc'[u] = pc[u] /\ job'[u] = job[u]
      /\ pc[t] # "release" /\ pc'[t] # "release"
  BY <1>1, ZenonT(40) DEF TypeOK, BeginWrite, MapSector, BeginExtend, EndExtend, At, Goto, inode
<1> QED  BY <1>2, NothingSeen

LEMMA RemoveRefines ==
  ASSUME NEW t \in Thread, NEW f \in File, Remove(t, f)
  PROVE  UNCHANGED Promise!vars
<1>1. \A g \in File : Contents(g)' = Contents(g)
  BY DEF Remove, inode, Contents, Releasing
<1> QED  BY <1>1, AllUnseen DEF Remove

LEMMA ExtendRefines ==
  ASSUME Inv, NEW t \in Thread, ExtendBySector(t)
  PROVE  UNCHANGED Promise!vars
<1>f1. PICK f \in File : f = job[t].file
  BY DEF Inv, ExtendBySector, At, JobOK, Writing
<1>n1. PICK n \in Nat : n = job[t].next
  BY Bounds DEF Inv, TypeOK, Job
<1>s1. PICK s \in Sector \ free_map : s = Lowest(Sector \ free_map)
  <2>1. Sector \ free_map \subseteq Nat /\ Sector \ free_map # {}
    BY DEF Sector, ExtendBySector
  <2> QED  BY <2>1, LowestIs
<1>a. /\ TypeOK /\ pc[t] = "grow" /\ f \in opened[t] /\ WriterOK(t) /\ pc' = pc
      /\ length' = length /\ got' = got
      /\ disk' = [disk EXCEPT ![s] = Zero]
      /\ direct_block' = [direct_block EXCEPT ![f] = Append(SubSeq(direct_block[f], 1, n - 1), s)]
      /\ \A u \in Thread \ {t} : job'[u] = job[u]
  BY <1>f1, <1>n1, <1>s1, SMTT(20) DEF ExtendBySector, Inv, JobOK, Writing, At, TypeOK, Advance
<1>b. \A g \in File, u \in Thread : Releasing(g, u)' <=> Releasing(g, u)
  BY <1>a DEF Releasing
<1>c. \A x \in Sector \ {s} : disk'[x] = disk[x]
  BY <1>a DEF TypeOK
<1>1. ASSUME NEW g \in File, \A u \in Thread : ~Releasing(g, u), NEW i \in 1..length[g]
      PROVE  disk'[direct_block'[g][i]] = disk[direct_block[g][i]]
  <2>1. i \in 1..Len(direct_block[g]) /\ Entries(g) = 1..Len(direct_block[g])
    <3>1. length[g] \in Nat /\ length[g] <= Len(direct_block[g]) /\ Len(direct_block[g]) \in Nat
      BY <1>1, <1>a, Holds, Sequences
    <3>2. Entries(g) = DOMAIN direct_block[g]
      BY <1>1 DEF Entries
    <3> QED  BY <3>1, <3>2, <1>a, Sequences
  <2>2. direct_block[g][i] \in Sector \ {s}
    BY <2>1, <1>a, Used, Sequences
  <2>3. direct_block'[g][i] = direct_block[g][i]
    <3>1. CASE g = f
      <4>1. PICK d \in Seq(Sector), x \in Sector : d = direct_block[f] /\ x = s
        BY <1>a, Sequences
      <4>2. Len(d) = n - 1
        BY <4>1, <1>a, <1>f1, <1>n1 DEF WriterOK
      <4>3. SubSeq(d, 1, n - 1) = d
        BY <4>2, SubSeqFull
      <4>4. direct_block'[f] = Append(d, x)
        BY <4>1, <4>3, <1>a DEF TypeOK
      <4> QED  BY <2>1, <3>1, <4>1, <4>4, AppendProperties
    <3>2. CASE g # f
      BY <3>2, <1>a DEF TypeOK
    <3> QED  BY <3>1, <3>2
  <2> QED  BY <2>2, <2>3, <1>c
<1>2. \A g \in File : Contents(g)' = Contents(g)
  BY <1>1, <1>a, <1>b, Unseen
<1> QED  BY <1>2, <1>a, AllUnseen

LEMMA WriteRefines ==
  ASSUME Inv, NEW t \in Thread, WriteSector(t)
  PROVE  [Promise!Next]_(Promise!vars)
<1>f1. PICK f \in File : f = job[t].file
  BY DEF Inv, WriteSector, At, JobOK, Writing
<1>n1. PICK n \in Nat : n = job[t].next
  BY Bounds DEF Inv, TypeOK, Job
<1>x1. PICK x \in Value : x = job[t].value
  BY DEF Inv, WriteSector, At, JobOK, Writing
<1>a. /\ TypeOK /\ pc[t] = "data" /\ f \in opened[t] /\ WriterOK(t) /\ pc' = pc
      /\ n <= job[t].to /\ job[t].to \in Nat /\ job[t].from \in Nat /\ job[t].from >= 1
      /\ length' = length /\ got' = got /\ direct_block' = direct_block
      /\ \A u \in Thread \ {t} : job'[u] = job[u]
  BY <1>f1, <1>n1, Bounds DEF WriteSector, Inv, JobOK, Writing, At, TypeOK, Advance, inode, Index
<1>s1. /\ n \in 1..Len(direct_block[f]) /\ Len(direct_block[f]) \in Nat
       /\ length[f] \in Nat /\ length[f] <= Len(direct_block[f])
  <2>1. /\ Len(direct_block[f]) \in Nat /\ length[f] \in Nat /\ new_length[f] \in Nat
        /\ length[f] <= new_length[f]
    BY <1>a, Sequences, Bounds
  <2>2. /\ Len(direct_block[f]) = new_length[f] /\ new_length[f] = Larger(length[f], job[t].to)
        /\ job[t].from <= n
    BY <1>a, <1>f1, <1>n1 DEF WriterOK
  <2>3. job[t].to <= Larger(length[f], job[t].to)
    BY <2>1, <1>a, Bounds
  <2> QED  BY <2>1, <2>2, <2>3, <1>a
<1>s2. PICK s \in Sector : s = direct_block[f][n]
  BY <1>a, <1>s1, Sequences
<1>b. \A g \in File, u \in Thread : Releasing(g, u)' <=> Releasing(g, u)
  BY <1>a, <1>f1 DEF Releasing
<1>c. disk'[s] = x /\ \A y \in Sector \ {s} : disk'[y] = disk[y]
  BY <1>a, <1>f1, <1>n1, <1>s2, <1>x1 DEF TypeOK, WriteSector
<1>d. n \in Entries(f) /\ \A u \in Thread : ~Releasing(f, u)
  BY <1>a, <1>s1, OpenFile, Sequences
<1>1. ASSUME NEW g \in File, \A u \in Thread : ~Releasing(g, u), NEW i \in 1..length[g], ~(g = f /\ i = n)
      PROVE  disk'[direct_block'[g][i]] = disk[direct_block[g][i]]
  <2>1. i \in 1..Len(direct_block[g]) /\ i \in Entries(g)
    <3>1. length[g] \in Nat /\ length[g] <= Len(direct_block[g]) /\ Len(direct_block[g]) \in Nat
      BY <1>1, <1>a, Holds, Sequences
    <3>2. Entries(g) = DOMAIN direct_block[g]
      BY <1>1 DEF Entries
    <3> QED  BY <3>1, <3>2, <1>a, Sequences
  <2>2. direct_block[g][i] \in Sector \ {s}
    BY <2>1, <1>1, <1>a, <1>d, <1>s2, Apart, Sequences
  <2> QED  BY <2>2, <1>a, <1>c
<1>2. \A g \in File \ {f} : Contents(g)' = Contents(g)
  BY <1>1, <1>a, <1>b, Unseen
<1>3. CASE n > length[f]
  <2>1. Contents(f)' = Contents(f)
    <3>1. \A i \in 1..length[f] : i # n
      BY <1>3, <1>s1
    <3> QED  BY <3>1, <1>1, <1>a, <1>b, Unseen
  <2> QED  BY <2>1, <1>2, <1>a, AllUnseen
<1>4. CASE n <= length[f]
  <2>1. /\ Contents(f) = [i \in 1..length[f] |-> disk[direct_block[f][i]]]
        /\ Contents(f)' = [i \in 1..length[f] |-> disk'[direct_block[f][i]]]
    BY <1>a, <1>b, <1>d DEF Contents
  <2>2. /\ n \in 1..length[f] /\ disk'[direct_block[f][n]] = x
        /\ \A i \in 1..length[f] : i # n => disk'[direct_block[f][i]] = disk[direct_block[f][i]]
    BY <1>1, <1>4, <1>a, <1>c, <1>d, <1>s1, <1>s2
  <2>3. Contents(f)' = [Contents(f) EXCEPT ![n] = x] /\ n \in DOMAIN Contents(f)
    <3>1. Contents(f)' = [i \in 1..length[f] |-> IF i = n THEN x ELSE disk[direct_block[f][i]]]
      BY <2>1, <2>2
    <3>2. [Contents(f) EXCEPT ![n] = x] =
            [i \in 1..length[f] |-> IF i = n THEN x ELSE disk[direct_block[f][i]]]
      BY <2>1
    <3> QED  BY <2>1, <2>2, <3>1, <3>2
  <2>4. HasFiles' = [HasFiles EXCEPT ![f] = [Contents(f) EXCEPT ![n] = x]]
    BY <2>3, <1>2, OneChanges
  <2>5. HasFiles[f] = Contents(f)
    BY DEF HasFiles
  <2>6. Promise!Overwrite(f, n, x)
    BY <2>3, <2>4, <2>5, <1>a DEF Promise!Overwrite, HasFiles
  <2>7. n \in DOMAIN HasFiles[f]
    BY <2>3, <2>5
  <2> QED  BY <2>6, <2>7 DEF Promise!Next, HasFiles
<1> QED  BY <1>3, <1>4, <1>s1

LEMMA EndWriteRefines ==
  ASSUME Inv, NEW t \in Thread, EndWrite(t)
  PROVE  [Promise!Next]_(Promise!vars)
<1>f1. PICK f \in File : f = job[t].file
  BY DEF Inv, EndWrite, At, JobOK, Writing
<1>x1. PICK x \in Value, from \in Index, to \in Index : x = job[t].value /\ from = job[t].from /\ to = job[t].to
  BY DEF Inv, EndWrite, At, JobOK, Writing
<1>a. /\ TypeOK /\ pc[t] = "data" /\ f \in opened[t] /\ WriterOK(t) /\ pc'[t] = "idle"
      /\ job[t].next > to /\ from <= to /\ from \in Nat /\ to \in Nat /\ from >= 1
      /\ length' = [length EXCEPT ![f] = Larger(@, to)]
      /\ got' = got /\ direct_block' = direct_block /\ disk' = disk
      /\ \A u \in Thread \ {t} : job'[u] = job[u] /\ pc'[u] = pc[u]
  BY <1>f1, <1>x1, Bounds, SMTT(20) DEF EndWrite, Inv, JobOK, Writing, At, TypeOK, Done, Goto, Index
<1>b. \A g \in File, u \in Thread : Releasing(g, u)' <=> Releasing(g, u)
  BY <1>a DEF Releasing
<1>c. length'[f] = Larger(length[f], to) /\ \A g \in File \ {f} : length'[g] = length[g]
  BY <1>a DEF TypeOK
<1>d. /\ \A u \in Thread : ~Releasing(f, u)
      /\ length[f] \in Nat /\ DOMAIN Contents(f) = 1..length[f] /\ Len(Contents(f)) = length[f]
      /\ Contents(f) = [i \in 1..length[f] |-> disk[direct_block[f][i]]]
  <2>1. \A u \in Thread : ~Releasing(f, u)
    BY <1>a, OpenFile
  <2> QED  BY <2>1, Holds
<1>2. \A g \in File \ {f} : Contents(g)' = Contents(g)
  BY <1>a, <1>b, <1>c, Unseen
<1>3. CASE to <= length[f]
  <2>1. length'[f] = length[f]
    BY <1>3, <1>a, <1>c, <1>d DEF Larger
  <2>2. Contents(f)' = Contents(f)
    BY <2>1, <1>a, <1>b, Unseen
  <2> QED  BY <2>2, <1>2, <1>a, AllUnseen
<1>4. CASE length[f] < to
  <2>1. length'[f] = to /\ new_length[f] = to
    <3>1. new_length[f] = Larger(length[f], to)
      BY <1>a, <1>f1, <1>x1 DEF WriterOK
    <3> QED  BY <3>1, <1>4, <1>a, <1>c, <1>d DEF Larger
  <2>2. ASSUME NEW i \in 1..to
        PROVE  disk[direct_block[f][i]] = IF i \in 1..length[f] THEN Contents(f)[i]
                                            ELSE IF i < from THEN Zero ELSE x
    <3>1. CASE i \in 1..length[f]
      BY <3>1, <1>d
    <3>2. CASE i \notin 1..length[f]
      <4>1. i \in (length[f] + 1)..new_length[f]
        BY <3>2, <2>1, <1>a, <1>d
      <4>2. job[t].next \in Nat
        BY <1>a, Bounds DEF TypeOK, Job
      <4>3. i < job[t].next
        BY <4>2, <1>a
      <4>4. /\ i < from => disk[direct_block[f][i]] = Zero
            /\ from <= i /\ i < job[t].next => disk[direct_block[f][i]] = x
        BY <4>1, <1>a, <1>f1, <1>x1 DEF WriterOK
      <4> QED  BY <3>2, <4>3, <4>4, <1>a
    <3> QED  BY <3>1, <3>2
  <2>3. Contents(f)' = [i \in 1..to |-> disk[direct_block[f][i]]]
    BY <2>1, <1>a, <1>b, <1>d DEF Contents
  <2>4. Contents(f)' = [i \in 1..to |-> IF i \in DOMAIN Contents(f) THEN Contents(f)[i]
                                          ELSE IF i < from THEN Zero ELSE x]
    BY <2>2, <2>3, <1>d
  <2>5. HasFiles[f] = Contents(f) /\ Len(HasFiles[f]) < to
    BY <1>4, <1>d DEF HasFiles
  <2>6. HasFiles' = [HasFiles EXCEPT ![f] =
          [i \in 1..to |-> IF i \in DOMAIN @ THEN @[i] ELSE IF i < from THEN Zero ELSE x]]
    BY <2>4, <2>5, <1>2, OneChanges
  <2>7. Promise!Extend(f, from, to, x)
    BY <2>5, <2>6, <1>a DEF Promise!Extend, HasFiles
  <2> QED  BY <2>7 DEF Promise!Next
<1> QED  BY <1>3, <1>4, <1>a, <1>d

LEMMA ReadRefines ==
  ASSUME Inv, NEW t \in Thread, ReadSector(t)
  PROVE  [Promise!Next]_(Promise!vars)
<1>f1. PICK f \in File : f = job[t].file
  BY DEF Inv, ReadSector, At, JobOK
<1>n1. PICK i \in Nat : i = job[t].from
  BY Bounds DEF Inv, TypeOK, Job
<1>a. /\ TypeOK /\ pc[t] = "read" /\ f \in opened[t] /\ pc'[t] = "idle"
      /\ i \in DOMAIN direct_block[f] /\ job[t].next = direct_block[f][i]
      /\ got' = IF i <= length[f] THEN disk[direct_block[f][i]] ELSE got
      /\ length' = length /\ direct_block' = direct_block /\ disk' = disk
      /\ \A u \in Thread \ {t} : job'[u] = job[u] /\ pc'[u] = pc[u]
  BY <1>f1, <1>n1 DEF ReadSector, Inv, JobOK, At, TypeOK, Done, Goto, inode
<1>b. \A g \in File, u \in Thread : Releasing(g, u)' <=> Releasing(g, u)
  BY <1>a DEF Releasing
<1>1. \A g \in File : Contents(g)' = Contents(g)
  BY <1>a, <1>b, Unseen
<1>2. CASE i > length[f]
  <2>1. length[f] \in Nat
    BY <1>a, Sequences, Bounds
  <2>2. got' = got
    BY <2>1, <1>2, <1>a
  <2> QED  BY <2>2, <1>1, AllUnseen
<1>3. CASE i <= length[f]
  <2>1. \A u \in Thread : ~Releasing(f, u)
    BY <1>a, OpenFile
  <2>2. /\ Contents(f) = [j \in 1..length[f] |-> disk[direct_block[f][j]]]
        /\ length[f] \in Nat /\ DOMAIN Contents(f) = 1..length[f]
    BY <2>1, Holds
  <2>3. i \in 1..length[f]
    BY <2>2, <1>3, <1>a, Sequences
  <2>4. got' = Contents(f)[i] /\ i \in DOMAIN Contents(f)
    BY <2>2, <2>3, <1>3, <1>a
  <2>5. HasFiles' = HasFiles /\ HasFiles[f] = Contents(f)
    BY <1>1 DEF HasFiles
  <2>6. Promise!Read(f, i)
    BY <2>4, <2>5 DEF Promise!Read, HasFiles
  <2>7. i \in DOMAIN HasFiles[f]
    BY <2>4, <2>5
  <2> QED  BY <2>6, <2>7 DEF Promise!Next, HasFiles
<1>4. length[f] \in Nat
  BY <1>a, Sequences, Bounds
<1> QED  BY <1>2, <1>3, <1>4

LEMMA CloseRefines ==
  ASSUME Inv, NEW t \in Thread, NEW f \in File, Close(t, f)
  PROVE  [Promise!Next]_(Promise!vars)
<1>a. /\ TypeOK /\ pc[t] = "idle" /\ f \in opened[t]
      /\ disk' = disk /\ direct_block' = direct_block /\ length' = length /\ got' = got
  BY DEF Inv, Close, At, inode
<1>1. CASE pc' = pc /\ job' = job
  <2>1. \A g \in File : Contents(g)' = Contents(g)
    BY <1>1, <1>a DEF Contents, Releasing
  <2> QED  BY <2>1, <1>a, AllUnseen
<1>2. CASE job' = [job EXCEPT ![t] = [NoJob EXCEPT !.file = f, !.next = 1]] /\ pc' = [pc EXCEPT ![t] = "release"]
  <2>1. /\ pc'[t] = "release" /\ job'[t].file = f
        /\ \A u \in Thread \ {t} : job'[u] = job[u] /\ pc'[u] = pc[u]
    BY <1>2, <1>a DEF TypeOK, NoJob
  <2>2. Releasing(f, t)'
    BY <2>1 DEF Releasing
  <2>3. \A g \in File \ {f}, u \in Thread : Releasing(g, u)' <=> Releasing(g, u)
    BY <2>1, <1>a DEF Releasing
  <2>4. \A g \in File \ {f} : Contents(g)' = Contents(g)
    BY <2>3, <1>a, Unseen
  <2>5. Contents(f)' = <<>>
    BY <2>2 DEF Contents
  <2>6. HasFiles' = [HasFiles EXCEPT ![f] = <<>>]
    BY <2>4, <2>5, OneChanges
  <2>7. Promise!Delete(f)
    BY <2>6, <1>a DEF Promise!Delete, HasFiles
  <2> QED  BY <2>7 DEF Promise!Next
<1> QED  BY <1>1, <1>2 DEF Close, Goto

LEMMA ReleaseRefines ==
  ASSUME Inv, NEW t \in Thread, ReleaseSector(t) \/ FreeInode(t)
  PROVE  UNCHANGED Promise!vars
<1>f1. PICK f \in File : f = job[t].file
  BY DEF Inv, ReleaseSector, FreeInode, At, JobOK
<1>a. /\ TypeOK /\ pc[t] = "release" /\ Releasing(f, t) /\ disk' = disk /\ got' = got
      /\ \A g \in File \ {f} : direct_block'[g] = direct_block[g] /\ length'[g] = length[g]
      /\ \A u \in Thread \ {t} : job'[u] = job[u] /\ pc'[u] = pc[u]
  BY <1>f1 DEF ReleaseSector, FreeInode, Inv, TypeOK, At, Goto, Done, Advance, inode, Releasing
<1>b. \A u \in Thread : Releasing(f, u) => u = t
  BY <1>a, ReleaseFacts
<1>1. \A g \in File \ {f}, u \in Thread : Releasing(g, u)' <=> Releasing(g, u)
  <2>1. CASE ReleaseSector(t)
    BY <2>1, <1>a, <1>f1, SMTT(20) DEF ReleaseSector, Releasing, Advance, TypeOK, Job
  <2>2. CASE FreeInode(t)
    BY <2>2, <1>a, <1>f1 DEF FreeInode, Goto, Done, Releasing, TypeOK
  <2> QED  BY <2>1, <2>2
<1>2. \A g \in File \ {f} : Contents(g)' = Contents(g)
  BY <1>1, <1>a, Unseen
<1>3. Contents(f) = <<>>
  BY <1>a DEF Contents
<1>4. CASE ReleaseSector(t)
  <2>1. Releasing(f, t)'
    BY <1>4, <1>a, <1>f1 DEF ReleaseSector, Releasing, Advance, TypeOK, Job
  <2>2. Contents(f)' = <<>>
    BY <2>1 DEF Contents
  <2> QED  BY <2>2, <1>2, <1>3, <1>a, AllUnseen
<1>5. CASE FreeInode(t)
  <2>1. \A u \in Thread : ~Releasing(f, u)'
    BY <1>5, <1>a, <1>b DEF FreeInode, Goto, Done, Releasing, TypeOK
  <2>2. length'[f] = 0
    BY <1>5, <1>a, <1>f1 DEF FreeInode, TypeOK
  <2>3. Contents(f)' = <<>>
    BY <2>1, <2>2 DEF Contents
  <2> QED  BY <2>3, <1>2, <1>3, <1>a, AllUnseen
<1> QED  BY <1>4, <1>5

LEMMA StepRefines ==
  ASSUME Inv, [Next]_vars
  PROVE  [Promise!Next]_(Promise!vars)
<1>1. CASE UNCHANGED vars
  <2>1. \A f \in File : Contents(f)' = Contents(f)
    BY <1>1 DEF vars, inode, Contents, Releasing
  <2> QED  BY <2>1, <1>1, AllUnseen DEF vars
<1> QED
  BY <1>1, QuietSteps, RemoveRefines, ExtendRefines, WriteRefines, EndWriteRefines, ReadRefines,
     CloseRefines, ReleaseRefines DEF Next

\* Each file is a sequence of its own that writes extend at once and readers
\* see whole (file_write, inode_write_at, inode_read_at and inode_close):
\* FileGrowth implements Files.
THEOREM FilesRefinement == Spec => ImplementsFiles
BY InitRefines, StepRefines, Invariance, PTL DEF Spec, ImplementsFiles, Promise!Spec
=============================================================================
