------------------------------- MODULE Memory -------------------------------
(***************************************************************************)
(* What virtual memory promises a process: its pages hold what it stored   *)
(* in them last, whatever the kernel does with frames and swap slots.      *)
(***************************************************************************)
CONSTANTS
  Proc,         \* processes
  Code, Data,   \* pages of the program file: read-only, and writable
  Stack,        \* pages of the stack
  Value,        \* what a process stores
  File,         \* the contents of a page of the program file
  Fresh,        \* the contents of a new page of the stack
  Absent        \* no such page

VARIABLE mem    \* the contents of each page of each process

Program == Code \cup Data
Page == Program \cup Stack
Empty == [v \in Page |-> Absent]

Init == mem = [p \in Proc |-> Empty]

Start(p) ==
  /\ mem[p] = Empty
  /\ mem' = [mem EXCEPT ![p] = [v \in Page |-> IF v \in Program THEN File ELSE Absent]]

Store(p, v, x) ==
  /\ v \notin Code
  /\ mem[p][v] # Absent
  /\ mem' = [mem EXCEPT ![p][v] = x]

Grow(p, v) ==
  /\ mem[p][v] = Absent
  /\ mem' = [mem EXCEPT ![p][v] = Fresh]

Exit(p) == mem' = [mem EXCEPT ![p] = Empty]

Next ==
  \E p \in Proc :
    \/ Start(p)
    \/ \E v \in Page, x \in Value : Store(p, v, x)
    \/ \E v \in Stack : Grow(p, v)
    \/ Exit(p)

Spec == Init /\ [][Next]_mem
=============================================================================
