-------------------------- MODULE MCVirtualMemory --------------------------
(* Instances of VirtualMemory for TLC. *)
EXTENDS VirtualMemory, TLC

\* Processes differ in nothing but their names.
Twins == Permutations(Proc)
=============================================================================
