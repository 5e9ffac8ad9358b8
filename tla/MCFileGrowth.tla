---------------------------- MODULE MCFileGrowth ----------------------------
(* Instances of FileGrowth for TLC. *)
EXTENDS FileGrowth, TLC

\* Threads, files and values differ in nothing but their names.
Twins == Permutations(Thread) \cup Permutations(File) \cup Permutations(Value)
=============================================================================
