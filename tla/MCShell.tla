------------------------------ MODULE MCShell ------------------------------
(* Instances of Shell for TLC. *)
EXTENDS Shell, TLC

\* Process identifiers are only compared.
Twins == Permutations(Pid)
=============================================================================
