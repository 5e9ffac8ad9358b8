--------------------------- MODULE MCProcessLife ---------------------------
(* Instances of ProcessLife for TLC. *)
EXTENDS ProcessLife, TLC

CONSTANTS p1, p2, p3, ls, no

\* Pages differ in nothing but the thread they hold.
Pages == Permutations({p1, p2, p3})
=============================================================================
