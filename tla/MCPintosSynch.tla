--------------------------- MODULE MCPintosSynch ---------------------------
(* Instances of PintosSynch for TLC. *)
EXTENDS PintosSynch, TLC

CONSTANTS t1, t2, t3, a, b, e

\* Nested acquisitions take a before b.
MCRank == [l \in Lock |-> IF l = a THEN 1 ELSE 2]

Twins == Permutations(Thread \ {Main})
=============================================================================
