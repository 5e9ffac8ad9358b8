-------------------------- MODULE MCWindowTransfer --------------------------
(* Instances of WindowTransfer for TLC. *)
EXTENDS WindowTransfer
=============================================================================
