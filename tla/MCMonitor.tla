----------------------------- MODULE MCMonitor -----------------------------
(* Instances of Monitor for TLC. *)
EXTENDS Monitor
CONSTANTS t1, t2, t3
=============================================================================
