---------------------------- MODULE MCAlarmClock ----------------------------
(* Instances of AlarmClock for TLC. *)
EXTENDS AlarmClock
CONSTANTS t1, t2
=============================================================================
