------------------------------- MODULE Files -------------------------------
(***************************************************************************)
(* What the file system promises about the contents of open files: each is *)
(* a sequence of its own, written in place sector by sector; a write that  *)
(* goes past the end appears there at once, with zeros before it where it  *)
(* left a gap, and a read returns what the file holds.                     *)
(***************************************************************************)
EXTENDS Naturals, Sequences

CONSTANTS File, Index, Value, Zero, Nothing

VARIABLES
  file,         \* the sectors of each file
  got           \* what the last read returned

vars == <<file, got>>

Init ==
  /\ file = [f \in File |-> <<>>]
  /\ got = Nothing

Overwrite(f, i, x) ==
  /\ i \in DOMAIN file[f]
  /\ file' = [file EXCEPT ![f][i] = x]
  /\ UNCHANGED got

\* What a write of the sectors from..to leaves behind the end of the file.
Extend(f, from, to, x) ==
  /\ from <= to /\ Len(file[f]) < to
  /\ file' = [file EXCEPT ![f] =
       [i \in 1..to |-> IF i \in DOMAIN @ THEN @[i] ELSE IF i < from THEN Zero ELSE x]]
  /\ UNCHANGED got

Read(f, i) ==
  /\ i \in DOMAIN file[f]
  /\ got' = file[f][i]
  /\ UNCHANGED file

\* A file that was removed goes when the last thread closes it.
Delete(f) ==
  /\ file' = [file EXCEPT ![f] = <<>>]
  /\ UNCHANGED got

Next ==
  \E f \in File :
    \/ \E i \in DOMAIN file[f] : \/ \E x \in Value : Overwrite(f, i, x)
                                 \/ Read(f, i)
    \/ \E from, to \in Index, x \in Value : Extend(f, from, to, x)
    \/ Delete(f)

Spec == Init /\ [][Next]_vars
=============================================================================
