SPECIFICATION Spec
CONSTANTS
  p1 = p1
  p2 = p2
  p3 = p3
  ls = ls
  no = no
  Null = Null
  Main = Main
  Page = {Main, p1, p2, p3}
  Program = {ls, no}
  Exists = {ls}
  MaxTid = 4
  MaxWaits = 1
SYMMETRY Pages
CHECK_DEADLOCK FALSE
INVARIANTS
  TypeOK
  WaitReadsChild
  NoLostExit
PROPERTIES
  ExecTruthful
  
