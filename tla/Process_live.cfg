SPECIFICATION FairSpec
CONSTANTS
  p1 = p1
  p2 = p2
  p3 = p3
  ls = ls
  no = no
  Null = Null
  Main = Main
  Page = {Main, p1, p2}
  Program = {ls}
  Exists = {ls}
  MaxTid = 4
  MaxWaits = 1
CHECK_DEADLOCK FALSE
PROPERTIES
  ZombiesEnd
  WaitsEnd
