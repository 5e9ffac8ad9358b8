SPECIFICATION FairSpec
CONSTANTS
  t1 = t1
  t2 = t2
  t3 = t3
  a = a
  b = b
  e = e
  NoThread = NoThread
  NoSema = NoSema
  Thread = {t1, t2, t3}
  Main = t1
  Lock = {}
  Event = {e}
  Priority = {1}
  Rank <- MCRank
  Calls = {}
  MaxValue = 2
CHECK_DEADLOCK FALSE
PROPERTIES
  WokenTakes
