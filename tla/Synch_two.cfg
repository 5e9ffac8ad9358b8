SPECIFICATION Spec
CONSTANTS
  t1 = t1
  t2 = t2
  t3 = t3
  a = a
  b = b
  e = e
  NoThread = NoThread
  NoSema = NoSema
  Thread = {t1, t2}
  Main = t1
  Lock = {a, b}
  Event = {}
  Priority = {0, 1, 2}
  Rank <- MCRank
  Calls = {"lock_acquire", "lock_try_acquire", "thread_exit", "thread_set_priority"}
  MaxValue = 0
CHECK_DEADLOCK FALSE
INVARIANTS
  TypeOK
  
PROPERTIES
  
  ImplementsMutex
