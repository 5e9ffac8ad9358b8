SPECIFICATION Spec
CONSTANTS
  t1 = t1
  t2 = t2
  t3 = t3
  NoThread = NoThread
  Thread = {t1, t2, t3}
  Priority = {1, 2}
INVARIANTS
  TypeOK
  OneSignalEach
PROPERTIES
  BroadcastReachesAll
  ImplementsCond
CHECK_DEADLOCK FALSE
