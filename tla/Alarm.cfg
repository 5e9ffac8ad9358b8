SPECIFICATION FairSpec
CONSTANTS
  t1 = t1
  t2 = t2
  Thread = {t1, t2}
  MaxTicks = 3
  Huge = 9
INVARIANTS
  TypeOK
  OneWakePerSleep
PROPERTIES
  
  ImplementsAlarm
