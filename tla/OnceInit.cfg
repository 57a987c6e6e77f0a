SPECIFICATION FairSpec
CONSTANTS
  Threads = {t1, t2, t3}
  None = None
  Statics = 2
  MaxFaults = 2
INVARIANTS OneInitialiser PassedIsBuilt NoLostWakeup
PROPERTIES CallsReturn
