SPECIFICATION FairSpec
CONSTANTS
  Threads = {t1, t2, t3}
  None = None
  Thrown = Thrown
  Modulus = 3
  MaxDepth = 2
  Abandon = FALSE
INVARIANTS CountIsHeld
PROPERTIES ThrownIffNotHeld ImplementsMutex FreeLockIsTaken
