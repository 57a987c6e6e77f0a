SPECIFICATION Spec
CONSTANTS
  Threads = {t1, t2, t3}
  None = None
  Thrown = Thrown
  Modulus = 3
  MaxDepth = 2
  Abandon = TRUE
SYMMETRY Symmetry
PROPERTIES OrphanStaysLocked
