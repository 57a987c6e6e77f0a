CONSTANTS
  DICT <- MCDICT
  NDBITS <- MCNDBITS
  transformation <- MCtransformation
  Byte = {1, 2}
  WindowBits = {3}
  WindowGap = 6
  Formats <- MCFormats
  MaxBlock = 4
  BlockCount = 4
  FarDistance = 17
  Contexts = 3
  MaxTrees = 2
  MaxRun = 1
  MaxOutput = 4
  MaxDistance = 12
SPECIFICATION Spec
INVARIANTS StreamInv
PROPERTIES RefinesWindow
CHECK_DEADLOCK FALSE
