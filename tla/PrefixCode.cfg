CONSTANTS
  AlphabetSize = 13
  MaxBits = 3
  FirstLength = 2
  DwordRange = 65536
  MaxLiterals = 3
  ComplexSymbol <- MCComplexSymbol
SPECIFICATION PcSpec
INVARIANTS CodeInv RunLength
CHECK_DEADLOCK FALSE
